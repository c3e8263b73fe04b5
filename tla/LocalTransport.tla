---------------------------- MODULE LocalTransport ----------------------------
(***************************************************************************)
(* The plugin core.local: one operator for each operation of the transport *)
(* that changes files, from the file systems on both sides to the outcome  *)
(* on the side that is written to. Paths are absolute, as the engine's are,*)
(* and symbolic links are not followed.                                    *)
(***************************************************************************)
EXTENDS Files

Mkdir(r, path, ignore_existing) ==
    IF ignore_existing /\ IsDir(r, path) THEN Done(r) ELSE SysMkdir(r, path)

Makedirs(r, path, ignore_existing) == SysMakedirs(r, path, ignore_existing)

Rmdir(r, path) == SysRmdir(r, path)

RemoveFile(r, path) == SysRemove(r, path)

Rmtree(r, path) == Done(Delete(r, path))

\* shutil.move copies and deletes when the rename fails, and the copy of a
\* directory makes the parents that are missing.
Rename(r, oldpath, newpath) ==
    IF ~ Exists(r, oldpath) \/ Exists(r, newpath) THEN OSError(r)
    ELSE IF IsDir(r, oldpath) /\ ~ IsPrefix(oldpath, newpath) /\ NoFileOn(r, newpath)
    THEN Done(Delete(Overlay(r, newpath, TreeAt(r, oldpath)), oldpath))
    ELSE SysRename(r, oldpath, newpath)

Symlink(r, link, remotedestination) ==
    IF Exists(r, remotedestination) THEN OSError(r) ELSE WriteFile(r, link, remotedestination)

-----------------------------------------------------------------------------

PutFile(r, content, remotepath, overwrite) ==
    IF Exists(r, remotepath) /\ ~ overwrite THEN OSError(r)
    ELSE WriteFile(r, content, remotepath)

PutTree(r, tree, base, remotepath, overwrite) ==
    IF (Exists(r, remotepath) /\ ~ overwrite) \/ IsFile(r, remotepath) THEN OSError(r)
    ELSE CopyTree(r, tree, IF IsDir(r, remotepath) THEN remotepath \o base ELSE remotepath, overwrite)

Put(l, r, localpath, remotepath, overwrite, ignore_nonexisting) ==
    LET to_copy_list == Glob(l, localpath)
        one(fs, p) ==
            IF IsDir(l, Normal(p))
            THEN PutTree(fs, TreeAt(l, Normal(p)), BaseName(p), remotepath, overwrite)
            ELSE PutFile(fs, l[p], IF IsDir(fs, remotepath) THEN remotepath \o BaseName(p)
                                   ELSE remotepath, overwrite)
    IN  CASE Len(to_copy_list) > 1 /\ ~ IsDir(r, remotepath) -> OSError(r)
          [] to_copy_list = <<>> /\ ~ HasMagic(localpath) /\ ~ ignore_nonexisting -> OSError(r)
          [] OTHER -> ForEach(to_copy_list, one, r)

GetFile(l, content, name, localpath, overwrite) ==
    IF Exists(l, localpath) /\ ~ overwrite THEN OSError(l) ELSE WriteFile(l, content, localpath)

GetTree(l, tree, base, localpath, overwrite) ==
    IF (Exists(l, localpath) /\ ~ overwrite) \/ IsFile(l, localpath) THEN OSError(l)
    ELSE CopyTree(l, tree, IF IsDir(l, localpath) THEN localpath \o base ELSE localpath, overwrite)

\* The single match of a pattern is written to localpath itself, also when that is
\* a directory.
Get(r, l, remotepath, localpath, overwrite, ignore_nonexisting) ==
    LET to_copy_list == Glob(r, remotepath)
        rename_local == Len(to_copy_list) > 1 \/ (~ HasMagic(remotepath) /\ IsDir(l, localpath))
        one(fs, p) ==
            IF IsDir(r, p) THEN GetTree(fs, TreeAt(r, p), BaseName(p), localpath, overwrite)
            ELSE GetFile(fs, r[p], BaseName(p), IF rename_local THEN localpath \o BaseName(p)
                                                ELSE localpath, overwrite)
    IN  CASE Len(to_copy_list) > 1 /\ ~ IsDir(l, localpath) -> OSError(l)
          [] to_copy_list = <<>> /\ ~ HasMagic(remotepath) /\ ~ ignore_nonexisting -> OSError(l)
          [] OTHER -> ForEach(to_copy_list, one, l)

-----------------------------------------------------------------------------

\* shutil.copytree without dirs_exist_ok.
LocalCopyTree(r, source, destination) ==
    CopyTree(r, TreeAt(r, source),
             IF IsDir(r, destination) THEN destination \o BaseName(source) ELSE destination, FALSE)

Copy(r, remotesource, remotedestination) ==
    LET to_copy_list == Glob(r, remotesource)
        one(fs, p) == IF IsFile(fs, p) THEN WriteInto(fs, fs[p], Last(p), remotedestination)
                      ELSE LocalCopyTree(fs, p, remotedestination)
    IN  CASE to_copy_list = <<>> /\ ~ HasMagic(remotesource) -> FileNotFoundError(r)
          [] remotesource = remotedestination -> Outcome("value", r)
          [] Len(to_copy_list) > 1 /\ ~ IsDir(r, remotedestination) -> OSError(r)
          [] OTHER -> ForEach(to_copy_list, one, r)
=============================================================================
