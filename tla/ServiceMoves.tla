---------------------------- MODULE ServiceMoves ----------------------------
(***************************************************************************)
(* Copy, rename, delete and create_dir of the services under RetryLayer.   *)
(* An operation of a service is the sequence of the requests it sends, and *)
(* each definition <service>_<function> stands for the function that sends *)
(* them.  A request names what it does at the service and which kinds of   *)
(* error the function takes for success.  Any request may fail before it   *)
(* takes effect or lose its answer after it; RetryLayer then starts the    *)
(* operation over.  Copy and rename go from `from` to `to`; delete removes *)
(* `from`; create_dir makes the directory `to`.  Operator refuses equal    *)
(* paths, so they differ.                                                  *)
(***************************************************************************)
EXTENDS Naturals, Sequences

CONSTANTS
    Names,      \* the services
    Ops,        \* the operations: a subset of copy, rename, delete, create_dir
    Parents,    \* whether the directory `to` belongs to exists at first
    Faults,     \* the ways a request may fail: "before", "after" its effect
    MaxRetries, \* RetryLayer: how often an operation starts over
    MaxRivals   \* bound on the changes another client makes

ServiceMovesAssumption == MaxRetries \in Nat /\ MaxRivals \in Nat

Absent == "absent"
Answer(s, kind) == [store |-> s, kind |-> kind]   \* kind: "next", "done" or an error

Do(op) == <<[do |-> op, fine |-> {}]>>
DoFine(op, kinds) == <<[do |-> op, fine |-> kinds]>>
\* The caller of a request function takes these errors for success.
Fine(requests, kinds) == [i \in DOMAIN requests |-> [requests[i] EXCEPT !.fine = kinds]]

\* A file that is overwritten from its start keeps the tail of a longer one.
Filled(new, old) == IF old \in {"B", "AB"} THEN "AB" ELSE new
Moved(s)  == [s EXCEPT !.to = s.from, !.from = Absent]
Copied(s) == [s EXCEPT !.to = s.from]

\* What the requests do at the services.
Effect(op, s) ==
    LET needs(new) == CASE s.from = Absent -> Answer(s, "NotFound")
                        [] ~s.parent -> Answer(s, "NotFound")
                        [] OTHER -> Answer(new, "next")
        unless(bad, kind, new) == IF bad THEN Answer(s, kind) ELSE Answer(new, "next")
    IN CASE op = "stat_from"   -> unless(s.from = Absent, "NotFound", s)
         [] op = "lookup_from" -> unless(s.from = Absent, "done", s)
         [] op = "lookup_dir"  -> unless(s.to = "dir", "done", s)
         [] op = "mkparent"    -> Answer([s EXCEPT !.parent = TRUE], "next")
         [] op = "mkdir"       -> unless(s.to # Absent, "AlreadyExists",
                                         [s EXCEPT !.to = "dir", !.parent = TRUE])
         [] op = "mkdir_p"     -> unless(s.to \notin {Absent, "dir"}, "AlreadyExists",
                                         [s EXCEPT !.to = "dir", !.parent = TRUE])
         [] op = "find_sha"    -> Answer([s EXCEPT !.sha = s.to], "next")
         [] op = "put_by_sha"  -> unless(s.to # s.sha, "Unexpected",
                                         [s EXCEPT !.to = "dir", !.parent = TRUE])
         [] op = "copy"        -> needs(Copied(s))
         [] op = "move"        -> needs(Moved(s))
         [] op = "move_new"    -> IF s.to # Absent THEN Answer(s, "AlreadyExists")
                                  ELSE needs(Moved(s))
         [] op = "remove"      -> unless(s.from = Absent, "NotFound", [s EXCEPT !.from = Absent])
         [] op = "remove_any"  -> Answer([s EXCEPT !.from = Absent], "next")
         [] op = "remove_to"   -> unless(s.to = Absent, "NotFound", [s EXCEPT !.to = Absent])
         [] op = "clear_to"    -> Answer([s EXCEPT !.to = Absent], "next")
         [] op = "truncate_to" -> needs([s EXCEPT !.to = "empty"])
         [] op = "open_to"     -> needs([s EXCEPT !.to = IF s.to = Absent THEN "empty" ELSE s.to])
         [] op = "fill_to"     -> Answer([s EXCEPT !.to = Filled(s.from, s.to)], "next")
         [] op = "move_aside"  -> needs([s EXCEPT !.from = Absent, !.aside = s.from])
         [] op = "copy_aside"  -> needs([s EXCEPT !.aside = s.from])
         [] op = "aside_to"    -> unless(s.to # Absent, "AlreadyExists",
                                         [s EXCEPT !.to = s.aside, !.aside = Absent])
-----------------------------------------------------------------------------
(* Object stores: one request copies the object.                            *)
NotFoundIsFine == {"NotFound"}

azblob_copy_blob == Do("copy")
azblob_copyMutant == Do("clear_to") \o azblob_copy_blob
azblob_copy == azblob_copy_blob
azblob_delete_once == DoFine("remove", NotFoundIsFine)
cos_copy_object == Do("copy")
cos_copy == cos_copy_object
cos_delete_once == DoFine("remove", NotFoundIsFine)
gcs_copy_object == Do("copy")
gcs_copy == gcs_copy_object
gcs_delete_once == DoFine("remove", NotFoundIsFine)
lakefs_copy_object == Do("copy")
lakefs_copy == lakefs_copy_object
lakefs_delete_object == Do("remove")
lakefs_delete_once == Fine(lakefs_delete_object, NotFoundIsFine)
obs_copy_object == Do("copy")
obs_copy == obs_copy_object
obs_delete_object == Do("remove")
obs_delete_once == Fine(obs_delete_object, NotFoundIsFine)
oss_copy_object == Do("copy")
oss_copy == oss_copy_object
oss_delete_once == DoFine("remove", NotFoundIsFine)
s3_copy_object == Do("copy")
s3_copy == s3_copy_object
s3_delete_onceMutant == Do("remove")
s3_delete_once == DoFine("remove", NotFoundIsFine)
swift_copy_object == Do("copy")
swift_copy == swift_copy_object
swift_delete == Do("remove")
swift_delete_once == Fine(swift_delete, NotFoundIsFine)
upyun_core_copy == Do("copy")
upyun_copy == upyun_core_copy
upyun_move_object == Do("move")
upyun_rename == upyun_move_object
upyun_delete == Do("remove")
upyun_delete_once == Fine(upyun_delete, NotFoundIsFine)
upyun_core_create_dir == Do("mkdir_p")
upyun_create_dir == upyun_core_create_dir
\* The source is looked up in a listing first.
b2_copy_file == Do("copy")
b2_copy == Do("stat_from") \o b2_copy_file
b2_hide_file == Do("remove")
b2_delete_once == Fine(b2_hide_file, {"NotFound", "AlreadyExists"})
vercel_blob_core_copy == Do("stat_from") \o Do("copy")
vercel_blob_copy == vercel_blob_core_copy
ghac_delete == DoFine("remove", NotFoundIsFine)
chainsafe_delete_object == Do("remove")
chainsafe_delete_once == Fine(chainsafe_delete_object, NotFoundIsFine)
chainsafe_core_create_dir == Do("mkdir")
chainsafe_create_dirMutant == chainsafe_core_create_dir
chainsafe_create_dir == Fine(chainsafe_core_create_dir, {"AlreadyExists"})
\* The sha of the file is looked up; without one there is nothing to delete.
github_delete == Do("lookup_from") \o DoFine("remove", NotFoundIsFine)
\* The contents of a file are replaced by its sha, and created without one: a
\* file that was not there when it was asked for is an error.
github_get_file_sha == Do("find_sha")
github_upload == github_get_file_sha \o Do("put_by_sha")
github_create_dir == github_upload         \* an empty .gitkeep is written
-----------------------------------------------------------------------------
(* Services with directories.                                               *)
azdls_ensure_parent_path == Do("mkparent")
azdls_core_rename == Do("move")
azdls_renameMutant == azdls_core_rename
azdls_rename == azdls_ensure_parent_path \o azdls_core_rename
azdls_delete == Do("remove")
azdls_delete_once == Fine(azdls_delete, NotFoundIsFine)
azdls_create_dir == Do("mkdir_p")
azfile_ensure_parent_dir_exists == Do("mkparent")
azfile_core_rename == Do("move")           \* X_MS_FILE_RENAME_REPLACE_IF_EXISTS
azfile_rename == azfile_ensure_parent_dir_exists \o azfile_core_rename
azfile_delete == Do("remove")
azfile_delete_once == Fine(azfile_delete, NotFoundIsFine)
azfile_create_dir == azfile_ensure_parent_dir_exists \o DoFine("mkdir", {"AlreadyExists"})
webdav_mkcol == Do("lookup_dir") \o DoFine("mkdir", {"AlreadyExists"})
webdav_core_copy == Do("stat_from") \o Do("mkparent") \o Do("copy")
webdav_copy == webdav_core_copy
webdav_move == Do("stat_from") \o Do("mkparent") \o Do("move")
webdav_rename == webdav_move
webdav_delete == Do("remove")
webdav_delete_once == Fine(webdav_delete, NotFoundIsFine)
pcloud_ensure_dir_exists == Do("mkparent")
pcloud_copy_file == Do("copy")
pcloud_copy == pcloud_ensure_dir_exists \o pcloud_copy_file
pcloud_rename_fileMutant == DoFine("move", NotFoundIsFine)
pcloud_rename_file == Do("move")
pcloud_rename == pcloud_ensure_dir_exists \o pcloud_rename_file
pcloud_delete_file == Do("remove")
pcloud_delete_once == Fine(pcloud_delete_file, NotFoundIsFine)
pcloud_create_folder_if_not_exists == Do("mkdir_p")
pcloud_create_dir == pcloud_create_folder_if_not_exists
yandex_disk_ensure_dir_exists == Do("mkparent")
yandex_disk_core_copy == Do("copy")
yandex_disk_copy == yandex_disk_ensure_dir_exists \o yandex_disk_core_copy
yandex_disk_move_objectMutant == Do("move_aside") \o Do("aside_to")
yandex_disk_move_object == Do("move")
yandex_disk_rename == yandex_disk_ensure_dir_exists \o yandex_disk_move_object
yandex_disk_delete == Do("remove")
yandex_disk_delete_once == Fine(yandex_disk_delete, NotFoundIsFine)
yandex_disk_core_create_dir == Do("mkdir")
yandex_disk_create_dir == Fine(yandex_disk_core_create_dir, {"AlreadyExists"})
\* NotFound is taken for success.
dropbox_core_copy == Do("copy")
dropbox_copy == Fine(dropbox_core_copy, NotFoundIsFine)
dropbox_move == Do("move")
dropbox_rename == Fine(dropbox_move, NotFoundIsFine)
dropbox_delete == Do("remove")
dropbox_delete_once == Fine(dropbox_delete, NotFoundIsFine)
dropbox_create_folder == DoFine("mkdir", {"AlreadyExists"})
dropbox_create_dir == Do("lookup_dir") \o dropbox_create_folder
onedrive_delete == Do("remove")
onedrive_delete_once == Fine(onedrive_delete, NotFoundIsFine)
onedrive_create_dir == Do("mkdir_p")       \* conflictBehavior: replace
\* The server answers OK even if the path does not exist.
seafile_delete == Do("remove_any")
seafile_delete_once == seafile_delete
ipmfs_rm == Do("remove")                   \* parse_error finds "file does not exist"
ipmfs_delete_once == ipmfs_rm
ipmfs_mkdir == Do("mkdir_p")
ipmfs_create_dir == ipmfs_mkdir
alluxio_core_rename == Do("move")
alluxio_rename == alluxio_core_rename
alluxio_delete == DoFine("remove", NotFoundIsFine)
alluxio_delete_once == alluxio_delete
alluxio_core_create_dir == Do("mkdir_p")
alluxio_create_dir == alluxio_core_create_dir
webhdfs_delete == Do("remove_any")
webhdfs_delete_once == webhdfs_delete
webhdfs_create_dir == Do("mkdir_p")
\* ensure_parent_path looks for the target itself and makes a directory of it.
dbfs_ensure_parent_path == DoFine("mkdir", {"AlreadyExists"})
dbfs_core_rename == Do("move_new")
dbfs_rename == dbfs_ensure_parent_path \o dbfs_core_rename
dbfs_delete == Do("remove_any")
dbfs_delete_once == dbfs_delete
dbfs_core_create_dir == Do("mkdir_p")
dbfs_create_dir == dbfs_core_create_dir
\* The target is removed first.
koofr_ensure_dir_exists == Do("mkparent")
koofr_core_create_dir == Do("lookup_dir") \o DoFine("mkdir", {"AlreadyExists"})
koofr_create_dir == koofr_ensure_dir_exists \o koofr_core_create_dir
koofr_remove == Do("remove_to")
koofr_core_copy == Do("copy")
koofr_copy == koofr_ensure_dir_exists \o Fine(koofr_remove, NotFoundIsFine) \o koofr_core_copy
koofr_move_object == Do("move")
koofr_rename == koofr_ensure_dir_exists \o Fine(koofr_remove, NotFoundIsFine) \o koofr_move_object
koofr_delete_once == DoFine("remove", NotFoundIsFine)
gdrive_copy == Do("stat_from") \o Do("mkparent") \o Do("clear_to") \o Do("copy")
gdrive_patch_metadata_request == Do("stat_from") \o Do("mkparent") \o Do("move")
gdrive_rename == Do("clear_to") \o gdrive_patch_metadata_request
gdrive_delete_once == Do("lookup_from") \o Do("remove_any")   \* the file is trashed by its id
gdrive_create_dir == Do("mkdir_p")
\* The file is moved into the directory under its own name, then renamed.
aliyun_drive_ensure_dir_exists == Do("mkparent")
aliyun_drive_move_path == Do("move_aside")
aliyun_drive_copy_path == Do("copy_aside")
aliyun_drive_update_path == Do("aside_to")
aliyun_drive_rename == Do("stat_from") \o Do("clear_to") \o aliyun_drive_ensure_dir_exists
                         \o aliyun_drive_move_path \o aliyun_drive_update_path
aliyun_drive_copy == Do("stat_from") \o Do("clear_to") \o aliyun_drive_ensure_dir_exists
                         \o aliyun_drive_copy_path \o aliyun_drive_update_path
aliyun_drive_delete_once == Do("lookup_from") \o Do("remove")
aliyun_drive_create_dir == Do("mkdir_p")
-----------------------------------------------------------------------------
(* File systems.                                                            *)
fs_ensure_write_abs_path == Do("mkparent")
fs_copyMutant == Do("stat_from") \o fs_ensure_write_abs_path \o Do("open_to") \o Do("fill_to")
fs_copy == Do("stat_from") \o fs_ensure_write_abs_path \o Do("truncate_to") \o Do("fill_to")
fs_blocking_copy == fs_copy
fs_rename == Do("stat_from") \o fs_ensure_write_abs_path \o Do("move")
fs_blocking_rename == fs_rename
fs_delete_once == Do("lookup_from") \o Do("remove")
fs_create_dir == Do("mkdir_p")
monoiofs_copy == Do("stat_from") \o Do("mkparent") \o Do("truncate_to") \o Do("fill_to")
monoiofs_rename == Do("stat_from") \o Do("mkparent") \o Do("move")
monoiofs_delete_once == Do("lookup_from") \o Do("remove")
monoiofs_create_dir == Do("mkdir_p")
compfs_copy == Do("stat_from") \o Do("open_to") \o Do("fill_to")
compfs_rename == Do("move")
compfs_delete_once == Do("remove")
compfs_create_dir == Do("mkdir_p")
sftp_create_dir == DoFine("mkdir", {"AlreadyExists"})
sftp_copy == Do("mkparent") \o Do("stat_from") \o Do("truncate_to") \o Do("fill_to")
sftp_rename == Do("mkparent") \o Do("move")
sftp_delete_once == DoFine("remove", NotFoundIsFine)
ftp_delete_once == DoFine("remove", NotFoundIsFine)
ftp_create_dir == DoFine("mkdir", {"AlreadyExists"})
hdfs_rename == Do("stat_from") \o Do("clear_to") \o Do("mkparent") \o Do("move")
hdfs_blocking_rename == hdfs_rename
hdfs_delete_once == Do("lookup_from") \o Do("remove")
hdfs_create_dir == Do("mkdir_p")
hdfs_native_rename == Do("move_new")       \* overwrite is false
hdfs_native_delete_once == Do("remove_any")
hdfs_native_create_dir == Do("mkdir_p")
-----------------------------------------------------------------------------
CopyOf == [azblob |-> azblob_copy, cos |-> cos_copy, gcs |-> gcs_copy, lakefs |-> lakefs_copy,
    obs |-> obs_copy, oss |-> oss_copy, s3 |-> s3_copy, swift |-> swift_copy,
    upyun |-> upyun_copy, b2 |-> b2_copy, vercel_blob |-> vercel_blob_copy,
    webdav |-> webdav_copy, pcloud |-> pcloud_copy, yandex_disk |-> yandex_disk_copy,
    dropbox |-> dropbox_copy, koofr |-> koofr_copy, gdrive |-> gdrive_copy,
    aliyun_drive |-> aliyun_drive_copy, fs |-> fs_copy, fs_blocking |-> fs_blocking_copy,
    monoiofs |-> monoiofs_copy, compfs |-> compfs_copy, sftp |-> sftp_copy]

RenameOf == [upyun |-> upyun_rename, azdls |-> azdls_rename, azfile |-> azfile_rename,
    webdav |-> webdav_rename, pcloud |-> pcloud_rename, yandex_disk |-> yandex_disk_rename,
    dropbox |-> dropbox_rename, alluxio |-> alluxio_rename, dbfs |-> dbfs_rename,
    koofr |-> koofr_rename, gdrive |-> gdrive_rename, aliyun_drive |-> aliyun_drive_rename,
    fs |-> fs_rename, fs_blocking |-> fs_blocking_rename, monoiofs |-> monoiofs_rename,
    compfs |-> compfs_rename, sftp |-> sftp_rename, hdfs |-> hdfs_rename,
    hdfs_blocking |-> hdfs_blocking_rename, hdfs_native |-> hdfs_native_rename]

DeleteOf == [azblob |-> azblob_delete_once, cos |-> cos_delete_once, gcs |-> gcs_delete_once,
    lakefs |-> lakefs_delete_once, obs |-> obs_delete_once, oss |-> oss_delete_once,
    s3 |-> s3_delete_once, swift |-> swift_delete_once, upyun |-> upyun_delete_once, b2 |-> b2_delete_once,
    ghac |-> ghac_delete, chainsafe |-> chainsafe_delete_once, github |-> github_delete,
    azdls |-> azdls_delete_once, azfile |-> azfile_delete_once, webdav |-> webdav_delete_once,
    pcloud |-> pcloud_delete_once, yandex_disk |-> yandex_disk_delete_once, dropbox |-> dropbox_delete_once,
    onedrive |-> onedrive_delete_once, seafile |-> seafile_delete_once, ipmfs |-> ipmfs_delete_once,
    alluxio |-> alluxio_delete_once, webhdfs |-> webhdfs_delete_once, dbfs |-> dbfs_delete_once,
    koofr |-> koofr_delete_once, gdrive |-> gdrive_delete_once,
    aliyun_drive |-> aliyun_drive_delete_once, fs |-> fs_delete_once,
    monoiofs |-> monoiofs_delete_once, compfs |-> compfs_delete_once, sftp |-> sftp_delete_once,
    ftp |-> ftp_delete_once, hdfs |-> hdfs_delete_once, hdfs_native |-> hdfs_native_delete_once]

CreateDirOf == [upyun |-> upyun_create_dir, chainsafe |-> chainsafe_create_dir,
    github |-> github_create_dir, azdls |-> azdls_create_dir, azfile |-> azfile_create_dir,
    webdav |-> webdav_mkcol, pcloud |-> pcloud_create_dir, yandex_disk |-> yandex_disk_create_dir,
    dropbox |-> dropbox_create_dir, onedrive |-> onedrive_create_dir, ipmfs |-> ipmfs_create_dir,
    alluxio |-> alluxio_create_dir, webhdfs |-> webhdfs_create_dir, dbfs |-> dbfs_create_dir,
    koofr |-> koofr_create_dir, gdrive |-> gdrive_create_dir,
    aliyun_drive |-> aliyun_drive_create_dir, fs |-> fs_create_dir, monoiofs |-> monoiofs_create_dir,
    compfs |-> compfs_create_dir, sftp |-> sftp_create_dir, ftp |-> ftp_create_dir,
    hdfs |-> hdfs_create_dir, hdfs_native |-> hdfs_native_create_dir]

Table(op) == CASE op = "copy" -> CopyOf      [] op = "rename" -> RenameOf
               [] op = "delete" -> DeleteOf  [] op = "create_dir" -> CreateDirOf
-----------------------------------------------------------------------------
VARIABLES
    service, op,   \* what is called
    first,         \* the store when it was called
    store,         \* from, to: contents of the paths; aside: the file under the
                   \*   source's name in the target's directory; parent: whether
                   \*   that directory exists; sha: what get_file_sha found
    pc,            \* the next request
    retries,       \* restarts left
    rivals,        \* changes by others
    result         \* "none" while it runs, "Ok" or the kind of the error

vars == <<service, op, first, store, pc, retries, rivals, result>>

Flat == {"azblob", "cos", "gcs", "lakefs", "obs", "oss", "s3", "swift", "upyun", "b2",
         "vercel_blob", "ghac", "chainsafe", "github"}
Program == Table(op)[service]

Init ==
    /\ op \in Ops
    /\ service \in Names \cap DOMAIN Table(op)
    /\ \E from \in {Absent, "A"}, parent \in Parents :
       \E to \in {Absent} \cup (IF ~parent THEN {}
                               ELSE IF op = "create_dir" THEN {"dir"} ELSE {"B"}) :
            store = [from |-> from, to |-> to, aside |-> Absent,
                     parent |-> parent \/ service \in Flat, sha |-> Absent]
    /\ first = store
    /\ pc = 1
    /\ retries = MaxRetries
    /\ rivals = 0
    /\ result = "none"

\* RetryLayer: a temporary error starts the operation over.
Retry ==
    IF retries = 0 THEN result' = "Temporary" /\ UNCHANGED <<pc, retries>>
    ELSE pc' = 1 /\ retries' = retries - 1 /\ UNCHANGED result

\* The request is answered.
Request ==
    /\ result = "none"
    /\ LET request == Program[pc]
           answer  == Effect(request.do, store)
           goes_on == answer.kind \in {"next"} \cup request.fine
       IN /\ store' = answer.store
          /\ pc' = IF goes_on THEN pc + 1 ELSE pc
          /\ result' = CASE answer.kind = "done" -> "Ok"
                         [] goes_on /\ pc = Len(Program) -> "Ok"
                         [] goes_on -> "none"
                         [] OTHER -> answer.kind
    /\ UNCHANGED <<service, op, first, retries, rivals>>

\* The request fails before it does anything.
RequestFails ==
    /\ result = "none" /\ "before" \in Faults
    /\ Retry
    /\ UNCHANGED <<service, op, first, store, rivals>>

\* The request takes effect and its answer is lost.
AnswerLost ==
    /\ result = "none" /\ "after" \in Faults
    /\ store' = Effect(Program[pc].do, store).store
    /\ Retry
    /\ UNCHANGED <<service, op, first, rivals>>

\* Another client deletes the file or creates the directory meanwhile.
Rival ==
    /\ result = "none" /\ rivals < MaxRivals
    /\ \/ op = "delete" /\ store' = [store EXCEPT !.from = Absent]
       \/ /\ op = "create_dir"
          /\ store' = [store EXCEPT !.to = "dir", !.parent = TRUE]
    /\ rivals' = rivals + 1
    /\ UNCHANGED <<service, op, first, pc, retries, result>>

Next == Request \/ RequestFails \/ AnswerLost \/ Rival

Spec == Init /\ [][Next]_vars
-----------------------------------------------------------------------------
Moving == op \in {"copy", "rename"}

\* What was copied or renamed is at one of the two paths at every moment, even
\* when requests fail, answers are lost and the operation is started over.
SourceNeverLost ==
    Moving /\ first.from = "A" => "A" \in {store.from, store.to}

\* A rename or copy that returns Ok has put the source's content at the target,
\* and a rename has taken the source away; without a source neither returns Ok.
OkMeansMoved ==
    Moving /\ result = "Ok" =>
        /\ first.from = "A" /\ store.to = "A"
        /\ store.from = IF op = "rename" THEN Absent ELSE "A"

\* Where nothing fails, an existing source is copied or renamed, whether the
\* target exists or not and whether its directory exists or not.
MoveSucceeds ==
    Moving /\ first.from = "A" /\ retries = MaxRetries => result \in {"none", "Ok"}

\* A missing source is reported as NotFound, unless nothing answers.
MissingSource ==
    Moving /\ first.from = Absent => result \in {"none", "NotFound", "Temporary"}

\* The target holds what it held or what it shall hold, at every moment.
TargetOldOrNew == Moving => store.to \in {first.to, "A"}

\* Delete may be repeated and raced: it returns Ok for a missing path, and Ok
\* means that the path is gone.
DeleteIdempotent ==
    op = "delete" => /\ result \in {"none", "Ok", "Temporary"}
                     /\ result = "Ok" => store.from = Absent

\* create_dir may be repeated and raced: the directory is there when it returns
\* Ok, and an existing one is no error; for github unless another client makes
\* it at the same time.
CreateDirIdempotent ==
    op = "create_dir" =>
        /\ result \in {"none", "Ok", "Temporary"} \/ (service = "github" /\ rivals > 0)
        /\ result = "Ok" => store.to = "dir" /\ store.parent

\* "Create on existing dir will succeed": also if it came to exist meanwhile.
CreateDirRaced == op = "create_dir" => result \in {"none", "Ok", "Temporary"}
=============================================================================
