--------------------------- MODULE OneShotWriter ---------------------------
(***************************************************************************)
(* OneShotWriter of core/src/raw/oio/write/one_shot_write.rs under          *)
(* CompleteWriter, over the services that implement OneShotWrite: what      *)
(* requests write_once makes of a service, in which order, and what each    *)
(* does.  Several writers of one path run at once; a request fails with or  *)
(* without effect, and a call that failed may be repeated.                  *)
(*                                                                          *)
(* A service keeps the files with the name of the path: at most one, except *)
(* for Google Drive.  A content is Old, Empty or the writer it comes from.  *)
(***************************************************************************)
EXTENDS Naturals, Sequences, SequencesExt

CONSTANTS
  Writers, Old, Empty,
  Services,        \* the services to check
  Size,            \* of a buffer that is not empty
  MAX_SIMPLE_SIZE, CHUNK_SIZE_FACTOR,
  MaxFiles         \* bound: files with the name of the path

OneShotAssumption ==
  /\ {Size, MAX_SIMPLE_SIZE, CHUNK_SIZE_FACTOR, MaxFiles} \subseteq Nat \ {0}
  /\ Old \notin Writers /\ Empty \notin Writers \cup {Old}

VARIABLES
  service,
  buffer,       \* per writer: the content it was given, Empty for None
  inner,        \* per writer: "new", and CompleteWriter: "open", "closed", "aborted"
  todo,         \* per writer: the requests that its close has yet to make
  file_id,      \* per writer, gdrive: the file it found when it was opened, or 0
  sha,          \* per writer, github: the files it has seen
  received,     \* per writer, onedrive: the bytes its upload session holds
  given,        \* history, per writer: what an acknowledged write gave it
  closes,       \* history: what it had been given whenever close was called
  dir,          \* the parent directory exists
  files         \* the files with the name of the path

vars == <<service, buffer, inner, todo, file_id, sha, received, given, closes, dir, files>>

-----------------------------------------------------------------------------
(* write_once of each service, for a buffer of n bytes.                     *)

DbfsWriteOnce(n) == IF n >= MAX_SIMPLE_SIZE THEN <<"unsupported">> ELSE <<"put">>
ChainsafeWriteOnce(n) == <<"put">>
VercelArtifactsWriteOnce(n) == <<"put">>
LakefsWriteOnce(n) == <<"put">>
IpmfsWriteOnce(n) == <<"put">>
SwiftWriteOnce(n) == <<"put">>
DropboxWriteOnce(n) == <<"put">>
WebdavWriteOnce(n) == <<"put in dir">>
KoofrWriteOnce(n) == <<"ensure dir", "put in dir">>
PcloudWriteOnce(n) == <<"ensure dir", "put in dir">>
YandexDiskWriteOnce(n) == <<"ensure dir", "get url", "put in dir">>
SeafileWriteOnce(n) == <<"get url", "put">>
GithubWriteOnce(n) == <<"get sha", "put if sha">>
AzdlsWriteOnce(n) == <<"create", "update">>
AzfileWriteOnce(n) == <<"create", "update">>
GdriveWriteOnce(n) == <<"upload">>

(* The chunks of onedrive, each the range of bytes of its request.          *)
WriteChunkedMutant(n) ==   \* the last chunk is forgotten
  [k \in 1..(n \div CHUNK_SIZE_FACTOR) |->
     ((k - 1) * CHUNK_SIZE_FACTOR)..(k * CHUNK_SIZE_FACTOR - 1)]

WriteChunked(n) ==
  [k \in 1..((n + CHUNK_SIZE_FACTOR - 1) \div CHUNK_SIZE_FACTOR) |->
     LET offset == (k - 1) * CHUNK_SIZE_FACTOR
         end == IF offset + CHUNK_SIZE_FACTOR > n THEN n ELSE offset + CHUNK_SIZE_FACTOR
     IN  offset..(end - 1)]

OneDriveWriteOnce(n) ==
  IF n <= MAX_SIMPLE_SIZE
    THEN <<"put">>
    ELSE <<"create session">> \o [k \in DOMAIN WriteChunked(n) |-> "chunk"]

WriteOnce(s, n) ==
  CASE s = "dbfs" -> DbfsWriteOnce(n)
    [] s = "chainsafe" -> ChainsafeWriteOnce(n)
    [] s = "vercel_artifacts" -> VercelArtifactsWriteOnce(n)
    [] s = "lakefs" -> LakefsWriteOnce(n)
    [] s = "ipmfs" -> IpmfsWriteOnce(n)
    [] s = "swift" -> SwiftWriteOnce(n)
    [] s = "dropbox" -> DropboxWriteOnce(n)
    [] s = "webdav" -> WebdavWriteOnce(n)
    [] s = "koofr" -> KoofrWriteOnce(n)
    [] s = "pcloud" -> PcloudWriteOnce(n)
    [] s = "yandex_disk" -> YandexDiskWriteOnce(n)
    [] s = "seafile" -> SeafileWriteOnce(n)
    [] s = "github" -> GithubWriteOnce(n)
    [] s = "azdls" -> AzdlsWriteOnce(n)
    [] s = "azfile" -> AzfileWriteOnce(n)
    [] s = "gdrive" -> GdriveWriteOnce(n)
    [] s = "onedrive" -> OneDriveWriteOnce(n)

-----------------------------------------------------------------------------
Init ==
  /\ service \in Services
  /\ buffer = [w \in Writers |-> Empty]
  /\ inner = [w \in Writers |-> "new"]
  /\ todo = [w \in Writers |-> <<>>]
  /\ file_id = [w \in Writers |-> 0]
  /\ sha = [w \in Writers |-> <<>>]
  /\ received = [w \in Writers |-> {}]
  /\ given = [w \in Writers |-> Empty]
  /\ closes = {}
  /\ dir \in BOOLEAN
  /\ files \in IF dir THEN {<<>>, <<Old>>} ELSE {<<>>}

(* Accessor::write: webdav makes the parent directory, gdrive looks for the *)
(* file, to keep its id.                                                    *)
Open(w) ==
  /\ inner[w] = "new"
  /\ inner' = [inner EXCEPT ![w] = "open"]
  /\ dir' = (dir \/ service = "webdav")
  /\ file_id' = IF service = "gdrive" THEN [file_id EXCEPT ![w] = Len(files)] ELSE file_id
  /\ UNCHANGED <<service, buffer, todo, sha, received, given, closes, files>>

Idle(w) == inner[w] = "open" /\ todo[w] = <<>>

(* A second write is refused.                                               *)
Write(w) ==
  /\ Idle(w)
  /\ buffer[w] = Empty
  /\ buffer' = [buffer EXCEPT ![w] = w]
  /\ given' = [given EXCEPT ![w] = w]
  /\ UNCHANGED <<service, inner, todo, file_id, sha, received, closes, dir, files>>

Close(w) ==
  /\ Idle(w)
  /\ todo' = [todo EXCEPT ![w] = WriteOnce(service, IF buffer[w] = Empty THEN 0 ELSE Size)]
  /\ closes' = closes \cup {given[w]}
  /\ UNCHANGED <<service, buffer, inner, file_id, sha, received, given, dir, files>>

Abort(w) ==
  /\ Idle(w)
  /\ inner' = [inner EXCEPT ![w] = "aborted"]
  /\ buffer' = [buffer EXCEPT ![w] = Empty]
  /\ UNCHANGED <<service, todo, file_id, sha, received, given, closes, dir, files>>

-----------------------------------------------------------------------------
(* What the requests do *)

Request(w) == Head(todo[w])

Put(w) ==
  /\ \/ Request(w) = "put"
     \/ Request(w) = "put in dir" /\ dir
     \/ Request(w) = "put if sha" /\ sha[w] = files
     \/ Request(w) = "update" /\ files # <<>>
  /\ files' = <<buffer[w]>>
  /\ UNCHANGED <<file_id, sha, received, dir>>

Create(w) ==
  /\ Request(w) = "create"
  /\ files' = <<Empty>>
  /\ UNCHANGED <<file_id, sha, received, dir>>

(* gdrive: the writer that found a file overwrites it; any other creates a  *)
(* file, whatever has happened since.                                       *)
Upload(w) ==
  /\ Request(w) = "upload"
  /\ \/ file_id[w] = 0 /\ Len(files) < MaxFiles /\ files' = Append(files, buffer[w])
     \/ file_id[w] > 0 /\ files' = [files EXCEPT ![file_id[w]] = buffer[w]]
  /\ UNCHANGED <<file_id, sha, received, dir>>

(* onedrive: the session is committed with its last byte.                   *)
UploadChunk(w) ==
  /\ Request(w) = "chunk"
  /\ LET ranges == WriteChunked(Size)
     IN  received' = [received EXCEPT ![w] = @ \cup ranges[Len(ranges) - Len(todo[w]) + 1]]
  /\ files' = IF received'[w] = 0..(Size - 1) THEN <<buffer[w]>> ELSE files
  /\ UNCHANGED <<file_id, sha, dir>>

EnsureDir(w) ==
  /\ Request(w) = "ensure dir"
  /\ dir' = TRUE
  /\ UNCHANGED <<file_id, sha, received, files>>

GetUrl(w) ==
  /\ Request(w) = "get url"
  /\ UNCHANGED <<file_id, sha, received, dir, files>>

GetSha(w) ==
  /\ Request(w) = "get sha"
  /\ sha' = [sha EXCEPT ![w] = files]
  /\ UNCHANGED <<file_id, received, dir, files>>

CreateSession(w) ==
  /\ Request(w) = "create session"
  /\ received' = [received EXCEPT ![w] = {}]
  /\ UNCHANGED <<file_id, sha, dir, files>>

Effect(w) ==
  \/ EnsureDir(w) \/ GetUrl(w) \/ GetSha(w) \/ CreateSession(w)
  \/ Put(w) \/ Create(w) \/ Upload(w) \/ UploadChunk(w)

RequestOk(w) ==
  /\ todo[w] # <<>>
  /\ Effect(w)
  /\ todo' = [todo EXCEPT ![w] = Tail(@)]
  /\ inner' = IF Len(todo[w]) = 1 THEN [inner EXCEPT ![w] = "closed"] ELSE inner
  /\ UNCHANGED <<service, buffer, given, closes>>

RequestErrMutant(w) ==     \* the buffer has been taken out, not cloned
  /\ todo[w] # <<>>
  /\ todo' = [todo EXCEPT ![w] = <<>>]
  /\ buffer' = [buffer EXCEPT ![w] = Empty]
  /\ UNCHANGED <<service, inner, file_id, sha, received, given, closes, dir, files>>

RequestErr(w) ==
  /\ todo[w] # <<>>
  /\ Effect(w) \/ UNCHANGED <<file_id, sha, received, dir, files>>
  /\ todo' = [todo EXCEPT ![w] = <<>>]
  /\ UNCHANGED <<service, buffer, inner, given, closes>>

Next == \E w \in Writers : Open(w) \/ Write(w) \/ Close(w) \/ Abort(w)
                            \/ RequestOk(w) \/ RequestErr(w)

Spec == Init /\ [][Next]_vars

-----------------------------------------------------------------------------
(* When close returns Ok the path holds what this writer was given.         *)
ClosedIsWritten ==
  \A w \in Writers : inner[w] # "closed" /\ inner'[w] = "closed"
    => given[w] \in Range(files')

(* A reader of the path finds the old content or what a writer had been     *)
(* given when it called close, never anything between, however requests     *)
(* and writers interleave: "Implementations should make sure that the data  *)
(* is written correctly at once."                                           *)
OldOrNew ==
  Range(files) \subseteq {Old} \cup closes

(* "As Google Drive allows files have the same name, we need to check if    *)
(* the file exists.  If the file exists, we will keep its ID and update     *)
(* it."                                                                     *)
OneFilePerPath == Len(files) <= 1
=============================================================================
