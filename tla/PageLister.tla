----------------------------- MODULE PageLister -----------------------------
(***************************************************************************)
(* PageLister of core/src/raw/oio/list/page_list.rs over the next_page of   *)
(* every service that implements PageList, under a RetryLayer that repeats  *)
(* next after a temporary error.                                            *)
(*                                                                          *)
(* The entries of the directory are 1..total in the order of the service,   *)
(* and Self stands for the entry of the directory.  A token is how many     *)
(* entries the pages before it had; the empty token is 0.                   *)
(***************************************************************************)
EXTENDS Naturals, Sequences, SequencesExt

CONSTANTS
  Services,      \* the services to check
  MaxTotal,      \* bound: entries of the directory
  PageSize,      \* bound: entries of a page
  MaxFailures,   \* bound: requests that fail
  MaxOut         \* bound: entries returned, for the lists that do not end

PageAssumption ==
  {MaxTotal, MaxFailures, MaxOut} \subseteq Nat /\ PageSize \in Nat \ {0}

Self == 0

VARIABLES
  service,
  exists, total,           \* the directory
  done, token, entries,    \* PageContext
  status,                  \* of the list: "listing", "end", "error"
  failures,
  out                      \* history: the entries returned

ctx == <<done, token, entries>>
vars == <<service, exists, total, ctx, status, failures, out>>

Init ==
  /\ service \in Services
  /\ exists \in BOOLEAN
  /\ total \in 0..MaxTotal
  /\ exists \/ total = 0
  /\ done = FALSE
  /\ token = 0
  /\ entries = <<>>
  /\ status = "listing"
  /\ failures = 0
  /\ out = <<>>

-----------------------------------------------------------------------------
(* An answer: a page that starts after the first `from` entries, whether    *)
(* there may be more, and where they start.  A page is empty only at the    *)
(* end, and a full last page may say that there is more.                    *)
Answers(from, size) ==
  {[keys |-> [k \in 1..n |-> from + k], more |-> b, next |-> from + n] :
     n \in 0..size, b \in BOOLEAN}

Answer(r, from, size) ==
  /\ r \in Answers(from, size)
  /\ r.next <= total
  /\ r.keys = <<>> => from = total
  /\ r.next < total => r.more
  /\ r.more => r.next < total \/ Len(r.keys) = PageSize

(* What a service is asked for.  vercel_blob does not send the token.       *)
VercelBlobFrom == 0
FromMutant == 0                  \* no service sends it
From == IF service = "vercel_blob" THEN VercelBlobFrom ELSE token

WithSelf(r) == (IF token = 0 THEN <<Self>> ELSE <<>>) \o r.keys

(* done and token from a token that is empty at the end, ...                *)
TokenOrEmpty(r) == done' = ~r.more /\ token' = IF r.more THEN r.next ELSE 0
(* ... or absent.                                                           *)
TokenIfAny(r) ==
  /\ done' = (done \/ ~r.more)
  /\ token' = IF r.more THEN r.next ELSE token

S3NextPage(r) == TokenOrEmpty(r) /\ entries' = r.keys
(* Neither is_truncated nor next_continuation_token.                        *)
S3BareNextPage(r) == done' = (r.keys = <<>>) /\ token' = 0 /\ entries' = r.keys
S3VersionsNextPage(r) == done' = ~r.more /\ token' = r.next /\ entries' = r.keys
OssNextPage(r) == TokenOrEmpty(r) /\ entries' = r.keys
OssVersionsNextPage(r) == S3VersionsNextPage(r)
CosNextPage(r) == TokenOrEmpty(r) /\ entries' = r.keys
CosVersionsNextPage(r) == S3VersionsNextPage(r)
ObsNextPage(r) == TokenOrEmpty(r) /\ entries' = r.keys
GcsNextPage(r) == TokenIfAny(r) /\ entries' = r.keys
AzblobNextPage(r) == TokenOrEmpty(r) /\ entries' = r.keys
AzdlsNextPage(r) == TokenOrEmpty(r) /\ entries' = WithSelf(r)
AzfileNextPage(r) == TokenIfAny(r) /\ entries' = WithSelf(r)
B2NextPage(r) == TokenIfAny(r) /\ entries' = r.keys
GdriveNextPage(r) == TokenIfAny(r) /\ entries' = WithSelf(r)
OnedriveNextPage(r) == TokenIfAny(r) /\ entries' = r.keys
AliyunDriveNextPage(r) == TokenIfAny(r) /\ entries' = WithSelf(r)
UpyunNextPage(r) == done' = ~r.more /\ token' = r.next /\ entries' = r.keys
VercelBlobNextPage(r) == done' = ~r.more /\ token' = r.next /\ entries' = r.keys
LakefsNextPage(r) == done' = TRUE /\ token' = token /\ entries' = r.keys

(* The last entry is the token; the list ends with an empty page.           *)
SwiftNextPageMutant(r) == done' = done /\ token' = r.next /\ entries' = r.keys
SwiftNextPage(r) ==
  /\ done' = (done \/ r.keys = <<>>)
  /\ token' = r.next
  /\ entries' = r.keys

(* An offset, compared with the total of the answer.                        *)
YandexDiskNextPage(r) ==
  /\ token' = token + Len(r.keys)
  /\ done' = (token + Len(r.keys) >= total)
  /\ entries' = r.keys

DropboxNextPage(r) ==
  /\ done' = ~r.more
  /\ token' = IF r.more THEN r.next ELSE token
  /\ entries' = r.keys

(* The entry of the directory comes with the last page.                     *)
WebhdfsNextPage(r) ==
  /\ done' = (r.next = total)
  /\ token' = IF r.next = total THEN token ELSE r.next
  /\ entries' = (IF r.next = total THEN <<Self>> ELSE <<>>) \o r.keys

(* The services whose answer is the whole directory.                        *)
OnePage(r) == done' = TRUE /\ token' = token /\ entries' = r.keys
AlluxioNextPage(r) == OnePage(r)
ChainsafeNextPage(r) == OnePage(r)
KoofrNextPage(r) == OnePage(r)
HuggingfaceNextPage(r) == OnePage(r)
PcloudNextPage(r) == OnePage(r)
DbfsNextPage(r) == OnePage(r)
WebdavNextPage(r) == OnePage(r)
GithubNextPage(r) == OnePage(r)
IpmfsNextPage(r) == OnePage(r)
IpfsNextPage(r) == OnePage(r)
SeafileNextPage(r) == done' = TRUE /\ token' = token /\ entries' = <<Self>> \o r.keys

Paged(r) ==
  \/ service = "s3" /\ S3NextPage(r)
  \/ service = "s3_bare" /\ S3BareNextPage(r)
  \/ service = "s3_versions" /\ S3VersionsNextPage(r)
  \/ service = "oss" /\ OssNextPage(r)
  \/ service = "oss_versions" /\ OssVersionsNextPage(r)
  \/ service = "cos" /\ CosNextPage(r)
  \/ service = "cos_versions" /\ CosVersionsNextPage(r)
  \/ service = "obs" /\ ObsNextPage(r)
  \/ service = "gcs" /\ GcsNextPage(r)
  \/ service = "azblob" /\ AzblobNextPage(r)
  \/ service = "azdls" /\ AzdlsNextPage(r)
  \/ service = "azfile" /\ AzfileNextPage(r)
  \/ service = "b2" /\ B2NextPage(r)
  \/ service = "gdrive" /\ GdriveNextPage(r)
  \/ service = "onedrive" /\ OnedriveNextPage(r)
  \/ service = "aliyun_drive" /\ AliyunDriveNextPage(r)
  \/ service = "upyun" /\ UpyunNextPage(r)
  \/ service = "vercel_blob" /\ VercelBlobNextPage(r)
  \/ service = "lakefs" /\ LakefsNextPage(r)
  \/ service = "swift" /\ SwiftNextPage(r)
  \/ service = "yandex_disk" /\ YandexDiskNextPage(r)
  \/ service = "dropbox" /\ DropboxNextPage(r)
  \/ service = "webhdfs" /\ WebhdfsNextPage(r)

Whole(r) ==
  \/ service = "alluxio" /\ AlluxioNextPage(r)
  \/ service = "chainsafe" /\ ChainsafeNextPage(r)
  \/ service = "koofr" /\ KoofrNextPage(r)
  \/ service = "huggingface" /\ HuggingfaceNextPage(r)
  \/ service = "pcloud" /\ PcloudNextPage(r)
  \/ service = "dbfs" /\ DbfsNextPage(r)
  \/ service = "webdav" /\ WebdavNextPage(r)
  \/ service = "github" /\ GithubNextPage(r)
  \/ service = "ipmfs" /\ IpmfsNextPage(r)
  \/ service = "ipfs" /\ IpfsNextPage(r)
  \/ service = "seafile" /\ SeafileNextPage(r)

-----------------------------------------------------------------------------
(* next() *)

PopEntry ==
  /\ status = "listing"
  /\ entries # <<>>
  /\ Len(out) < MaxOut
  /\ out' = Append(out, Head(entries))
  /\ entries' = Tail(entries)
  /\ UNCHANGED <<service, exists, total, done, token, status, failures>>

EndListMutant ==                \* a page without entries ends the list
  /\ status = "listing"
  /\ entries = <<>>
  /\ status' = "end"
  /\ UNCHANGED <<service, exists, total, ctx, failures, out>>

EndList ==
  /\ status = "listing"
  /\ entries = <<>>
  /\ done
  /\ status' = "end"
  /\ UNCHANGED <<service, exists, total, ctx, failures, out>>

CallsNextPage == status = "listing" /\ entries = <<>> /\ ~done

NextPageOk ==
  /\ CallsNextPage
  /\ exists
  /\ \/ \E r \in Answers(From, PageSize) : Answer(r, From, PageSize) /\ Paged(r)
     \/ Whole([keys |-> [k \in 1..total |-> k], more |-> FALSE, next |-> total])
  /\ UNCHANGED <<service, exists, total, status, failures, out>>

(* NOT_FOUND ends the list of most services that have directories; in the   *)
(* object stores it is empty.                                               *)
NotFoundIsEmpty == service \notin {"chainsafe", "ipmfs", "ipfs", "huggingface"}

NextPageNotFound ==
  /\ CallsNextPage
  /\ ~exists
  /\ done' = NotFoundIsEmpty
  /\ status' = IF NotFoundIsEmpty THEN status ELSE "error"
  /\ UNCHANGED <<service, exists, total, token, entries, failures, out>>

(* What a failed next_page leaves in the context: aliyun_drive adds the     *)
(* directory before it sends the request, ipfs asks for the metadata of one *)
(* entry after the other, dropbox sets done if there is an answer, and      *)
(* github sets it before the second request, for the tree below the         *)
(* directory.                                                               *)
DropboxErr == done' \in BOOLEAN /\ UNCHANGED <<token, entries>>
GithubErr ==
  /\ done' \in BOOLEAN
  /\ done' => exists /\ total > 0
  /\ UNCHANGED <<token, entries>>
AliyunDriveErr ==
  /\ entries' = (IF token = 0 THEN <<Self>> ELSE <<>>)
  /\ UNCHANGED <<done, token>>
IpfsErr ==
  /\ \E n \in 0..total : entries' = [k \in 1..n |-> k]
  /\ UNCHANGED <<done, token>>

NextPageErr ==
  /\ CallsNextPage
  /\ failures < MaxFailures
  /\ failures' = failures + 1
  /\ \/ service = "dropbox" /\ DropboxErr
     \/ service = "github" /\ GithubErr
     \/ service = "aliyun_drive" /\ AliyunDriveErr
     \/ service = "ipfs" /\ IpfsErr
     \/ service \notin {"dropbox", "github", "aliyun_drive", "ipfs"} /\ UNCHANGED ctx
  /\ status' \in {"listing", "error"}   \* repeated by RetryLayer, or not temporary
  /\ UNCHANGED <<service, exists, total, out>>

Next == PopEntry \/ EndList \/ NextPageOk \/ NextPageNotFound \/ NextPageErr

Spec == Init /\ [][Next]_vars /\ WF_vars(Next)

-----------------------------------------------------------------------------
(* No entry is returned twice, whatever page it was on and whatever request *)
(* was repeated.                                                            *)
EachEntryOnce == IsInjective(out)

(* "`Ok(None)` means all pages have been returned": a list that has ended   *)
(* has returned every entry of the directory, although requests failed.     *)
EndsComplete == status = "end" => 1..total \subseteq Range(out)

(* The list goes on.  It ends: it does not go round in the pages.           *)
Listing == status = "listing"
=============================================================================
