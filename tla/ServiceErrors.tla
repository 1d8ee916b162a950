---------------------------- MODULE ServiceErrors ----------------------------
(***************************************************************************)
(* One operation against a service that fails for a while: HttpClient and  *)
(* HttpBody, the parse_error function of the service, and RetryLayer.  The *)
(* server answers with a status and, where the service looks into the body *)
(* of an error, a code ("-" stands for a body without one).  The options a *)
(* service declares come from ServiceRequests.                             *)
(***************************************************************************)
EXTENDS ServiceRequests, TLC

CONSTANTS
    Names,       \* the services
    Throttled,   \* those among them that repeat a request after a 429
    MaxRetries,  \* RetryLayer: how often the request is sent again
    MaxOutages   \* bound on the answers the failing server or network spoils

ServiceErrorsAssumption == MaxRetries \in Nat /\ MaxOutages \in Nat

-----------------------------------------------------------------------------
(* parse_error of the services: the statuses of each kind of error, the      *)
(* statuses that are temporary, and the codes that overrule the status.      *)
ServerErrors == {500, 502, 503, 504}
Verdict(kind, temporary) == [kind |-> kind, temporary |-> temporary]
NoCodes == [c \in {} |-> Verdict("Unexpected", FALSE)]

Parse(notFound, denied, condition, retry) ==
    [NotFound |-> notFound, PermissionDenied |-> denied, ConditionNotMatch |-> condition,
     AlreadyExists |-> {}, RateLimited |-> {}, temporary |-> retry, codes |-> NoCodes]
Limited(p, statuses) ==
    [p EXCEPT !.RateLimited = statuses, !.temporary = @ \cup statuses]
WithCodes(p, codes) == [p EXCEPT !.codes = codes]

azblob_parse_error == Parse({404}, {403}, {412, 304, 409}, ServerErrors)
azdls_parse_error  == Parse({404}, {403}, {412, 409}, ServerErrors)
azfile_parse_error == Parse({404}, {403}, {412, 304}, ServerErrors)
parse_b2_error_code == "already_hidden" :> Verdict("AlreadyExists", FALSE)
                         @@ "no_such_file" :> Verdict("NotFound", FALSE)
b2_parse_error == WithCodes(Limited(Parse({404}, {401, 403}, {304, 412},
                                          ServerErrors \cup {401}), {429}), parse_b2_error_code)
chainsafe_parse_error ==
    Limited(Parse({404}, {401, 403}, {304, 412}, ServerErrors \cup {499}), {423})
cos_parse_error == Parse({404}, {403}, {412, 304, 409}, ServerErrors \cup {520})
dbfs_parse_error == Parse({404}, {401, 403}, {412}, ServerErrors)
parse_dropbox_error_summary ==
    "path/not_found" :> Verdict("NotFound", FALSE)
      @@ "path/conflict" :> Verdict("AlreadyExists", FALSE)
      @@ "too_many_write_operations" :> Verdict("RateLimited", TRUE)
dropbox_parse_error ==
    WithCodes(Limited(Parse({404}, {403}, {}, ServerErrors), {429}), parse_dropbox_error_summary)
gcs_parse_errorMutant == Limited(Parse({404}, {403}, {412, 304}, ServerErrors \cup {404}), {429})
gcs_parse_error == Limited(Parse({404}, {403}, {412, 304}, ServerErrors), {429})
parse_gdrive_error_code == "User rate limit exceeded." :> Verdict("RateLimited", TRUE)
gdrive_parse_error ==
    WithCodes(Parse({404}, {403}, {}, ServerErrors \cup {405}), parse_gdrive_error_code)
ghac_parse_error == Limited([Parse({404, 204}, {403}, {}, ServerErrors)
                                EXCEPT !.AlreadyExists = {409}], {429})
github_parse_error ==
    Limited(Parse({404}, {401, 403}, {304, 412}, ServerErrors \cup {499}), {423})
http_parse_error == Parse({404}, {403}, {412, 304}, ServerErrors)
huggingface_parse_error == Parse({404}, {401, 403}, {412}, ServerErrors)
ipfs_parse_error == Parse({404}, {403}, {}, ServerErrors \cup {408})
koofr_parse_error == Parse({404}, {403}, {304, 412}, ServerErrors \cup {499})
lakefs_parse_error == Parse({404}, {401, 403}, {412}, ServerErrors)
obs_parse_error == Parse({404}, {403}, {412, 304}, ServerErrors \cup {520})
onedrive_parse_error == Parse({404}, {403}, {}, ServerErrors)
oss_parse_error == Parse({404}, {403}, {412, 304, 409}, ServerErrors)
parse_s3_error_code ==
    "NoSuchBucket" :> Verdict("ConfigInvalid", FALSE)
      @@ "RequestTimeout" :> Verdict("Unexpected", TRUE)
      @@ "InternalError" :> Verdict("Unexpected", TRUE)
      @@ "OperationAborted" :> Verdict("Unexpected", TRUE)
      @@ "SlowDown" :> Verdict("RateLimited", TRUE)
      @@ "ServiceUnavailable" :> Verdict("Unexpected", TRUE)
s3_parse_error ==
    WithCodes(Parse({404}, {403}, {304, 412}, ServerErrors \cup {499}), parse_s3_error_code)
parse_supabase_error ==
    "409" :> Verdict("AlreadyExists", FALSE) @@ "404" :> Verdict("NotFound", FALSE)
      @@ "403" :> Verdict("PermissionDenied", FALSE) @@ "412" :> Verdict("ConditionNotMatch", FALSE)
      @@ "304" :> Verdict("ConditionNotMatch", FALSE) @@ "500" :> Verdict("Unexpected", TRUE)
supabase_parse_error == WithCodes(Parse({}, {}, {}, ServerErrors), parse_supabase_error)
swift_parse_error == Parse({404}, {401, 403}, {412}, ServerErrors)
upyun_parse_error == Parse({404}, {403}, {304, 412}, ServerErrors \cup {499})
vercel_artifacts_parse_error == Parse({404}, {403}, {}, ServerErrors)
vercel_blob_parse_error == Parse({404}, {403}, {}, ServerErrors)
webdav_parse_error == Parse({404}, {403}, {}, ServerErrors \cup {403, 423})
webhdfs_parse_error_msg == Parse({404}, {401, 403}, {}, ServerErrors)
parse_cfkv_error_code ==
    "7400" :> Verdict("Unexpected", FALSE) @@ "7500" :> Verdict("NotFound", FALSE)
      @@ "10000" :> Verdict("PermissionDenied", FALSE)
cloudflare_kv_parse_error ==
    WithCodes(Parse({404}, {403}, {}, ServerErrors \cup {403, 423}), parse_cfkv_error_code)
parse_d1_error_code ==
    "7400" :> Verdict("Unexpected", FALSE) @@ "7500" :> Verdict("NotFound", FALSE)
      @@ "10000" :> Verdict("PermissionDenied", FALSE)
d1_parse_error ==
    WithCodes(Parse({404}, {403}, {}, ServerErrors \cup {403, 423}), parse_d1_error_code)
libsql_parse_error == Parse({404}, {403}, {412, 304}, ServerErrors)
\* These call few or none of the server's errors temporary.
aliyun_drive_parse_error ==
    WithCodes([Parse({}, {403}, {}, {}) EXCEPT !.AlreadyExists = {409}],
        "NotFound.File" :> Verdict("NotFound", FALSE)
          @@ "AlreadyExist.File" :> Verdict("AlreadyExists", FALSE)
          @@ "PreHashMatched" :> Verdict("IsSameFile", FALSE)
          @@ "TooManyRequests" :> Verdict("RateLimited", TRUE))
alluxio_parse_error ==
    WithCodes(Parse({}, {}, {}, {}), "NOT_FOUND" :> Verdict("NotFound", FALSE)
                                       @@ "ALREADY_EXISTS" :> Verdict("AlreadyExists", FALSE))
ipmfs_parse_error == WithCodes(Parse({}, {}, {}, {502, 503, 504}),
                               "file does not exist" :> Verdict("NotFound", FALSE))
pcloud_parse_error == Parse({}, {}, {}, {})
seafile_parse_error == Parse({404}, {403}, {}, {})
yandex_disk_parse_error ==
    Limited(Parse({404}, {410, 403}, {}, {499, 503, 507}), {423})
\* Not spoken to by HTTP: the codes are the kinds of their own errors.
parse_sftp_error == WithCodes(Parse({}, {}, {}, {}),
    "NoSuchFile" :> Verdict("NotFound", FALSE) @@ "PermDenied" :> Verdict("PermissionDenied", FALSE)
      @@ "OpUnsupported" :> Verdict("Unsupported", FALSE) @@ "Other" :> Verdict("Unexpected", TRUE))
parse_hdfs_error == WithCodes(Parse({}, {}, {}, {}),
    "FileNotFound" :> Verdict("NotFound", FALSE) @@ "BlocksNotFound" :> Verdict("NotFound", FALSE)
      @@ "AlreadyExists" :> Verdict("AlreadyExists", FALSE)
      @@ "IsADirectoryError" :> Verdict("IsADirectory", FALSE)
      @@ "Other" :> Verdict("Unexpected", FALSE))
new_std_io_error == WithCodes(Parse({}, {}, {}, {}),
    "NotFound" :> Verdict("NotFound", FALSE)
      @@ "PermissionDenied" :> Verdict("PermissionDenied", FALSE)
      @@ "AlreadyExists" :> Verdict("AlreadyExists", FALSE)
      @@ "Unsupported" :> Verdict("Unsupported", FALSE)
      @@ "Other" :> Verdict("Unexpected", TRUE))

Parsers == [azblob |-> azblob_parse_error, azdls |-> azdls_parse_error,
    azfile |-> azfile_parse_error, b2 |-> b2_parse_error, chainsafe |-> chainsafe_parse_error,
    cos |-> cos_parse_error, dbfs |-> dbfs_parse_error, dropbox |-> dropbox_parse_error,
    gcs |-> gcs_parse_error, gdrive |-> gdrive_parse_error, ghac |-> ghac_parse_error,
    github |-> github_parse_error, http |-> http_parse_error,
    huggingface |-> huggingface_parse_error, ipfs |-> ipfs_parse_error,
    koofr |-> koofr_parse_error, lakefs |-> lakefs_parse_error, obs |-> obs_parse_error,
    onedrive |-> onedrive_parse_error, oss |-> oss_parse_error, s3 |-> s3_parse_error,
    supabase |-> supabase_parse_error, swift |-> swift_parse_error, upyun |-> upyun_parse_error,
    vercel_artifacts |-> vercel_artifacts_parse_error, vercel_blob |-> vercel_blob_parse_error,
    webdav |-> webdav_parse_error, webhdfs |-> webhdfs_parse_error_msg,
    cloudflare_kv |-> cloudflare_kv_parse_error, d1 |-> d1_parse_error,
    libsql |-> libsql_parse_error, aliyun_drive |-> aliyun_drive_parse_error,
    alluxio |-> alluxio_parse_error, ipmfs |-> ipmfs_parse_error, pcloud |-> pcloud_parse_error,
    seafile |-> seafile_parse_error, yandex_disk |-> yandex_disk_parse_error,
    sftp |-> parse_sftp_error, hdfs_native |-> parse_hdfs_error, fs |-> new_std_io_error]

StatusKinds == {"NotFound", "PermissionDenied", "ConditionNotMatch", "AlreadyExists", "RateLimited"}
ParseError(s, answer) ==
    LET p == Parsers[s]
        kinds == {k \in StatusKinds : answer.status \in p[k]}
    IN IF answer.code \in DOMAIN p.codes THEN p.codes[answer.code]
       ELSE Verdict(IF kinds = {} THEN "Unexpected" ELSE CHOOSE k \in kinds : TRUE,
                    answer.status \in p.temporary)
-----------------------------------------------------------------------------
VARIABLES
    service,    \* the service
    op,         \* "stat", "read" or "write"
    condition,  \* the condition the caller sets, or "none"
    truth,      \* what is so at the server: "ok", "missing", "unmet" or "denied"
    retries,    \* repetitions left
    spoilt,     \* answers spoilt so far
    sent,       \* requests sent
    result,     \* "none", "Ok", "Truncated" or the kind of the error
    limited     \* history: the server has answered 429, Too Many Requests

vars == <<service, op, condition, truth, retries, spoilt, sent, result, limited>>

NotHttp == {"sftp", "hdfs_native", "fs"}
Conditions == Matches \cup Since \cup {"if_not_exists"}
Declared(s, o) == IF s \in DOMAIN AllServices THEN AllServices[s].info[{}][o] \cap Conditions ELSE {}

\* What the servers answer, as far as the services rely on it.
Http(status) == [status |-> status, code |-> "-"]
Coded(status, code) == [status |-> status, code |-> code]
Missing(s) == CASE s = "aliyun_drive" -> Coded(400, "NotFound.File")
                [] s = "alluxio" -> Coded(500, "NOT_FOUND")
                [] s = "dropbox" -> Coded(409, "path/not_found")
                [] s = "ipmfs" -> Coded(500, "file does not exist")
                [] s = "supabase" -> Coded(400, "404")
                [] s = "ghac" -> Http(204)
                [] s = "sftp" -> Coded(0, "NoSuchFile")
                [] s = "hdfs_native" -> Coded(0, "FileNotFound")
                [] s = "fs" -> Coded(0, "NotFound")
                [] OTHER -> Http(404)
Denied(s) == CASE s = "supabase" -> Coded(400, "403")
               [] s = "sftp" -> Coded(0, "PermDenied")
               [] s = "fs" -> Coded(0, "PermissionDenied")
               [] OTHER -> Http(403)
Unmet(s) == CASE condition \in {"if_match", "if_unmodified_since"} -> Http(412)
              [] op # "write" -> Http(304)
              [] s \in {"azblob", "azdls", "oss", "cos"} -> Http(409)
              [] OTHER -> Http(412)
\* Every server may limit the rate of requests with a 429, whether parse_error
\* of the service knows it or not; some do it in their own way.
RateLimits(s) == {Http(429)} \cup {Http(status) : status \in Parsers[s].RateLimited}
                   \cup (CASE s = "gdrive" -> {Coded(403, "User rate limit exceeded.")}
                           [] s = "s3" -> {Coded(503, "SlowDown")}
                           [] s = "aliyun_drive" -> {Coded(429, "TooManyRequests")}
                           [] OTHER -> {})
Outages(s) == IF s \in NotHttp THEN {Coded(0, "Other")}
              ELSE {Http(status) : status \in ServerErrors} \cup RateLimits(s)

Truth == CASE truth = "ok" -> "Ok"  [] truth = "missing" -> "NotFound"
           [] truth = "unmet" -> "ConditionNotMatch"  [] truth = "denied" -> "PermissionDenied"

Init ==
    /\ service \in Names
    /\ op \in {"stat", "read", "write"}
    /\ condition \in {"none"} \cup Declared(service, op)
    /\ truth \in {"ok", "denied"} \cup (IF op = "write" \/ service = "pcloud" THEN {} ELSE {"missing"})
                                  \cup (IF condition = "none" THEN {} ELSE {"unmet"})
    /\ retries = MaxRetries
    /\ spoilt = 0
    /\ sent = 0
    /\ result = "none"
    /\ limited = FALSE

\* RetryLayer: a temporary error sends the request again.
Conclude(kind, temporary) ==
    IF temporary /\ retries > 0
    THEN retries' = retries - 1 /\ UNCHANGED result
    ELSE result' = kind /\ UNCHANGED retries
Fail(answer) == Conclude(ParseError(service, answer).kind, ParseError(service, answer).temporary)

Sends == /\ result = "none"
         /\ sent' = sent + 1
         /\ UNCHANGED <<service, op, condition, truth>>

\* The server answers.
Answered ==
    /\ Sends
    /\ CASE truth = "ok"      -> Conclude("Ok", FALSE)
         [] truth = "missing" -> Fail(Missing(service))
         [] truth = "unmet"   -> Fail(Unmet(service))
         [] truth = "denied"  -> Fail(Denied(service))
    /\ UNCHANGED <<spoilt, limited>>

Spoils == Sends /\ spoilt < MaxOutages /\ spoilt' = spoilt + 1

\* The server is overloaded or out of order.
Outage ==
    /\ Spoils
    /\ \E answer \in Outages(service) :
         Fail(answer) /\ limited' = (limited \/ answer.status = 429)

is_temporary_errorMutant(err) == err = "request"
is_temporary_error(err) == err \in {"request", "body", "decode"}
\* The request, or the response in the middle of its body, is lost on the
\* network: HttpClient::fetch, and the stream of the body it returns.
NetworkError ==
    /\ Spoils
    /\ service \notin NotHttp
    /\ \E err \in {"request", "body", "decode"} :
          Conclude("Unexpected", is_temporary_error(err))
    /\ UNCHANGED limited

\* HttpBody::check at the end of the stream: the body is shorter than its
\* content length.  Nothing notices that where the response states no length
\* or is encoded; such responses are not considered.
HttpBodyCheckMutant(actual, expect) == actual <= expect
HttpBodyCheck(actual, expect) == actual = expect
BodyCut ==
    /\ Spoils
    /\ service \notin NotHttp /\ op = "read" /\ truth = "ok"
    /\ \E actual, expect \in 0..2 :
         /\ actual < expect
         /\ IF HttpBodyCheck(actual, expect) THEN Conclude("Truncated", FALSE)
                                             ELSE Conclude("Unexpected", TRUE)
    /\ UNCHANGED limited

Next == Answered \/ Outage \/ NetworkError \/ BodyCut

Spec == Init /\ [][Next]_vars
-----------------------------------------------------------------------------
\* While no more answers are spoilt than RetryLayer repeats requests, the
\* operation ends in what is true at the server: success, NotFound,
\* PermissionDenied, or ConditionNotMatch for every condition the service
\* declares.  After a 429 this holds of the Throttled services only.
OutageIsSurvived ==
    spoilt <= MaxRetries /\ (limited => service \in Throttled) => result \in {"none", Truth}

\* "For example, underlying services is rate limited or unavailable for
\* temporary": a 429 is a temporary error of every service.
RateLimitIsSurvived == limited /\ spoilt <= MaxRetries => result \in {"none", Truth}

\* However long the outage, what the caller is told about the object is true:
\* a failing server is never taken for a missing object, an unmet condition or
\* a success, and a body that was cut is not delivered as whole.
NoFalseVerdict ==
    result \in {"Ok", "Truncated", "NotFound", "ConditionNotMatch", "AlreadyExists",
                "PermissionDenied"} => result = Truth

\* Errors that will not change are not asked for again: one request for each
\* spoilt answer and one for the true one.
PermanentIsNotRetried == sent <= spoilt + 1
=============================================================================
