-------------------------- MODULE ServiceBuilders ---------------------------
(***************************************************************************)
(* From options to an operator: the setters of a builder and build, the    *)
(* same options in a map (Operator::from_iter), and the same map with the  *)
(* name of the scheme (Operator::via_iter).  The environment sets nothing, *)
(* and databases, directories and HTTP clients that build opens do open.   *)
(*                                                                         *)
(* A value is one of a few classes: "" (empty), "v" (acceptable), "v/" (the*)
(* same with a trailing slash), "nohost" (an URI that has only a path) and *)
(* "bad" (not parseable where the option is parsed, any other string where *)
(* it is not).  Numbers and durations are "0" and "n".  An Option that is  *)
(* None is "unset".                                                        *)
(***************************************************************************)
EXTENDS ServiceDeclarations

CONSTANTS
    Services,    \* the services to build, of DOMAIN Configs
    Values,      \* the classes of strings that options are given
    Numbers,     \* the classes of numbers
    LeftAlone,   \* options that the caller does not set
    MaxCalls     \* bound on the setters called beside those of the needed options

-----------------------------------------------------------------------------
\* The setters of the builders: option -> rule, see Setter.  Setters that take an
\* object and not an option of the struct are left out.
aliyun_drive_setters ==
    Each({"root"}, "or_none")
    @@ Each({"access_token", "client_id", "client_secret", "refresh_token"}, "some")
    @@ Each({"drive_type"}, "assign")
alluxio_setters ==
    Each({"root"}, "or_none")
    @@ Each({"endpoint"}, "keep_trim")
atomicserver_setters ==
    Each({"root", "endpoint", "private_key", "public_key", "parent_resource_id"}, "some")
azblob_setters ==
    Each({"root"}, "or_none")
    @@ Each({"container"}, "assign")
    @@ Each({"endpoint"}, "keep_trim")
    @@ Each({"account_name", "account_key", "encryption_key", "encryption_key_sha256",
            "encryption_algorithm", "sas_token"}, "keep")
    @@ Each({"batch_max_operations"}, "some")
azdls_setters ==
    Each({"root"}, "or_none")
    @@ Each({"filesystem"}, "assign")
    @@ Each({"endpoint"}, "keep_trim")
    @@ Each({"account_name", "account_key"}, "keep")
azfile_setters ==
    Each({"root"}, "or_none")
    @@ Each({"endpoint"}, "keep_trim")
    @@ Each({"account_name", "account_key"}, "keep")
    @@ Each({"share_name"}, "keep_string")
b2_setters ==
    Each({"root", "application_key_id", "application_key"}, "or_none")
    @@ Each({"bucket", "bucket_id"}, "assign")
cacache_setters == Each({"datadir"}, "some")
chainsafe_setters ==
    Each({"root", "api_key"}, "or_none")
    @@ Each({"bucket_id"}, "assign")
cloudflare_kv_setters ==
    Each({"token", "account_id", "namespace_id"}, "keep")
    @@ Each({"root"}, "or_none")
compfs_setters == Each({"root"}, "or_none")
cos_setters ==
    Each({"root"}, "or_none")
    @@ Each({"endpoint"}, "keep_trim")
    @@ Each({"secret_id", "secret_key", "bucket"}, "keep")
    @@ Each({"enable_versioning"}, "assign")
    @@ Each({"disable_config_load"}, "flag")
d1_setters ==
    Each({"token", "account_id", "database_id", "table", "key_field", "value_field"},
            "keep")
    @@ Each({"root"}, "or_none")
dashmap_setters == Each({"root"}, "or_none")
dbfs_setters ==
    Each({"root"}, "or_none")
    @@ Each({"endpoint"}, "or_none_trim")
    @@ Each({"token"}, "keep")
dropbox_setters ==
    Each({"root"}, "or_none")
    @@ Each({"access_token", "refresh_token", "client_id", "client_secret"}, "some")
etcd_setters ==
    Each({"endpoints", "username", "password", "ca_path", "cert_path", "key_path"}, "keep")
    @@ Each({"root"}, "or_none")
foundationdb_setters == Each({"root", "config_path"}, "some")
fs_setters ==
    Each({"root"}, "or_none")
    @@ Each({"atomic_write_dir"}, "keep")
ftp_setters == Each({"endpoint", "root", "user", "password"}, "or_none")
gcs_setters ==
    Each({"root"}, "or_none")
    @@ Each({"bucket"}, "assign")
    @@ Each({"disable_vm_metadata", "disable_config_load", "allow_anonymous"}, "flag")
    @@ Each({"scope", "service_account", "endpoint", "credential", "credential_path",
            "predefined_acl", "default_storage_class"}, "keep")
    @@ Each({"token"}, "some")
gdrive_setters ==
    Each({"root"}, "or_none")
    @@ Each({"access_token", "refresh_token", "client_id", "client_secret"}, "some")
ghac_setters ==
    Each({"root"}, "or_none")
    @@ Each({"version", "endpoint", "runtime_token"}, "keep")
github_setters ==
    Each({"root"}, "or_none")
    @@ Each({"token"}, "keep")
    @@ Each({"owner", "repo"}, "assign")
gridfs_setters ==
    Each({"connection_string", "database", "bucket"}, "keep")
    @@ Each({"root"}, "or_none")
    @@ Each({"chunk_size"}, "non_zero")
hdfs_setters ==
    Each({"root", "atomic_write_dir"}, "or_none")
    @@ Each({"name_node"}, "keep_trim")
    @@ Each({"kerberos_ticket_cache_path", "user"}, "keep")
    @@ Each({"enable_append"}, "assign")
hdfs_native_setters ==
    Each({"root"}, "or_none")
    @@ Each({"url"}, "keep_trim")
    @@ Each({"enable_append"}, "assign")
http_setters ==
    Each({"endpoint", "root"}, "or_none")
    @@ Each({"username", "password", "token"}, "keep")
huggingface_setters ==
    Each({"repo_type", "repo_id", "revision", "token"}, "keep")
    @@ Each({"root"}, "or_none")
icloud_setters ==
    Each({"root", "apple_id", "password", "trust_token", "ds_web_auth_token"}, "or_none")
    @@ Each({"is_china_mainland"}, "assign")
ipfs_setters ==
    Each({"root"}, "or_none")
    @@ Each({"endpoint"}, "keep_trim")
ipmfs_setters == Each({"root", "endpoint"}, "or_none")
koofr_setters ==
    Each({"root", "password"}, "or_none")
    @@ Each({"endpoint", "email"}, "assign")
lakefs_setters == Each({"endpoint", "username", "password", "branch", "root", "repository"}, "keep")
libsql_setters ==
    Each({"connection_string", "auth_token", "table", "key_field", "value_field"}, "keep")
    @@ Each({"root"}, "or_none")
memcached_setters ==
    Each({"endpoint"}, "keep")
    @@ Each({"root"}, "or_none")
    @@ Each({"username", "password", "default_ttl"}, "some")
memory_setters == Each({"root"}, "some")
mini_moka_setters ==
    Each({"max_capacity", "time_to_live", "time_to_idle"}, "non_zero")
    @@ Each({"root"}, "or_none")
moka_setters ==
    Each({"name"}, "keep")
    @@ Each({"max_capacity", "time_to_live", "time_to_idle"}, "non_zero")
    @@ Each({"root"}, "or_none")
    @@ Each({"num_segments"}, "asserted")
mongodb_setters ==
    Each({"connection_string", "database", "collection", "key_field", "value_field"},
            "keep")
    @@ Each({"root"}, "or_none")
monoiofs_setters == Each({"root"}, "or_none")
mysql_setters ==
    Each({"connection_string", "table", "key_field", "value_field"}, "keep")
    @@ Each({"root"}, "or_none")
nebula_graph_setters ==
    Each({"host", "username", "password", "space", "tag", "key_field", "value_field",
            "root"}, "keep")
    @@ Each({"port"}, "some")
obs_setters ==
    Each({"root"}, "or_none")
    @@ Each({"endpoint"}, "keep_trim")
    @@ Each({"access_key_id", "secret_access_key", "bucket"}, "keep")
onedrive_setters ==
    Each({"access_token"}, "some")
    @@ Each({"root"}, "or_none")
oss_setters ==
    Each({"root"}, "or_none")
    @@ Each({"bucket", "enable_versioning"}, "assign")
    @@ Each({"allow_anonymous"}, "flag")
    @@ Each({"endpoint", "presign_endpoint"}, "keep_trim")
    @@ Each({"access_key_id", "access_key_secret", "server_side_encryption",
            "server_side_encryption_key_id", "role_arn", "role_session_name", "oidc_provider_arn",
            "oidc_token_file", "sts_endpoint"}, "keep")
    @@ Each({"batch_max_operations"}, "to_delete_max_size")
    @@ Each({"delete_max_size"}, "some")
pcloud_setters ==
    Each({"root", "username", "password"}, "or_none")
    @@ Each({"endpoint"}, "assign")
persy_setters == Each({"datafile", "segment", "index"}, "some")
postgresql_setters ==
    Each({"connection_string", "table", "key_field", "value_field"}, "keep")
    @@ Each({"root"}, "or_none")
redb_setters == Each({"datadir", "table", "root"}, "some")
redis_setters ==
    Each({"endpoint", "cluster_endpoints", "username", "password"}, "keep")
    @@ Each({"db"}, "assign")
    @@ Each({"default_ttl"}, "some")
    @@ Each({"root"}, "or_none")
rocksdb_setters ==
    Each({"datadir"}, "some")
    @@ Each({"root"}, "or_none")
s3_setters ==
    Each({"root"}, "or_none")
    @@ Each({"bucket", "enable_versioning"}, "assign")
    @@ Each({"disable_config_load", "disable_ec2_metadata", "allow_anonymous",
            "enable_virtual_host_style", "disable_stat_with_override",
            "disable_write_with_if_match"}, "flag")
    @@ Each({"endpoint"}, "keep_trim")
    @@ Each({"region", "access_key_id", "secret_access_key", "role_arn", "external_id",
            "role_session_name", "default_storage_class", "server_side_encryption",
            "server_side_encryption_aws_kms_key_id", "server_side_encryption_customer_algorithm",
            "server_side_encryption_customer_key", "server_side_encryption_customer_key_md5",
            "session_token"}, "keep")
    @@ Each({"batch_max_operations"}, "to_delete_max_size")
    @@ Each({"delete_max_size", "checksum_algorithm"}, "some")
seafile_setters ==
    Each({"root", "endpoint", "username", "password"}, "or_none")
    @@ Each({"repo_name"}, "assign")
sftp_setters ==
    Each({"endpoint", "root", "user", "key", "known_hosts_strategy"}, "or_none")
    @@ Each({"enable_copy"}, "assign")
sled_setters ==
    Each({"datadir", "tree"}, "some")
    @@ Each({"root"}, "or_none")
sqlite_setters ==
    Each({"connection_string", "table", "key_field", "value_field"}, "keep")
    @@ Each({"root"}, "or_none")
supabase_setters ==
    Each({"root"}, "or_none")
    @@ Each({"bucket"}, "assign")
    @@ Each({"endpoint"}, "or_none_trim")
    @@ Each({"key"}, "some")
surrealdb_setters ==
    Each({"connection_string", "table", "username", "password", "namespace", "database",
            "key_field", "value_field"}, "keep")
    @@ Each({"root"}, "or_none")
swift_setters ==
    Each({"endpoint", "container"}, "or_none_trim")
    @@ Each({"root"}, "or_none")
    @@ Each({"token"}, "keep")
tikv_setters ==
    Each({"endpoints", "ca_path", "cert_path", "key_path"}, "keep")
    @@ Each({"insecure"}, "flag")
upyun_setters ==
    Each({"root", "operator", "password"}, "or_none")
    @@ Each({"bucket"}, "assign")
vercel_artifacts_setters == Each({"access_token"}, "some")
vercel_blob_setters ==
    Each({"root"}, "or_none")
    @@ Each({"token"}, "keep")
webdav_setters ==
    Each({"endpoint", "root"}, "or_none")
    @@ Each({"username", "password", "token"}, "keep")
webhdfs_setters ==
    Each({"root", "atomic_write_dir"}, "or_none")
    @@ Each({"endpoint"}, "keep_trim")
    @@ Each({"delegation"}, "keep")
    @@ Each({"disable_list_batch"}, "flag")
yandex_disk_setters ==
    Each({"root"}, "or_none")
    @@ Each({"access_token"}, "assign")

Setters ==
    [aliyun_drive |-> aliyun_drive_setters, alluxio |-> alluxio_setters, atomicserver |->
     atomicserver_setters, azblob |-> azblob_setters, azdls |-> azdls_setters, azfile |->
     azfile_setters, b2 |-> b2_setters, cacache |-> cacache_setters, chainsafe |->
     chainsafe_setters, cloudflare_kv |-> cloudflare_kv_setters, compfs |-> compfs_setters, cos |->
     cos_setters, d1 |-> d1_setters, dashmap |-> dashmap_setters, dbfs |-> dbfs_setters, dropbox
     |-> dropbox_setters, etcd |-> etcd_setters, foundationdb |-> foundationdb_setters, fs |->
     fs_setters, ftp |-> ftp_setters, gcs |-> gcs_setters, gdrive |-> gdrive_setters, ghac |->
     ghac_setters, github |-> github_setters, gridfs |-> gridfs_setters, hdfs |-> hdfs_setters,
     hdfs_native |-> hdfs_native_setters, http |-> http_setters, huggingface |->
     huggingface_setters, icloud |-> icloud_setters, ipfs |-> ipfs_setters, ipmfs |->
     ipmfs_setters, koofr |-> koofr_setters, lakefs |-> lakefs_setters, libsql |-> libsql_setters,
     memcached |-> memcached_setters, memory |-> memory_setters, mini_moka |-> mini_moka_setters,
     moka |-> moka_setters, mongodb |-> mongodb_setters, monoiofs |-> monoiofs_setters, mysql |->
     mysql_setters, nebula_graph |-> nebula_graph_setters, obs |-> obs_setters, onedrive |->
     onedrive_setters, oss |-> oss_setters, pcloud |-> pcloud_setters, persy |-> persy_setters,
     postgresql |-> postgresql_setters, redb |-> redb_setters, redis |-> redis_setters, rocksdb |->
     rocksdb_setters, s3 |-> s3_setters, seafile |-> seafile_setters, sftp |-> sftp_setters, sled
     |-> sled_setters, sqlite |-> sqlite_setters, supabase |-> supabase_setters, surrealdb |->
     surrealdb_setters, swift |-> swift_setters, tikv |-> tikv_setters, upyun |-> upyun_setters,
     vercel_artifacts |-> vercel_artifacts_setters, vercel_blob |-> vercel_blob_setters, webdav |->
     webdav_setters, webhdfs |-> webhdfs_setters, yandex_disk |-> yandex_disk_setters]
-----------------------------------------------------------------------------
\* The struct that #[serde(default)] and Default start from.
Default(type) == CASE type = "String" -> "" [] type = "bool" -> "false"
                   [] type = "integer" -> "0" [] OTHER -> "unset"

\* str::trim_end_matches('/').
Trim(v) == IF v = "v/" THEN "v" ELSE v

\* The configuration c after a setter of a rule was called with v.
Setter(rule, c, o, v) ==
    CASE rule \in {"assign", "some", "asserted", "flag"} -> [c EXCEPT ![o] = v]
      [] rule = "or_none" -> [c EXCEPT ![o] = IF v = "" THEN "unset" ELSE v]
      [] rule = "or_none_trim" -> [c EXCEPT ![o] = IF v = "" THEN "unset" ELSE Trim(v)]
      [] rule \in {"keep", "keep_string"} -> IF v = "" THEN c ELSE [c EXCEPT ![o] = v]
      [] rule = "keep_trim" -> IF v = "" THEN c ELSE [c EXCEPT ![o] = Trim(v)]
      [] rule = "non_zero" -> IF v = "0" THEN c ELSE [c EXCEPT ![o] = v]
      [] rule = "to_delete_max_size" -> [c EXCEPT !["delete_max_size"] = v]

\* Pair::deserialize_option, _bool and the numbers: the value of a field, or
\* "invalid".  A Duration has no string form in serde.
deserialize_optionMutant(v, some) == some
deserialize_option(v, some) == IF v = "" THEN "unset" ELSE some
deserialize_boolMutant(v) == IF v = "true" THEN v ELSE "invalid"
deserialize_bool(v) == IF v \in {"true", "false"} THEN v ELSE "invalid"
deserialize_number(v) == IF v \in {"0", "n"} THEN v ELSE "invalid"
Field(type, v) ==
    CASE type = "String" -> v
      [] type = "Option" -> deserialize_option(v, v)
      [] type = "bool" -> deserialize_bool(v)
      [] type = "integer" -> deserialize_number(v)
      [] type = "number" -> deserialize_option(v, deserialize_number(v))
      [] type = "duration" -> deserialize_option(v, "invalid")

\* ConfigDeserializer on a map: every field of the struct, from the map or the
\* default.
ConfigDeserializer(config, map) ==
    [o \in DOMAIN config |->
       IF o \in DOMAIN map THEN Field(config[o], map[o]) ELSE Default(config[o])]

ServiceBuildersAssumption == Services \subseteq DOMAIN Configs /\ MaxCalls \in Nat
-----------------------------------------------------------------------------
\* What build does with a config: it refuses `missing` options that are None,
\* `empty` ones that are "", `uris` that do not parse, `hosts` without a host,
\* `keywords` it does not know and `headers` with control characters; it unwraps
\* `unwrap`, and the host of `unwrap_host`, and the library panics on a `zero`.
\* `client`: an URL that only the client parses.  Then it fills in `default`,
\* writes `rebuilt` anew from the parts of the URI, and passes on all others but
\* the `unused`.
Plain == [missing |-> {}, empty |-> {}, uris |-> {}, hosts |-> {}, keywords |-> {},
          headers |-> {}, client |-> {}, unwrap |-> {}, unwrap_host |-> {}, zero |-> {},
          default |-> {}, rebuilt |-> {}, unused |-> {}, root |-> "normalized"]

aliyun_drive_build == Plain
alluxio_build == [Plain EXCEPT !.missing = {"endpoint"}]
atomicserver_build == [Plain EXCEPT
    !.unwrap = {"endpoint", "parent_resource_id", "public_key"}]
azblob_build == [Plain EXCEPT
    !.empty = {"container"}, !.missing = {"endpoint"}, !.headers = {"encryption_key",
    "encryption_key_sha256"}, !.keywords = {"encryption_algorithm"}, !.unused =
    {"batch_max_operations"}]
azdls_build == [Plain EXCEPT !.empty = {"filesystem"}, !.missing = {"endpoint"}]
azfile_build == [Plain EXCEPT !.missing = {"endpoint"}]
b2_buildMutant == [Plain EXCEPT
    !.empty = {"bucket", "bucket_id"}, !.unwrap = {"application_key_id", "application_key"}]
b2_build == [Plain EXCEPT
    !.empty = {"bucket", "bucket_id"}, !.missing = {"application_key_id",
    "application_key"}]
cacache_build == [Plain EXCEPT !.missing = {"datadir"}]
chainsafe_build == [Plain EXCEPT !.empty = {"bucket_id"}, !.missing = {"api_key"}]
cloudflare_kv_build == [Plain EXCEPT !.missing = {"token", "account_id", "namespace_id"}]
compfs_build == [Plain EXCEPT !.missing = {"root"}, !.root = "as_is"]
cos_build == [Plain EXCEPT
    !.missing = {"bucket", "endpoint"}, !.uris = {"endpoint"}, !.unwrap_host = {"endpoint"},
    !.rebuilt = {"endpoint"}]
d1_build == [Plain EXCEPT
    !.missing = {"account_id", "database_id", "table"}, !.default = {"key_field",
    "value_field"}]
dashmap_build == Plain
dbfs_build == [Plain EXCEPT !.missing = {"endpoint", "token"}]
dropbox_build == Plain
etcd_build == [Plain EXCEPT !.default = {"endpoints"}]
foundationdb_build == Plain
fs_build == [Plain EXCEPT !.missing = {"root"}, !.root = "canonical"]
ftp_build == [Plain EXCEPT
    !.missing = {"endpoint"}, !.uris = {"endpoint"}, !.rebuilt = {"endpoint"}]
gcs_build == [Plain EXCEPT !.empty = {"bucket"}, !.default = {"endpoint", "scope"}]
gdrive_build == Plain
ghac_build == [Plain EXCEPT
    !.missing = {"endpoint", "runtime_token"}, !.default = {"version"}]
github_buildMutant == [Plain EXCEPT !.empty = {"owner"}]
github_build == [Plain EXCEPT !.empty = {"owner", "repo"}]
gridfs_build == [Plain EXCEPT
    !.missing = {"connection_string", "database"}, !.default = {"bucket", "chunk_size"}]
hdfs_build == [Plain EXCEPT !.missing = {"name_node"}]
hdfs_native_build == [Plain EXCEPT
    !.missing = {"url"}, !.client = {"url"}, !.unused = {"enable_append"}]
http_build == [Plain EXCEPT !.missing = {"endpoint"}]
huggingface_build == [Plain EXCEPT
    !.keywords = {"repo_type"}, !.missing = {"repo_id"}, !.default = {"repo_type",
    "revision"}]
icloud_build == [Plain EXCEPT
    !.missing = {"apple_id", "password", "ds_web_auth_token", "trust_token"}]
ipfs_build == [Plain EXCEPT
    !.missing = {"root", "endpoint"}, !.uris = {"root"}, !.hosts = {"root"}]
ipmfs_build == [Plain EXCEPT !.default = {"endpoint"}]
koofr_build == [Plain EXCEPT !.empty = {"endpoint", "email"}, !.missing = {"password"}]
lakefs_build == [Plain EXCEPT
    !.missing = {"endpoint", "repository", "username", "password"}, !.default = {"branch"}]
libsql_build == [Plain EXCEPT
    !.missing = {"connection_string", "table"}, !.uris = {"connection_string"}, !.rebuilt =
    {"connection_string"}, !.default = {"key_field", "value_field"}]
memcached_build == [Plain EXCEPT
    !.missing = {"endpoint"}, !.uris = {"endpoint"}, !.hosts = {"endpoint"}, !.rebuilt =
    {"endpoint"}]
memory_build == Plain
mini_moka_build == Plain
moka_build == [Plain EXCEPT !.default = {"num_segments"}, !.zero = {"num_segments"}]
mongodb_build == [Plain EXCEPT
    !.missing = {"connection_string", "database", "collection"}, !.default = {"key_field",
    "value_field"}]
monoiofs_build == [Plain EXCEPT !.missing = {"root"}, !.root = "canonical"]
mysql_build == [Plain EXCEPT
    !.missing = {"connection_string", "table"}, !.uris = {"connection_string"}, !.hosts =
    {"connection_string"}, !.default = {"key_field", "value_field"}]
nebula_graph_build == [Plain EXCEPT
    !.missing = {"host", "port", "username", "space", "tag"}, !.default = {"password",
    "key_field", "value_field"}]
obs_build == [Plain EXCEPT
    !.missing = {"bucket", "endpoint"}, !.uris = {"endpoint"}, !.rebuilt = {"endpoint"}]
onedrive_build == [Plain EXCEPT !.missing = {"access_token"}]
oss_build == [Plain EXCEPT
    !.empty = {"bucket"}, !.missing = {"endpoint"}, !.uris = {"endpoint",
    "presign_endpoint"}, !.hosts = {"endpoint", "presign_endpoint"}, !.rebuilt =
    {"endpoint", "presign_endpoint"}, !.headers = {"server_side_encryption",
    "server_side_encryption_key_id"}, !.default = {"presign_endpoint", "delete_max_size"},
    !.unused = {"batch_max_operations"}]
pcloud_build == [Plain EXCEPT !.empty = {"endpoint"}, !.missing = {"username", "password"}]
persy_build == [Plain EXCEPT !.missing = {"datafile", "segment", "index"}]
postgresql_build == [Plain EXCEPT
    !.missing = {"connection_string", "table"}, !.uris = {"connection_string"}, !.hosts =
    {"connection_string"}, !.default = {"key_field", "value_field"}]
redb_build == [Plain EXCEPT !.missing = {"datadir", "table"}]
redis_build == [Plain EXCEPT !.uris = {"cluster_endpoints"}, !.default = {"endpoint"}]
rocksdb_build == [Plain EXCEPT !.missing = {"datadir"}]
s3_build == [Plain EXCEPT
    !.missing = {"region"}, !.headers = {"default_storage_class", "server_side_encryption",
    "server_side_encryption_aws_kms_key_id", "server_side_encryption_customer_algorithm",
    "server_side_encryption_customer_key", "server_side_encryption_customer_key_md5"},
    !.keywords = {"checksum_algorithm"}, !.default = {"endpoint", "delete_max_size"},
    !.rebuilt = {"endpoint"}, !.unused = {"batch_max_operations"}]
seafile_build == [Plain EXCEPT
    !.empty = {"repo_name"}, !.missing = {"endpoint", "username", "password"}]
sftp_build == [Plain EXCEPT
    !.missing = {"endpoint"}, !.keywords = {"known_hosts_strategy"}, !.default =
    {"known_hosts_strategy"}, !.root = "login"]
sled_build == [Plain EXCEPT !.missing = {"datadir"}, !.default = {"tree"}]
sqlite_build == [Plain EXCEPT
    !.missing = {"connection_string", "table"}, !.uris = {"connection_string"}, !.default =
    {"key_field", "value_field"}]
supabase_build == [Plain EXCEPT !.default = {"endpoint"}]
surrealdb_build == [Plain EXCEPT
    !.missing = {"connection_string", "namespace", "database", "table"}, !.default =
    {"username", "password", "key_field", "value_field"}]
swift_build == [Plain EXCEPT !.missing = {"endpoint", "container"}, !.default = {"token"}]
tikv_build == [Plain EXCEPT !.missing = {"endpoints"}]
upyun_build == [Plain EXCEPT !.empty = {"bucket"}, !.missing = {"operator", "password"}]
vercel_artifacts_build == [Plain EXCEPT !.missing = {"access_token"}]
vercel_blob_build == [Plain EXCEPT !.missing = {"token"}]
webdav_build == [Plain EXCEPT !.missing = {"endpoint"}, !.uris = {"endpoint"}]
webhdfs_build == [Plain EXCEPT !.default = {"endpoint"}]
yandex_disk_build == [Plain EXCEPT !.empty = {"access_token"}]
Builds ==
    [aliyun_drive |-> aliyun_drive_build, alluxio |-> alluxio_build, atomicserver |->
     atomicserver_build, azblob |-> azblob_build, azdls |-> azdls_build, azfile |-> azfile_build,
     b2 |-> b2_build, cacache |-> cacache_build, chainsafe |-> chainsafe_build, cloudflare_kv |->
     cloudflare_kv_build, compfs |-> compfs_build, cos |-> cos_build, d1 |-> d1_build, dashmap |->
     dashmap_build, dbfs |-> dbfs_build, dropbox |-> dropbox_build, etcd |-> etcd_build,
     foundationdb |-> foundationdb_build, fs |-> fs_build, ftp |-> ftp_build, gcs |-> gcs_build,
     gdrive |-> gdrive_build, ghac |-> ghac_build, github |-> github_build, gridfs |->
     gridfs_build, hdfs |-> hdfs_build, hdfs_native |-> hdfs_native_build, http |-> http_build,
     huggingface |-> huggingface_build, icloud |-> icloud_build, ipfs |-> ipfs_build, ipmfs |->
     ipmfs_build, koofr |-> koofr_build, lakefs |-> lakefs_build, libsql |-> libsql_build,
     memcached |-> memcached_build, memory |-> memory_build, mini_moka |-> mini_moka_build, moka
     |-> moka_build, mongodb |-> mongodb_build, monoiofs |-> monoiofs_build, mysql |-> mysql_build,
     nebula_graph |-> nebula_graph_build, obs |-> obs_build, onedrive |-> onedrive_build, oss |->
     oss_build, pcloud |-> pcloud_build, persy |-> persy_build, postgresql |-> postgresql_build,
     redb |-> redb_build, redis |-> redis_build, rocksdb |-> rocksdb_build, s3 |-> s3_build,
     seafile |-> seafile_build, sftp |-> sftp_build, sled |-> sled_build, sqlite |-> sqlite_build,
     supabase |-> supabase_build, surrealdb |-> surrealdb_build, swift |-> swift_build, tikv |->
     tikv_build, upyun |-> upyun_build, vercel_artifacts |-> vercel_artifacts_build, vercel_blob
     |-> vercel_blob_build, webdav |-> webdav_build, webhdfs |-> webhdfs_build, yandex_disk |->
     yandex_disk_build]

\* normalize_root, or what fs, compfs and sftp do with the root, as the pieces of
\* the path.
normalize_root(v) == IF v \in {"unset", ""} THEN <<"/">> ELSE <<"/", Trim(v), "/">>
Root(kind, v) ==
    CASE kind = "normalized" \/ (kind = "login" /\ v # "unset") -> normalize_root(v)
      [] kind = "login" /\ v = "unset" -> <<>>
      [] kind = "canonical" -> <<"/", Trim(v)>>
      [] kind = "as_is" -> <<v>>
-----------------------------------------------------------------------------
\* What does not fit the common form.
is_bucket_valid(c) ==
    c.bucket # "" /\ ~(c.enable_virtual_host_style = "true" /\ c.bucket = "bad")
Given(c, o) == c[o] \notin {"unset", ""}
\* The sign of aliyun_drive, and its drive_type.
aliyun_sign(c) ==
    /\ Given(c, "access_token") \/ \A o \in {"client_id", "client_secret", "refresh_token"} : Given(c, o)
    /\ c.drive_type \in {"", "v"}
\* The signers of dropbox and gdrive.
dropbox_signer(c) ==
    \/ c.access_token # "unset" /\ c.refresh_token = "unset"
    \/ /\ c.access_token = "unset"
       /\ \A o \in {"refresh_token", "client_id", "client_secret"} : c[o] # "unset"
gdrive_signer(c) == dropbox_signer(c)
\* The account name of the azure services, from the endpoint if it is not given.
infer_account_name_from_endpoint(endpoint) == IF Trim(endpoint) = "v" THEN "inferred" ELSE "unset"
account_name(c) == IF c.account_name # "unset" THEN c.account_name
                   ELSE infer_account_name_from_endpoint(c.endpoint)
\* redis parses the endpoint only without a cluster.
get_connection_info(c) == c.cluster_endpoints = "unset" => c.endpoint \notin {"", "bad"}
tikv_tls(c) == c.insecure = "true" => \A o \in {"ca_path", "cert_path", "key_path"} : c[o] = "unset"
Accepts(svc, c) ==
    CASE svc = "s3" -> is_bucket_valid(c)
      [] svc = "aliyun_drive" -> aliyun_sign(c)
      [] svc = "dropbox" -> dropbox_signer(c)
      [] svc = "gdrive" -> gdrive_signer(c)
      [] svc = "azfile" -> account_name(c) # "unset"
      [] svc = "redis" -> get_connection_info(c)
      [] svc = "tikv" -> tikv_tls(c)
      [] OTHER -> TRUE

\* Options that build drops because of others.
authorization(c) == IF c.token # "unset" THEN {"username", "password"}
                    ELSE IF c.username = "unset" THEN {"password"} ELSE {}
etcd_options(c) ==
    LET tls == {"ca_path", "cert_path", "key_path"}
    IN (IF \E o \in tls : c[o] = "unset" THEN tls ELSE {})
         \cup (IF c.username = "unset" THEN {"password"} ELSE {})
Dropped(svc, c) ==
    CASE svc \in {"http", "webdav"} -> authorization(c)
      [] svc = "etcd" -> etcd_options(c)
      [] svc = "redis" -> IF c.cluster_endpoints # "unset" THEN {"endpoint"} ELSE {}
      [] svc \in {"dropbox", "gdrive"} -> IF c.access_token # "unset" THEN {"client_id", "client_secret"} ELSE {}
      [] svc = "aliyun_drive" -> IF Given(c, "access_token") THEN {"client_id", "client_secret", "refresh_token"} ELSE {}
      [] OTHER -> {}

\* The credential loader of s3: the last assignment wins.
s3_loader(c, custom) == IF c.role_arn # "unset" THEN "assume_role"
                        ELSE IF custom THEN "custom" ELSE "default"

NoOptions == [o \in {} |-> ""]
Refused(kind) == [kind |-> kind, of |-> NoOptions]
Effective(b, svc, c, o) ==
    CASE o = "root" -> Root(b.root, c[o])
      [] o = "account_name" /\ svc \in {"azblob", "azdls", "azfile"} -> account_name(c)
      [] o \in b.default /\ c[o] = "unset" -> "default"
      [] o \in b.rebuilt -> Trim(c[o])
      [] OTHER -> c[o]

\* Builder::build: an error, a panic, or the options the operator runs with.
build(svc, c) ==
    LET b == Builds[svc]
        invalid == \/ \E o \in b.missing : c[o] = "unset"
                   \/ \E o \in b.empty : c[o] = ""
                   \/ \E o \in b.uris : c[o] \in {"", "bad"}
                   \/ \E o \in b.hosts : c[o] = "nohost"
                   \/ \E o \in b.keywords : c[o] \notin {"unset", "v"}
                   \/ \E o \in b.headers : c[o] = "bad"
                   \/ ~Accepts(svc, c)
        panics == \/ \E o \in b.unwrap : c[o] = "unset"
                  \/ \E o \in b.unwrap_host : c[o] = "nohost"
                  \/ \E o \in b.zero : c[o] = "0"
    IN IF invalid THEN Refused("ConfigInvalid")
       ELSE IF panics THEN Refused("Panic")
       ELSE IF \E o \in b.client : c[o] \in {"bad", "nohost"} THEN Refused("Unexpected")
       ELSE [kind |-> "Ok",
             of |-> [o \in DOMAIN c \ (b.unused \cup Dropped(svc, c)) |-> Effective(b, svc, c, o)]]

\* Configurator::from_iter, into_builder and build.
from_iter(svc, map) ==
    LET c == ConfigDeserializer(Configs[svc], map)
    IN IF \E o \in DOMAIN c : c[o] = "invalid" THEN Refused("ConfigInvalid") ELSE build(svc, c)

\* Scheme::enabled, Scheme::from_str of the name of a service, and the arms of
\* via_iter, in a build with the features of all services.
enabled == DOMAIN Configs \ {"chainsafe", "cloudflare_kv", "d1", "dbfs", "github", "gridfs", "koofr"}
from_str(name) == IF name \in DOMAIN Configs \ {"foundationdb"} THEN name ELSE "custom"
via_iter(scheme, map) ==
    IF scheme \in DOMAIN Configs \ {"cloudflare_kv", "dbfs", "surrealdb"}
    THEN from_iter(scheme, map) ELSE Refused("Unsupported")
-----------------------------------------------------------------------------
VARIABLES
    service,  \* the service being configured
    config,   \* the config in the builder
    custom,   \* customized_credential_load was called
    asked,    \* option -> value: what the caller asked for, and the map says
    calls,    \* setters called beyond the needed options
    result    \* the operators of the three routes, once built

vars == <<service, config, custom, asked, calls, result>>

\* The options a caller of the service knows to need.
Needs(svc) ==
    LET b == Builds[svc]
    IN b.missing \cup b.empty \cup b.unwrap
         \cup (CASE svc \in {"aliyun_drive", "dropbox", "gdrive"} -> {"access_token"}
                 [] svc = "s3" -> {"bucket"} [] OTHER -> {})
Some(svc, o) == IF Configs[svc][o] = "number" THEN "n" ELSE "v"

\* Builder::default, with no option, all needed ones, or all but one.
Init ==
    /\ service \in Services
    /\ \E S \in {{}, Needs(service)} \cup {Needs(service) \ {o} : o \in Needs(service)} :
         /\ asked = [o \in S |-> Some(service, o)]
         /\ config = [o \in DOMAIN Configs[service] |->
                        IF o \in S THEN Some(service, o) ELSE Default(Configs[service][o])]
    /\ custom = FALSE
    /\ calls = 0
    /\ result = <<>>

\* A flag has a setter without an argument, that sets it.
Arguments(rule, type) ==
    CASE rule = "flag" -> {"true"}
      [] type = "bool" -> {"true", "false"}
      [] type \in {"number", "integer", "duration"} -> Numbers
      [] OTHER -> Values

\* A setter of the builder, once for an option.  The setter of num_segments
\* asserts that the number is not 0.
CallSetter ==
    /\ result = <<>>
    /\ calls < MaxCalls
    /\ LET setters == Setters[service]
           types == Configs[service]
       IN \E o \in DOMAIN setters \ (LeftAlone \cup DOMAIN asked) :
          \E v \in Arguments(setters[o], types[o]) :
             /\ ~(setters[o] = "asserted" /\ v = "0")
             /\ config' = Setter(setters[o], config, o, v)
             /\ asked' = (o :> v) @@ asked
    /\ calls' = calls + 1
    /\ UNCHANGED <<service, custom, result>>

customized_credential_load ==
    /\ result = <<>>
    /\ service = "s3"
    /\ ~custom
    /\ custom' = TRUE
    /\ UNCHANGED <<service, config, asked, calls, result>>

\* Operator::new, from_iter and via_iter.
Build ==
    /\ result = <<>>
    /\ result' = <<[new |-> build(service, config),
                    iter |-> from_iter(service, asked),
                    via |-> via_iter(from_str(service), asked),
                    loader |-> IF service = "s3" THEN s3_loader(config, custom) ELSE "default"]>>
    /\ UNCHANGED <<service, config, custom, asked, calls>>

Next ==
    \/ CallSetter
    \/ customized_credential_load
    \/ Build

Spec == Init /\ [][Next]_vars
-----------------------------------------------------------------------------
Built == result # <<>>

\* It does not matter whether the options are handed to the setters of the
\* builder or to Operator::from_iter: both refuse, or both give an operator that
\* runs with the same root, endpoint and options.
RoutesAgree == Built => result[1].new = result[1].iter

\* A configuration that cannot work is reported as ConfigInvalid, by build and
\* by from_iter: build neither panics nor fails in another way.
InvalidIsReported ==
    Built => {result[1].new.kind, result[1].iter.kind} \subseteq {"Ok", "ConfigInvalid"}

\* The options that the docs of the builders and configs call required.
Documented ==
    [b2 |-> {"bucket", "bucket_id"}, chainsafe |-> {"bucket_id"}, cos |-> {"bucket"},
     github |-> {"owner", "repo"}, huggingface |-> {"repo_id"}, icloud |-> {"apple_id", "password"},
     koofr |-> {"endpoint", "email"}, lakefs |-> {"endpoint", "username", "password", "repository"},
     obs |-> {"bucket"}, pcloud |-> {"endpoint", "username", "password"}, s3 |-> {"bucket", "region"},
     seafile |-> {"endpoint", "username", "password", "repo_name"}, swift |-> {"container"},
     upyun |-> {"bucket", "operator", "password"}, vercel_blob |-> {"token"}]
\* No operator runs without an option that the docs call required, by whatever
\* route and with whatever values it was configured.
RequiredIsThere ==
    Built /\ service \in DOMAIN Documented =>
        \A r \in {result[1].new, result[1].iter} :
            r.kind = "Ok" => \A o \in Documented[service] : r.of[o] \notin {"unset", ""}

\* "Trim trailing `/` so that we can accept `http://127.0.0.1:9000/`": an
\* operator joins its endpoint and a path with one slash.
SlashIsAccepted ==
    Built => \A r \in {result[1].new, result[1].iter} : \A o \in DOMAIN r.of \cap {"endpoint", "url", "name_node"} :
        r.of[o] # "v/"

\* An option that is set to a number or a flag is one that the operator runs with.
OptionIsHeeded ==
    Built => \A r \in {result[1].new, result[1].iter} : \A o \in DOMAIN asked :
        r.kind = "Ok" /\ asked[o] \in {"n", "true"} => o \in DOMAIN r.of

\* "If customized_credential_load has been set, we will ignore all other
\* credential load methods."
CustomLoaderWins == Built /\ custom => result[1].loader = "custom"

\* Scheme::enabled "returns all enabled schemes so users can make decisions
\* based on it": every service that is compiled in is there, and its name leads
\* via_iter to the operator that from_iter makes.
SchemesAreWhole == Built => service \in enabled /\ result[1].via = result[1].iter
=============================================================================
