------------------------ MODULE ServiceDeclarations -------------------------
(***************************************************************************)
(* What the services declare: the options of their configuration, and the  *)
(* options of the operations that their Capability says they support.      *)
(***************************************************************************)
EXTENDS Naturals, FiniteSets, TLC

Each(S, x) == [o \in S |-> x]

-----------------------------------------------------------------------------
\* The structs of services/*/config.rs: option -> type.
aliyun_drive_config ==
    Each({"root", "access_token", "client_id", "client_secret", "refresh_token"}, "Option")
    @@ Each({"drive_type"}, "String")
alluxio_config == Each({"root", "endpoint"}, "Option")
atomicserver_config ==
    Each({"root", "endpoint", "private_key", "public_key", "parent_resource_id"}, "Option")
azblob_config ==
    Each({"root", "endpoint", "account_name", "account_key", "encryption_key",
            "encryption_key_sha256", "encryption_algorithm", "sas_token"}, "Option")
    @@ Each({"container"}, "String")
    @@ Each({"batch_max_operations"}, "number")
azdls_config ==
    Each({"root", "endpoint", "account_name", "account_key"}, "Option")
    @@ Each({"filesystem"}, "String")
azfile_config ==
    Each({"root", "endpoint", "account_name", "account_key", "sas_token"}, "Option")
    @@ Each({"share_name"}, "String")
b2_config ==
    Each({"root", "application_key_id", "application_key"}, "Option")
    @@ Each({"bucket", "bucket_id"}, "String")
cacache_config == Each({"datadir"}, "Option")
chainsafe_config ==
    Each({"root", "api_key"}, "Option")
    @@ Each({"bucket_id"}, "String")
cloudflare_kv_config == Each({"token", "account_id", "namespace_id", "root"}, "Option")
compfs_config == Each({"root"}, "Option")
cos_config ==
    Each({"root", "endpoint", "secret_id", "secret_key", "bucket"}, "Option")
    @@ Each({"enable_versioning", "disable_config_load"}, "bool")
d1_config ==
    Each({"token", "account_id", "database_id", "root", "table", "key_field",
            "value_field"}, "Option")
dashmap_config == Each({"root"}, "Option")
dbfs_config == Each({"root", "endpoint", "token"}, "Option")
dropbox_config ==
    Each({"root", "access_token", "refresh_token", "client_id", "client_secret"}, "Option")
etcd_config ==
    Each({"endpoints", "username", "password", "root", "ca_path", "cert_path", "key_path"},
            "Option")
foundationdb_config == Each({"root", "config_path"}, "Option")
fs_config == Each({"root", "atomic_write_dir"}, "Option")
ftp_config == Each({"endpoint", "root", "user", "password"}, "Option")
gcs_config ==
    Each({"root", "endpoint", "scope", "service_account", "credential", "credential_path",
            "predefined_acl", "default_storage_class", "token"}, "Option")
    @@ Each({"bucket"}, "String")
    @@ Each({"allow_anonymous", "disable_vm_metadata", "disable_config_load"}, "bool")
gdrive_config ==
    Each({"root", "access_token", "refresh_token", "client_id", "client_secret"}, "Option")
ghac_config == Each({"root", "version", "endpoint", "runtime_token"}, "Option")
github_config ==
    Each({"root", "token"}, "Option")
    @@ Each({"owner", "repo"}, "String")
gridfs_config ==
    Each({"connection_string", "database", "bucket", "root"}, "Option")
    @@ Each({"chunk_size"}, "number")
hdfs_config ==
    Each({"root", "name_node", "kerberos_ticket_cache_path", "user", "atomic_write_dir"},
            "Option")
    @@ Each({"enable_append"}, "bool")
hdfs_native_config ==
    Each({"root", "url"}, "Option")
    @@ Each({"enable_append"}, "bool")
http_config == Each({"endpoint", "username", "password", "token", "root"}, "Option")
huggingface_config == Each({"repo_type", "repo_id", "revision", "root", "token"}, "Option")
icloud_config ==
    Each({"root", "apple_id", "password", "trust_token", "ds_web_auth_token"}, "Option")
    @@ Each({"is_china_mainland"}, "bool")
ipfs_config == Each({"endpoint", "root"}, "Option")
ipmfs_config == Each({"root", "endpoint"}, "Option")
koofr_config ==
    Each({"root", "password"}, "Option")
    @@ Each({"endpoint", "email"}, "String")
lakefs_config ==
    Each({"endpoint", "username", "password", "root", "repository", "branch"}, "Option")
libsql_config ==
    Each({"connection_string", "auth_token", "table", "key_field", "value_field", "root"},
            "Option")
memcached_config ==
    Each({"endpoint", "root", "username", "password"}, "Option")
    @@ Each({"default_ttl"}, "duration")
memory_config == Each({"root"}, "Option")
mini_moka_config ==
    Each({"max_capacity"}, "number")
    @@ Each({"time_to_live", "time_to_idle"}, "duration")
    @@ Each({"root"}, "Option")
moka_config ==
    Each({"name", "root"}, "Option")
    @@ Each({"max_capacity", "num_segments"}, "number")
    @@ Each({"time_to_live", "time_to_idle"}, "duration")
mongodb_config ==
    Each({"connection_string", "database", "collection", "root", "key_field",
            "value_field"}, "Option")
monoiofs_config == Each({"root"}, "Option")
mysql_config == Each({"connection_string", "table", "key_field", "value_field", "root"}, "Option")
nebula_graph_config ==
    Each({"host", "username", "password", "space", "tag", "key_field", "value_field",
            "root"}, "Option")
    @@ Each({"port"}, "number")
obs_config == Each({"root", "endpoint", "access_key_id", "secret_access_key", "bucket"}, "Option")
onedrive_config == Each({"access_token", "root"}, "Option")
oss_config ==
    Each({"root", "endpoint", "presign_endpoint", "server_side_encryption",
            "server_side_encryption_key_id", "access_key_id", "access_key_secret", "role_arn",
            "role_session_name", "oidc_provider_arn", "oidc_token_file", "sts_endpoint"}, "Option")
    @@ Each({"bucket"}, "String")
    @@ Each({"enable_versioning", "allow_anonymous"}, "bool")
    @@ Each({"batch_max_operations", "delete_max_size"}, "number")
pcloud_config ==
    Each({"root", "username", "password"}, "Option")
    @@ Each({"endpoint"}, "String")
persy_config == Each({"datafile", "segment", "index"}, "Option")
postgresql_config ==
    Each({"root", "connection_string", "table", "key_field", "value_field"}, "Option")
redb_config == Each({"datadir", "root", "table"}, "Option")
redis_config ==
    Each({"endpoint", "cluster_endpoints", "username", "password", "root"}, "Option")
    @@ Each({"db"}, "integer")
    @@ Each({"default_ttl"}, "duration")
rocksdb_config == Each({"datadir", "root"}, "Option")
s3_config ==
    Each({"root", "endpoint", "region", "access_key_id", "secret_access_key",
            "session_token", "role_arn", "external_id", "role_session_name",
            "server_side_encryption", "server_side_encryption_aws_kms_key_id",
            "server_side_encryption_customer_algorithm", "server_side_encryption_customer_key",
            "server_side_encryption_customer_key_md5", "default_storage_class",
            "checksum_algorithm"}, "Option")
    @@ Each({"bucket"}, "String")
    @@ Each({"enable_versioning", "disable_config_load", "disable_ec2_metadata",
            "allow_anonymous", "enable_virtual_host_style", "disable_stat_with_override",
            "disable_write_with_if_match"}, "bool")
    @@ Each({"batch_max_operations", "delete_max_size"}, "number")
seafile_config ==
    Each({"root", "endpoint", "username", "password"}, "Option")
    @@ Each({"repo_name"}, "String")
sftp_config ==
    Each({"endpoint", "root", "user", "key", "known_hosts_strategy"}, "Option")
    @@ Each({"enable_copy"}, "bool")
sled_config == Each({"datadir", "root", "tree"}, "Option")
sqlite_config == Each({"connection_string", "table", "key_field", "value_field", "root"}, "Option")
supabase_config ==
    Each({"root", "endpoint", "key"}, "Option")
    @@ Each({"bucket"}, "String")
surrealdb_config ==
    Each({"connection_string", "username", "password", "namespace", "database", "table",
            "key_field", "value_field", "root"}, "Option")
swift_config == Each({"endpoint", "container", "root", "token"}, "Option")
tikv_config ==
    Each({"endpoints", "ca_path", "cert_path", "key_path"}, "Option")
    @@ Each({"insecure"}, "bool")
upyun_config ==
    Each({"root", "operator", "password"}, "Option")
    @@ Each({"bucket"}, "String")
vercel_artifacts_config == Each({"access_token"}, "Option")
vercel_blob_config == Each({"root", "token"}, "Option")
webdav_config ==
    Each({"endpoint", "username", "password", "token", "root"}, "Option")
    @@ Each({"disable_copy"}, "bool")
webhdfs_config ==
    Each({"root", "endpoint", "delegation", "atomic_write_dir"}, "Option")
    @@ Each({"disable_list_batch"}, "bool")
yandex_disk_config ==
    Each({"root"}, "Option")
    @@ Each({"access_token"}, "String")

Configs ==
    [aliyun_drive |-> aliyun_drive_config, alluxio |-> alluxio_config, atomicserver |->
     atomicserver_config, azblob |-> azblob_config, azdls |-> azdls_config, azfile |->
     azfile_config, b2 |-> b2_config, cacache |-> cacache_config, chainsafe |-> chainsafe_config,
     cloudflare_kv |-> cloudflare_kv_config, compfs |-> compfs_config, cos |-> cos_config, d1 |->
     d1_config, dashmap |-> dashmap_config, dbfs |-> dbfs_config, dropbox |-> dropbox_config, etcd
     |-> etcd_config, foundationdb |-> foundationdb_config, fs |-> fs_config, ftp |-> ftp_config,
     gcs |-> gcs_config, gdrive |-> gdrive_config, ghac |-> ghac_config, github |-> github_config,
     gridfs |-> gridfs_config, hdfs |-> hdfs_config, hdfs_native |-> hdfs_native_config, http |->
     http_config, huggingface |-> huggingface_config, icloud |-> icloud_config, ipfs |->
     ipfs_config, ipmfs |-> ipmfs_config, koofr |-> koofr_config, lakefs |-> lakefs_config, libsql
     |-> libsql_config, memcached |-> memcached_config, memory |-> memory_config, mini_moka |->
     mini_moka_config, moka |-> moka_config, mongodb |-> mongodb_config, monoiofs |->
     monoiofs_config, mysql |-> mysql_config, nebula_graph |-> nebula_graph_config, obs |->
     obs_config, onedrive |-> onedrive_config, oss |-> oss_config, pcloud |-> pcloud_config, persy
     |-> persy_config, postgresql |-> postgresql_config, redb |-> redb_config, redis |->
     redis_config, rocksdb |-> rocksdb_config, s3 |-> s3_config, seafile |-> seafile_config, sftp
     |-> sftp_config, sled |-> sled_config, sqlite |-> sqlite_config, supabase |-> supabase_config,
     surrealdb |-> surrealdb_config, swift |-> swift_config, tikv |-> tikv_config, upyun |->
     upyun_config, vercel_artifacts |-> vercel_artifacts_config, vercel_blob |->
     vercel_blob_config, webdav |-> webdav_config, webhdfs |-> webhdfs_config, yandex_disk |->
     yandex_disk_config]

-----------------------------------------------------------------------------
\* The switches of the builders that change what a service declares.
Flags == {"enable_versioning", "disable_write_with_if_match", "disable_stat_with_override"}

Matches   == {"if_match", "if_none_match"}
Since     == {"if_modified_since", "if_unmodified_since"}
Overrides == {"override_content_disposition", "override_cache_control",
              "override_content_type"}

\* What a service declares that has none of the switches.
Declares(stat, read, write, delete) ==
    [conf \in SUBSET Flags |->
        [stat |-> stat, read |-> read, write |-> write, delete |-> delete]]
DeclaresNothing == Declares({}, {}, {}, {})

\* The sets that each accessor puts into its Capability.
s3_info[conf \in SUBSET Flags] ==
    LET versioned == IF "enable_versioning" \in conf THEN {"version"} ELSE {}
    IN [stat   |-> Matches \cup Since \cup versioned
                     \cup (IF "disable_stat_with_override" \in conf THEN {} ELSE Overrides),
        read   |-> Matches \cup Since \cup Overrides \cup versioned,
        write  |-> {"cache_control", "content_type", "content_encoding",
                    "if_not_exists", "user_metadata"}
                     \cup (IF "disable_write_with_if_match" \in conf THEN {}
                           ELSE {"if_match"}),
        delete |-> versioned]
gcs_info == Declares(Matches, Matches, {"content_type", "user_metadata", "if_not_exists"}, {})
azblob_info ==
    Declares(Matches, Matches \cup Since \cup {"override_content_disposition"},
             {"cache_control", "content_type", "if_not_exists", "if_none_match",
              "user_metadata"}, {})
oss_info[conf \in SUBSET Flags] ==
    LET versioned == IF "enable_versioning" \in conf THEN {"version"} ELSE {}
    IN [stat   |-> Matches \cup versioned,
        read   |-> Matches \cup Since \cup versioned,
        write  |-> {"cache_control", "content_type", "content_disposition", "user_metadata"}
                     \cup (IF versioned = {} THEN {"if_not_exists"} ELSE {}),
        delete |-> versioned]
cos_info[conf \in SUBSET Flags] ==
    LET versioned == IF "enable_versioning" \in conf THEN {"version"} ELSE {}
    IN [stat   |-> Matches \cup versioned,
        read   |-> Matches \cup versioned,
        write  |-> {"cache_control", "content_type", "content_disposition", "user_metadata"}
                     \cup (IF versioned = {} THEN {"if_not_exists"} ELSE {}),
        delete |-> versioned]
obs_info == Declares(Matches, Matches, {"content_type", "cache_control", "user_metadata"}, {})
b2_info == Declares({}, {}, {"content_type"}, {})
upyun_info == Declares({}, {}, {"content_type", "cache_control"}, {})
vercel_blob_info == DeclaresNothing
azdls_info == Declares({}, {}, {"if_not_exists", "if_none_match"}, {})
azfile_info == DeclaresNothing
http_info == Declares(Matches, Matches, {}, {})
supabase_info == DeclaresNothing
swift_info == DeclaresNothing
lakefs_info == DeclaresNothing
aliyun_drive_info == DeclaresNothing
alluxio_info == DeclaresNothing
chainsafe_info == DeclaresNothing
dropbox_info == DeclaresNothing
gdrive_info == DeclaresNothing
ghac_info == DeclaresNothing
github_info == DeclaresNothing
huggingface_info == DeclaresNothing
icloud_info == DeclaresNothing
ipfs_info == DeclaresNothing
ipmfs_info == DeclaresNothing
koofr_info == DeclaresNothing
onedrive_info == DeclaresNothing
pcloud_info == DeclaresNothing
seafile_info == DeclaresNothing
vercel_artifacts_info == DeclaresNothing
webdav_info == DeclaresNothing
webhdfs_info == DeclaresNothing
yandex_disk_info == DeclaresNothing
fs_info == DeclaresNothing
hdfs_info == DeclaresNothing
=============================================================================
