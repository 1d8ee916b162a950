--------------------------- MODULE ServiceRequests ---------------------------
(***************************************************************************)
(* What the services put into their requests.  Each definition stands for  *)
(* the function of the service that builds the request and has its name;   *)
(* its value is the set of the caller's options that reach the wire.  A    *)
(* read is a function of range.is_full().  Each service is the record of   *)
(* what it declares and of the requests its accessor sends; one whose put  *)
(* creates an empty file brings the content in a request of its own.       *)
(***************************************************************************)
EXTENDS ServiceDeclarations

\* if !range.is_full() { req.header(RANGE, range.to_header()) }
RangeUnlessFullMutant(full) == IF full THEN {"range"} ELSE {}
RangeUnlessFull(full) == IF full THEN {} ELSE {"range"}

-----------------------------------------------------------------------------
(* s3 *)
s3_head_object_request == Matches \cup Since \cup Overrides \cup {"version"}
s3_get_object_request[full \in BOOLEAN] ==
    RangeUnlessFull(full) \cup Matches \cup Since \cup Overrides \cup {"version"}
s3_put_object_request ==
    {"content_type", "content_disposition", "content_encoding", "cache_control",
     "if_match", "if_not_exists", "user_metadata"}
s3_initiate_multipart_uploadMutant == {"content_disposition", "user_metadata"}
s3_initiate_multipart_upload ==
    {"content_type", "content_disposition", "cache_control", "user_metadata"}
s3_complete_multipart_upload == {}
s3_delete_object  == {"version"}
s3_delete_objectsMutant == {}
s3_delete_objects == {"version"}
s3_presign == [stat |-> s3_head_object_request, read |-> s3_get_object_request[TRUE],
               write |-> {}]                             \* &OpWrite::default()

s3 == [info |-> s3_info, stat |-> s3_head_object_request, read |-> s3_get_object_request,
       put |-> s3_put_object_request, initiate |-> s3_initiate_multipart_upload,
       complete |-> s3_complete_multipart_upload, delete |-> s3_delete_object,
       batch |-> s3_delete_objects, presign |-> s3_presign]
-----------------------------------------------------------------------------
(* gcs *)
gcs_head_object_request == Matches
gcs_head_object_xml_request == Matches
gcs_get_object_request[full \in BOOLEAN] == RangeUnlessFull(full) \cup Matches
gcs_get_object_xml_request == Matches \cup Since
gcs_insert_object_requestMutant == {"cache_control", "if_not_exists", "user_metadata"}
gcs_insert_object_request == {"cache_control", "content_type", "if_not_exists", "user_metadata"}
gcs_insert_object_xml_request == {"content_type", "user_metadata"}
gcs_initiate_multipart_upload == {}
gcs_complete_multipart_upload == {}
gcs_delete_object_request == {}
gcs_delete_objects == {}
gcs_presign == [stat |-> gcs_head_object_xml_request, read |-> gcs_get_object_xml_request,
                write |-> gcs_insert_object_xml_request]

gcs == [info |-> gcs_info, stat |-> gcs_head_object_request, read |-> gcs_get_object_request,
        put |-> gcs_insert_object_request, initiate |-> gcs_initiate_multipart_upload,
        complete |-> gcs_complete_multipart_upload, delete |-> gcs_delete_object_request,
        batch |-> gcs_delete_objects, presign |-> gcs_presign]
-----------------------------------------------------------------------------
(* azblob *)
azblob_head_blob_request == Matches
azblob_get_blob_request[full \in BOOLEAN] ==
    RangeUnlessFull(full) \cup Matches \cup Since \cup {"override_content_disposition"}
azblob_put_blob_request ==
    {"content_type", "cache_control", "if_not_exists", "if_none_match", "user_metadata"}
azblob_init_appendable_blob_request == {"content_type", "cache_control"}
azblob_append_blob_request == {}
azblob_put_block_request == {"content_type", "cache_control"}
azblob_complete_put_block_list_request == {"cache_control"}
azblob_delete_blob_request == {}
azblob_batch_delete == {}
azblob_presign == [stat |-> azblob_head_blob_request, read |-> azblob_get_blob_request[TRUE],
                   write |-> {}]                         \* &OpWrite::default()

\* The headers of a block describe the block: the blob has those of the block list.
azblob == [info |-> azblob_info, stat |-> azblob_head_blob_request,
           read |-> azblob_get_blob_request, put |-> azblob_put_blob_request,
           initiate |-> azblob_put_block_request \ {"content_type", "cache_control"},
           complete |-> azblob_complete_put_block_list_request,
           append |-> azblob_init_appendable_blob_request \cup azblob_append_blob_request,
           delete |-> azblob_delete_blob_request, batch |-> azblob_batch_delete,
           presign |-> azblob_presign]
-----------------------------------------------------------------------------
(* oss *)
oss_insert_metadata_headers ==
    {"content_type", "content_disposition", "cache_control", "if_not_exists", "user_metadata"}
oss_head_object_request == Matches \cup {"version"}
oss_get_object_request[full \in BOOLEAN] ==
    RangeUnlessFull(full) \cup Matches \cup Since
       \cup {"version", "override_content_disposition"}
oss_put_object_request == oss_insert_metadata_headers
oss_append_object_request == oss_insert_metadata_headers
oss_initiate_upload == {"content_type", "content_disposition", "cache_control"}
oss_complete_multipart_upload_request == {}
oss_delete_object_request == {"version"}
oss_delete_objects == {}
oss_presign == [stat |-> oss_head_object_request, read |-> oss_get_object_request[TRUE],
                write |-> oss_put_object_request]

oss == [info |-> oss_info, stat |-> oss_head_object_request, read |-> oss_get_object_request,
        put |-> oss_put_object_request, initiate |-> oss_initiate_upload,
        complete |-> oss_complete_multipart_upload_request,
        append |-> oss_append_object_request, delete |-> oss_delete_object_request,
        batch |-> oss_delete_objects, presign |-> oss_presign]
-----------------------------------------------------------------------------
(* cos and obs *)
cos_head_object_request == Matches \cup {"version"}
cos_get_object_request[full \in BOOLEAN] ==
    RangeUnlessFull(full) \cup Matches \cup {"version"}
cos_put_object_request ==
    {"content_type", "content_disposition", "cache_control", "if_not_exists", "user_metadata"}
cos_append_object_request == {"content_type", "content_disposition", "cache_control"}
cos_initiate_multipart_upload ==
    {"content_type", "content_disposition", "cache_control", "user_metadata"}
cos_complete_multipart_upload == {}
cos_delete_objectMutant == {}
cos_delete_object == {"version"}
cos_presign == [stat |-> cos_head_object_request, read |-> cos_get_object_request[TRUE],
                write |-> cos_put_object_request]

cos == [info |-> cos_info, stat |-> cos_head_object_request, read |-> cos_get_object_request,
        put |-> cos_put_object_request, initiate |-> cos_initiate_multipart_upload,
        complete |-> cos_complete_multipart_upload, append |-> cos_append_object_request,
        delete |-> cos_delete_object, presign |-> cos_presign]

obs_head_object_request == Matches
\* if range.is_full() { req.header(RANGE, ..) }
obs_get_object_request[full \in BOOLEAN] == (IF full THEN {"range"} ELSE {}) \cup Matches
obs_put_object_request == {"content_type", "cache_control", "user_metadata"}
obs_append_object_request == {"content_type", "content_disposition", "cache_control"}
obs_initiate_multipart_upload == {"content_type"}
obs_complete_multipart_upload == {}
obs_presign == [stat |-> obs_head_object_request, read |-> obs_get_object_request[TRUE],
                write |-> obs_put_object_request]

obs == [info |-> obs_info, stat |-> obs_head_object_request, read |-> obs_get_object_request,
        put |-> obs_put_object_request, initiate |-> obs_initiate_multipart_upload,
        complete |-> obs_complete_multipart_upload, append |-> obs_append_object_request,
        presign |-> obs_presign]
-----------------------------------------------------------------------------
(* The other object stores. *)
b2_download_file_by_name[full \in BOOLEAN] == RangeUnlessFull(full)
b2_upload_file == {"content_type", "content_disposition"}
b2_start_large_file == {"content_type"}
b2_finish_large_file == {}
b2_presign == [stat |-> {}, read |-> {}, write |-> {}]
b2 == [info |-> b2_info, stat |-> {}, read |-> b2_download_file_by_name,
       put |-> b2_upload_file, initiate |-> b2_start_large_file,
       complete |-> b2_finish_large_file, presign |-> b2_presign]

upyun_download_file[full \in BOOLEAN] == {"range"}
upyun_upload == {"content_type", "content_disposition", "cache_control"}
upyun_initiate_multipart_upload == {"content_type", "content_disposition", "cache_control"}
upyun_complete_multipart_upload == {}
upyun == [info |-> upyun_info, stat |-> {}, read |-> upyun_download_file,
          put |-> upyun_upload, initiate |-> upyun_initiate_multipart_upload,
          complete |-> upyun_complete_multipart_upload]

vercel_blob_download[full \in BOOLEAN] == RangeUnlessFull(full)
vercel_blob_get_put_request == {"content_type"}
vercel_blob_initiate_multipart_upload == {"content_type"}
vercel_blob_complete_multipart_upload == {}
vercel_blob == [info |-> vercel_blob_info, stat |-> {}, read |-> vercel_blob_download,
                put |-> vercel_blob_get_put_request,
                initiate |-> vercel_blob_initiate_multipart_upload,
                complete |-> vercel_blob_complete_multipart_upload]

azdls_read[full \in BOOLEAN] == RangeUnlessFull(full)
azdls_create_request == {"content_type", "content_disposition", "if_not_exists", "if_none_match"}
azdls_update_request == {}
azdls_get_properties == {}
azdls == [info |-> azdls_info, stat |-> azdls_get_properties, read |-> azdls_read,
          put |-> azdls_create_request, content |-> azdls_update_request,
          append |-> azdls_update_request]

azfile_read[full \in BOOLEAN] == RangeUnlessFull(full)
azfile_create_file == {"content_type", "content_disposition"}
azfile_update == {}
azfile_get_file_properties == {}
azfile == [info |-> azfile_info, stat |-> azfile_get_file_properties, read |-> azfile_read,
           put |-> azfile_create_file, content |-> azfile_update]

http_head_request == Matches
http_get_request[full \in BOOLEAN] == RangeUnlessFull(full) \cup Matches
http_presign == [stat |-> http_head_request, read |-> http_get_request[TRUE]]
http == [info |-> http_info, stat |-> http_head_request, read |-> http_get_request,
         presign |-> http_presign]

supabase_get_object[full \in BOOLEAN] == {}
supabase_head_object == {}
supabase_upload_object_request == {"content_type"}
supabase == [info |-> supabase_info, stat |-> supabase_head_object,
             read |-> supabase_get_object, put |-> supabase_upload_object_request]

swift_read[full \in BOOLEAN] == RangeUnlessFull(full)
swift_create_object == {}
swift_get_metadata == {}
swift == [info |-> swift_info, stat |-> swift_get_metadata, read |-> swift_read,
          put |-> swift_create_object]

lakefs_get_object_content[full \in BOOLEAN] == RangeUnlessFull(full)
lakefs_get_object_metadata == {}
lakefs_upload_object == {}
lakefs == [info |-> lakefs_info, stat |-> lakefs_get_object_metadata,
           read |-> lakefs_get_object_content, put |-> lakefs_upload_object]
-----------------------------------------------------------------------------
(* Drives and file servers. *)
aliyun_drive_read[full \in BOOLEAN] == {"range"}
aliyun_drive == [info |-> aliyun_drive_info, stat |-> {}, read |-> aliyun_drive_read]

alluxio_read[full \in BOOLEAN] == {}                     \* read(&self, stream_id: u64, _: BytesRange)
alluxio_get_status == {}
alluxio_write == {}
alluxio == [info |-> alluxio_info, stat |-> alluxio_get_status, read |-> alluxio_read,
            put |-> alluxio_write]

chainsafe_download_object[full \in BOOLEAN] == {"range"}
chainsafe_object_info == {}
chainsafe_upload_object == {}
chainsafe == [info |-> chainsafe_info, stat |-> chainsafe_object_info,
              read |-> chainsafe_download_object, put |-> chainsafe_upload_object]

dropbox_get[full \in BOOLEAN] == RangeUnlessFull(full)
dropbox_get_metadata == {}
dropbox_update == {"content_type"}
dropbox == [info |-> dropbox_info, stat |-> dropbox_get_metadata, read |-> dropbox_get,
            put |-> dropbox_update]

gdrive_get[full \in BOOLEAN] == {"range"}
gdrive_stat == {}
gdrive_upload_simple_request == {}
gdrive_upload_overwrite_simple_request == {}
gdrive == [info |-> gdrive_info, stat |-> gdrive_stat, read |-> gdrive_get,
           put |-> gdrive_upload_simple_request
                     \cap gdrive_upload_overwrite_simple_request]

ghac_get_location[full \in BOOLEAN] == RangeUnlessFull(full)
ghac_query == {}
ghac_upload == {}
ghac == [info |-> ghac_info, stat |-> ghac_query, read |-> ghac_get_location,
         put |-> ghac_upload]

github_get[full \in BOOLEAN] == {"range"}
github_stat == {}
github_upload == {}
github == [info |-> github_info, stat |-> github_stat, read |-> github_get,
           put |-> github_upload]

hf_resolve[full \in BOOLEAN] == RangeUnlessFull(full)
hf_path_info == {}
huggingface == [info |-> huggingface_info, stat |-> hf_path_info, read |-> hf_resolve]

\* if range.is_full() { req.header(RANGE, ..) }
icloud_get_file[full \in BOOLEAN] == (IF full THEN {"range"} ELSE {}) \cup Matches
icloud_stat == {}
icloud == [info |-> icloud_info, stat |-> icloud_stat, read |-> icloud_get_file]

ipfs_get[full \in BOOLEAN] == RangeUnlessFull(full)
ipfs_head == {}
ipfs == [info |-> ipfs_info, stat |-> ipfs_head, read |-> ipfs_get]

ipmfs_read[full \in BOOLEAN] == {"range"}
ipmfs_stat == {}
ipmfs_write == {}
ipmfs == [info |-> ipmfs_info, stat |-> ipmfs_stat, read |-> ipmfs_read, put |-> ipmfs_write]

koofr_get[full \in BOOLEAN] == {"range"}
koofr_core_info == {}
koofr_put == {}
koofr == [info |-> koofr_info, stat |-> koofr_core_info, read |-> koofr_get, put |-> koofr_put]

onedrive_get_content[full \in BOOLEAN] == {"range"}
onedrive_get_stat == {}
onedrive_upload_simple == {"content_type"}
onedrive_chunked_upload == {"content_type"}
onedrive == [info |-> onedrive_info, stat |-> onedrive_get_stat,
             read |-> onedrive_get_content,
             put |-> onedrive_upload_simple \cap onedrive_chunked_upload]

pcloud_download[full \in BOOLEAN] == {"range"}
pcloud_stat == {}
pcloud_upload_file == {}
pcloud == [info |-> pcloud_info, stat |-> pcloud_stat, read |-> pcloud_download,
           put |-> pcloud_upload_file]

seafile_download_file[full \in BOOLEAN] == {"range"}
seafile_file_detail == {}
seafile_write_once == {}
seafile == [info |-> seafile_info, stat |-> seafile_file_detail,
            read |-> seafile_download_file, put |-> seafile_write_once]

vercel_artifacts_get[full \in BOOLEAN] == RangeUnlessFull(full)
vercel_artifacts_stat == {}
vercel_artifacts_put == {}
vercel_artifacts == [info |-> vercel_artifacts_info, stat |-> vercel_artifacts_stat,
                     read |-> vercel_artifacts_get, put |-> vercel_artifacts_put]

webdav_get[full \in BOOLEAN] == RangeUnlessFull(full)
webdav_stat == {}
webdav_put == {"content_type", "content_disposition"}
webdav == [info |-> webdav_info, stat |-> webdav_stat, read |-> webdav_get,
           put |-> webdav_put]

webhdfs_open_request[full \in BOOLEAN] == RangeUnlessFull(full)
webhdfs_get_file_status == {}
webhdfs_create_object_request == {"content_type"}
webhdfs == [info |-> webhdfs_info, stat |-> webhdfs_get_file_status,
            read |-> webhdfs_open_request, put |-> webhdfs_create_object_request]

yandex_disk_read[full \in BOOLEAN] == {"range"}
yandex_disk_metainformation == {}
yandex_disk_write_once == {}
yandex_disk == [info |-> yandex_disk_info, stat |-> yandex_disk_metainformation,
                read |-> yandex_disk_read, put |-> yandex_disk_write_once]

\* fs and hdfs: the services whose accessor is also blocking.  Reads seek.
fs_read[full \in BOOLEAN] == {"range"}
fs == [info |-> fs_info, stat |-> {}, read |-> fs_read, put |-> {}]

hdfs_read[full \in BOOLEAN] == {"range"}
hdfs == [info |-> hdfs_info, stat |-> {}, read |-> hdfs_read, put |-> {}]
-----------------------------------------------------------------------------
AllServices ==
    [s3 |-> s3, gcs |-> gcs, azblob |-> azblob, oss |-> oss, cos |-> cos, obs |-> obs,
     b2 |-> b2, upyun |-> upyun, vercel_blob |-> vercel_blob, azdls |-> azdls,
     azfile |-> azfile, http |-> http, supabase |-> supabase, swift |-> swift,
     lakefs |-> lakefs, aliyun_drive |-> aliyun_drive, alluxio |-> alluxio,
     chainsafe |-> chainsafe, dropbox |-> dropbox, gdrive |-> gdrive, ghac |-> ghac,
     github |-> github, huggingface |-> huggingface, icloud |-> icloud, ipfs |-> ipfs,
     ipmfs |-> ipmfs, koofr |-> koofr, onedrive |-> onedrive, pcloud |-> pcloud,
     seafile |-> seafile, vercel_artifacts |-> vercel_artifacts, webdav |-> webdav,
     webhdfs |-> webhdfs, yandex_disk |-> yandex_disk, fs |-> fs, hdfs |-> hdfs]

\* Reads that do not ask the server for the range the caller asked for.
IgnoresRange == {"obs", "icloud", "supabase", "alluxio"}
=============================================================================
