----------------------------- MODULE LocalReader -----------------------------
(***************************************************************************)
(* The readers of the file systems (fs, hdfs, sftp, ftp, compfs and        *)
(* monoiofs, async and blocking) under CompleteReader.  One reader reads a *)
(* range in buffers; reads may be short, and the file may be cut or grow   *)
(* between two of them.  A byte is represented by its position.            *)
(***************************************************************************)
EXTENDS Integers, Sequences

CONSTANTS
    Names,      \* the services read
    MaxLen,     \* bound on the length of the file
    BufSize,    \* bytes one read asks for at most
    MaxChanges  \* bound on the changes of the file

LocalReaderAssumption ==
    /\ Names \subseteq {"fs", "fs_blocking", "hdfs", "hdfs_blocking", "sftp", "ftp",
                       "compfs", "monoiofs"}
    /\ MaxLen \in Nat /\ BufSize \in Nat \ {0} /\ MaxChanges \in Nat

VARIABLES
    service,    \* the service
    len,        \* length of the file
    changes,    \* how often it changed
    offset,     \* the range: first byte
    size,       \* and number of bytes, -1 when it is open
    read,       \* bytes the reader has counted
    got,        \* positions of the bytes delivered
    pc          \* "reading", "ok" or "failed"

vars == <<service, len, changes, offset, size, read, got, pc>>

None == -1
Least(a, b) == IF a < b THEN a ELSE b
Stop == [at |-> 0, most |-> 0]
-----------------------------------------------------------------------------
(* Where the next read starts and how many bytes it asks for; Stop returns  *)
(* an empty buffer.  fs and hdfs turn an open range into u64::MAX bytes.    *)
Limit == IF size = None THEN MaxLen + BufSize ELSE size

FsReaderMutant == IF read > Limit THEN Stop
                  ELSE [at |-> offset + read, most |-> Least(Limit - read + 1, BufSize)]
FsReader == IF read >= Limit THEN Stop
            ELSE [at |-> offset + read, most |-> Least(Limit - read, BufSize)]
FsBlockingReader == FsReader
HdfsReader == IF read >= Limit THEN Stop
              ELSE [at |-> offset + read, most |-> Least(Limit - read, BufSize)]
HdfsBlockingReader == HdfsReader
SftpReaderMutant == IF size # None /\ read + BufSize > size THEN Stop
                    ELSE [at |-> offset + read,
                          most |-> IF size # None THEN Least(size - read, BufSize) ELSE BufSize]
SftpReader == IF size # None /\ read >= size THEN Stop
              ELSE [at |-> offset + read,
                    most |-> IF size # None THEN Least(size - read, BufSize) ELSE BufSize]
\* resume_transfer(offset), then the stream is cut with take(size).
FtpReader == [at |-> offset + read, most |-> Least(Limit - read, BufSize)]
\* if end >= pos the reader is done; a read is not limited by the end.
CompfsReader == IF size # None /\ offset + size >= offset + read THEN Stop
                ELSE [at |-> offset + read, most |-> BufSize]
MonoiofsReader == IF size # None /\ read >= size THEN Stop
                  ELSE [at |-> offset + read,
                        most |-> IF size = None THEN BufSize ELSE size - read]

Reader(s) == CASE s = "fs" -> FsReader             [] s = "fs_blocking" -> FsBlockingReader
               [] s = "hdfs" -> HdfsReader         [] s = "hdfs_blocking" -> HdfsBlockingReader
               [] s = "sftp" -> SftpReader         [] s = "ftp" -> FtpReader
               [] s = "compfs" -> CompfsReader     [] s = "monoiofs" -> MonoiofsReader
-----------------------------------------------------------------------------
Init ==
    /\ service \in Names
    /\ len \in 0..MaxLen
    /\ changes = 0
    /\ offset \in 0..MaxLen
    /\ size \in {None} \cup 1..MaxLen
    /\ read = 0
    /\ got = <<>>
    /\ pc = "reading"

\* Some bytes arrive, possibly fewer than asked for.
ReadSome(n) ==
    /\ pc = "reading"
    /\ Reader(service).at + n <= len
    /\ n <= Reader(service).most
    /\ got' = got \o [i \in 1..n |-> Reader(service).at + i - 1]
    /\ read' = read + n
    /\ UNCHANGED <<service, len, changes, offset, size, pc>>

CompleteCheckMutant == size = None \/ read >= size \/ read = 0
\* CompleteReader::check, when the inner reader returns nothing.
CompleteCheck == size = None \/ read = size

ReadEmptyMutant ==
    /\ pc = "reading"
    /\ Reader(service).most = 0 \/ Reader(service).at > len
    /\ pc' = IF CompleteCheck THEN "ok" ELSE "failed"
    /\ UNCHANGED <<service, len, changes, offset, size, read, got>>

\* The end of the file, or the reader has enough: an empty buffer.
ReadEmpty ==
    /\ pc = "reading"
    /\ Reader(service).most = 0 \/ Reader(service).at >= len
    /\ pc' = IF CompleteCheck THEN "ok" ELSE "failed"
    /\ UNCHANGED <<service, len, changes, offset, size, read, got>>

\* Another process cuts the file or appends to it.
Change(n) ==
    /\ pc = "reading" /\ changes < MaxChanges
    /\ n # len
    /\ len' = n
    /\ changes' = changes + 1
    /\ UNCHANGED <<service, offset, size, read, got, pc>>

Next == \/ \E n \in 1..MaxLen + BufSize : ReadSome(n)
        \/ ReadEmpty
        \/ \E n \in 0..MaxLen : Change(n)

ReadRuns == (\E n \in 1..MaxLen + BufSize : ReadSome(n)) \/ ReadEmpty

Spec == Init /\ [][Next]_vars /\ WF_vars(ReadRuns)
-----------------------------------------------------------------------------
\* What is delivered is a prefix of the range: bytes from the offset on, in
\* order, none twice, none left out, none behind the end of the range, even
\* when reads are short and the file changes (the reader's counters).
PrefixOfRange ==
    /\ \A i \in 1..Len(got) : got[i] = offset + i - 1
    /\ size # None => Len(got) <= size

\* A read of a bounded range that succeeds has delivered all of it, whatever
\* happened to the file (CompleteReader::check).
WholeOrError == pc = "ok" /\ size # None => Len(got) = size

\* A reader of a file that does not change and has the range delivers it.
RangeDelivered ==
    pc # "reading" /\ changes = 0 /\ offset <= len /\ size <= len - offset =>
        /\ pc = "ok"
        /\ Len(got) = IF size = None THEN len - offset ELSE size
ReadSucceeds == service # "compfs" => RangeDelivered

\* A read is going on.  It ends.
Reading == pc = "reading"
=============================================================================
