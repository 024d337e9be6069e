---------------------------- MODULE ObjectStore ----------------------------
(***************************************************************************)
(* The two storage backends, and the media handlers that read from them.   *)
(*                                                                         *)
(* On the local disk an operation is several operations on files: a write  *)
(* fills a temporary file, renames it over the object and then writes a    *)
(* sidecar file with its ETag and content type; a multipart upload is a    *)
(* directory of part files.  On S3 a request is atomic, but may fail, or   *)
(* take effect and lose its answer.  The process may end at any moment.    *)
(*                                                                         *)
(* An object is the sequence of its blocks, named by the call that wrote   *)
(* them: its length is its size, and its ETag (length and modification     *)
(* time on the disk) identifies it.                                        *)
(***************************************************************************)
EXTENDS Naturals, FiniteSets, Sequences, SequencesExt

CONSTANTS
  Keys,      \* how many keys there are
  Proc,
  SingleMax, \* S3_SINGLE_COPY_MAX_BYTES, in blocks
  Workloads  \* bound: the calls made together, on which backend, with which
             \* keys, and how many

Key == 1 .. Keys
ReadOp == {"serve", "avatar", "image"}
WriteOp == {"put", "put_file", "copy", "delete", "complete"}
ListOp == {"list", "list_uploads"}
UploadOp == {"create_multipart", "upload_part", "abort"}
PartNo == 1 .. 2
Nothing == <<0>>                          \* no object: blocks are numbered from 1
NoSide == [etag |-> Nothing, of |-> Nothing]
Torn == [etag |-> Nothing, of |-> <<>>]   \* a sidecar that does not parse
NoPart == 0

Whole == [kind |-> "none", a |-> 0, b |-> 0] \* no header
RangeHeader == {Whole} \cup [kind : {"from", "from_to", "last"}, a : Nat, b : Nat]

ASSUME StoreAssumption ==
  /\ Keys \in Nat /\ SingleMax \in Nat
  /\ Workloads \subseteq
       [backend : {"local", "s3"}, ops : SUBSET (ReadOp \cup WriteOp \cup ListOp \cup UploadOp),
        stored : SUBSET Key, keys : SUBSET Key, sizes : SUBSET Nat, ranges : SUBSET RangeHeader,
        calls : Nat, faults : Nat]

VARIABLES
  workload,
  files,     \* the final files, or the bucket
  sides,     \* sidecar files of the local backend
  litter,    \* keys with temporary files or uploads that no call knows any more
  uploads,   \* multipart uploads: directories of part files, or S3's
  calls,     \* calls in flight
  begun,     \* calls begun: the next call's number
  faults,    \* bound: crashes and failed requests
  clean      \* history: what the last write of a key stored, when it ran alone
             \* to an answer and no write of the key has begun since

vars == <<workload, files, sides, litter, uploads, calls, begun, faults, clean>>
disk == <<files, sides, litter, uploads>>

Placeholder == 1
NoReply == [status |-> 0, bytes |-> <<>>, etag |-> Nothing, total |-> 0]
Idle == [op |-> "none", pc |-> "idle", key |-> 0, from |-> 0, id |-> 0,
         data |-> <<>>, tmp |-> Nothing, etag |-> Nothing,     \* writes
         upload |-> 0, part |-> 1, acked |-> <<>>,             \* multipart uploads
         wants |-> <<>>, range |-> Whole, known |-> Nothing,   \* reads
         size |-> 0, span |-> {}, checked |-> FALSE, reply |-> NoReply,
         left |-> {}, listed |-> {}, entry |-> 0,              \* listings
         disturbed |-> {}, again |-> {}, owed |-> {}]           \* history
Local == workload.backend = "local"

Init ==
  /\ workload \in Workloads
  /\ files = [k \in Key |-> IF k \in workload.stored THEN <<k, k>> ELSE Nothing]
  /\ sides = [k \in Key |-> IF k \in workload.stored /\ Local
                              THEN [etag |-> files[k], of |-> files[k]] ELSE NoSide]
  /\ litter = {} /\ uploads = <<>>
  /\ calls = [p \in Proc |-> Idle]
  /\ begun = Keys /\ faults = 0
  /\ clean = files

-----------------------------------------------------------------------------
(* Calls.                                                                  *)

At(p, op, pc) == calls[p].op = op /\ calls[p].pc = pc
In(p, ops, pc) == calls[p].op \in ops /\ calls[p].pc = pc
Unknown == <<0, 0>>

\* The keys of a call that an overlapping call writes disturb it; a write that
\* is not disturbed runs alone.
Touches(c) == CASE c.op \in ReadOp -> ToSet(c.wants) [] c.op = "list" -> Key [] OTHER -> {c.key}
Free(p) == calls[p] = Idle /\ begun - Keys < workload.calls /\ begun' = begun + 1
Begin(p, c) ==
  /\ Free(p) /\ c.op \in workload.ops
  /\ LET writes == c.op \in WriteOp
         written == {calls[w].key : w \in {q \in Proc : calls[q].op \in WriteOp}}
     IN /\ calls' = [q \in Proc |->
             IF q = p THEN [c EXCEPT !.id = begun + 1, !.disturbed = Touches(c) \cap written]
             ELSE IF writes /\ c.key \in Touches(calls[q]) THEN [calls[q] EXCEPT !.disturbed = @ \cup {c.key}]
             ELSE calls[q]]
        /\ clean' = IF writes THEN [clean EXCEPT ![c.key] = Unknown] ELSE clean
  /\ UNCHANGED <<workload, disk, faults>>

\* A read or a listing that has all of its answer.
Done(c) == c.pc = "done" \/ (c.op \in ListOp /\ c.pc = "walk" /\ c.left = {})
Go(p, pc) == calls' = [calls EXCEPT ![p].pc = pc]

\* A write is answered; "stored" is what it has stored.
Answer(p, stored) ==
  /\ calls' = [calls EXCEPT ![p] = Idle]
  /\ clean' = IF calls[p].disturbed = {} THEN [clean EXCEPT ![calls[p].key] = stored] ELSE clean

\* Calls end early and leave their temporary files, or the multipart uploads
\* that they have opened on S3 for themselves.
Owns(p) == calls[p].pc \in {"parts", "abort"} \/ In(p, {"put_file", "copy"}, "assemble")
Leave(P) ==
  litter' = litter \cup {calls[p].key : p \in {q \in P : IF Local THEN calls[q].tmp # Nothing ELSE Owns(q)}}
Fail(p) == calls' = [calls EXCEPT ![p] = Idle] /\ Leave({p})

\* A request of S3 has been carried out: the call goes on, or the answer is
\* lost and it fails.
AnswerLost(p) ==
  faults < workload.faults /\ faults' = faults + 1 /\ calls' = [calls EXCEPT ![p] = Idle]
Goes(p, pc) == (Go(p, pc) /\ UNCHANGED faults) \/ AnswerLost(p)

Crash ==
  /\ faults < workload.faults /\ faults' = faults + 1
  /\ calls' = [p \in Proc |-> Idle] /\ calls' # calls
  /\ Leave(Proc)
  /\ UNCHANGED <<workload, files, sides, uploads, begun, clean>>

-----------------------------------------------------------------------------
(* Writing an object on the local disk: put_object, put_file, copy_object  *)
(* and the completion of a multipart upload.                               *)

First(op) == IF Local THEN IF op = "delete" THEN "remove" ELSE "open"
             ELSE CASE op = "delete" -> "remove" [] op = "copy" -> "stat"
                    [] op = "complete" -> "assemble" [] OTHER -> "send"

BeginPut(p) ==
  \E k \in workload.keys, op \in {"put", "put_file"}, n \in workload.sizes :
    Begin(p, [Idle EXCEPT !.op = op, !.pc = First(op), !.key = k,
                          !.data = [i \in 1 .. n |-> begun + 1]])
BeginCopy(p) ==
  \E k, j \in workload.keys :
    k # j /\ Begin(p, [Idle EXCEPT !.op = "copy", !.pc = First("copy"), !.key = k, !.from = j])

OpenInPlace(p) == \* mutant: the object itself is truncated and filled
  /\ Local /\ In(p, WriteOp \ {"copy"}, "open")
  /\ calls' = [calls EXCEPT ![p].pc = "fill", ![p].tmp = <<>>]
  /\ files' = [files EXCEPT ![calls[p].key] = <<>>]
  /\ UNCHANGED <<workload, sides, litter, uploads, begun, faults, clean>>
\* unique_tmp_path
OpenTmp(p) ==
  /\ Local /\ In(p, WriteOp \ {"copy"}, "open")
  /\ calls' = [calls EXCEPT ![p].pc = "fill", ![p].tmp = <<>>]
  /\ UNCHANGED <<workload, disk, begun, faults, clean>>

Put(op) == op \in {"put", "put_file"}
FillTmp(p) ==
  /\ Local /\ In(p, WriteOp, "fill") /\ Put(calls[p].op)
  /\ LET n == Len(calls[p].tmp)
     IN calls' = IF n = Len(calls[p].data) THEN [calls EXCEPT ![p].pc = "rename"]
                 ELSE [calls EXCEPT ![p].tmp = Append(@, calls[p].data[n + 1])]
  /\ UNCHANGED <<workload, disk, begun, faults, clean>>

\* fs::copy opens the source before it creates the file.
CopyToTmp(p) ==
  /\ Local /\ At(p, "copy", "open")
  /\ IF files[calls[p].from] # Nothing
       THEN /\ calls' = [calls EXCEPT ![p].tmp = files[calls[p].from], ![p].pc = "rename"]
            /\ UNCHANGED litter
       ELSE Fail(p)
  /\ UNCHANGED <<workload, files, sides, uploads, begun, faults, clean>>

Upload(p) == uploads[calls[p].upload]
Stored(p) == Upload(p).parts[calls[p].part]
PartsLeft(p) == calls[p].part <= Len(calls[p].acked)

\* The part file is read for its length and its ETag, and then opened again.
PartIsThere(p) == Stored(p) # NoPart \* mutant: the ETag is not compared
EtagMatches(p) == Stored(p) = calls[p].acked[calls[p].part]
CheckPart(p) ==
  /\ Local /\ At(p, "complete", "fill") /\ PartsLeft(p)
  /\ IF EtagMatches(p) THEN Go(p, "append") /\ UNCHANGED litter ELSE Fail(p)
  /\ UNCHANGED <<workload, files, sides, uploads, begun, faults, clean>>
AppendPart(p) ==
  /\ Local /\ At(p, "complete", "append")
  /\ IF Stored(p) # NoPart
       THEN /\ calls' = [calls EXCEPT ![p].tmp = Append(@, Stored(p)),
                                      ![p].part = @ + 1, ![p].pc = "fill"]
            /\ UNCHANGED litter
       ELSE Fail(p)
  /\ UNCHANGED <<workload, files, sides, uploads, begun, faults, clean>>
DropsParts(p) == \* mutant: the parts are removed before the rename
  /\ Local /\ At(p, "complete", "fill") /\ ~PartsLeft(p) /\ Go(p, "rename")
  /\ uploads' = [uploads EXCEPT ![calls[p].upload].parts = [i \in PartNo |-> NoPart]]
  /\ UNCHANGED <<workload, files, sides, litter, begun, faults, clean>>
Assembled(p) ==
  /\ Local /\ At(p, "complete", "fill") /\ ~PartsLeft(p) /\ Go(p, "rename")
  /\ UNCHANGED <<workload, disk, begun, faults, clean>>

DescribesBefore(p) == \* mutant: the object is described before the rename
  /\ Local /\ In(p, WriteOp, "rename")
  /\ files' = [files EXCEPT ![calls[p].key] = calls[p].tmp]
  /\ uploads' = IF calls[p].op = "complete"
                  THEN [uploads EXCEPT ![calls[p].upload].fate = "assembled"] ELSE uploads
  /\ calls' = [calls EXCEPT ![p].pc = "side", ![p].data = calls[p].tmp, ![p].tmp = Nothing,
                            ![p].etag = files[calls[p].key]]
  /\ UNCHANGED <<workload, sides, litter, begun, faults, clean>>
Rename(p) ==
  /\ Local /\ In(p, WriteOp, "rename")
  /\ files' = [files EXCEPT ![calls[p].key] = calls[p].tmp]
  /\ uploads' = IF calls[p].op = "complete"
                  THEN [uploads EXCEPT ![calls[p].upload].fate = "assembled"] ELSE uploads
  /\ calls' = [calls EXCEPT ![p].pc = "describe", ![p].data = calls[p].tmp, ![p].tmp = Nothing]
  /\ UNCHANGED <<workload, sides, litter, begun, faults, clean>>

\* local_object_etag looks at the file that is there by then.
Describe(p) ==
  /\ Local /\ In(p, WriteOp, "describe")
  /\ LET there == files[calls[p].key]
     IN IF there = Nothing THEN Fail(p)
        ELSE /\ calls' = [calls EXCEPT ![p].etag = there, ![p].pc = "side"]
             /\ UNCHANGED litter
  /\ UNCHANGED <<workload, files, sides, uploads, begun, faults, clean>>

\* fs::write truncates the sidecar and then fills it.
OpenSide(p) ==
  /\ Local /\ In(p, WriteOp, "side") /\ Go(p, "sidefill")
  /\ sides' = [sides EXCEPT ![calls[p].key] = Torn]
  /\ UNCHANGED <<workload, files, litter, uploads, begun, faults, clean>>
Sidecar(p) == [etag |-> calls[p].etag, of |-> calls[p].data]
WriteSide(p) ==
  /\ Local /\ In(p, WriteOp, "sidefill")
  /\ sides' = [sides EXCEPT ![calls[p].key] = Sidecar(p)]
  /\ IF calls[p].op = "complete" THEN Go(p, "drop") /\ UNCHANGED clean
     ELSE Answer(p, calls[p].data)
  /\ UNCHANGED <<workload, files, litter, uploads, begun, faults>>

-----------------------------------------------------------------------------
(* Deletion.                                                               *)

BeginDelete(p) ==
  \E k \in workload.keys : Begin(p, [Idle EXCEPT !.op = "delete", !.pc = "remove", !.key = k])

RemoveFile(p) ==
  /\ Local /\ At(p, "delete", "remove") /\ Go(p, "removeside")
  /\ files' = [files EXCEPT ![calls[p].key] = Nothing]
  /\ UNCHANGED <<workload, sides, litter, uploads, begun, faults, clean>>
\* An error of the sidecar's removal is ignored.
RemoveSide(p) ==
  /\ Local /\ At(p, "delete", "removeside")
  /\ sides' \in {sides, [sides EXCEPT ![calls[p].key] = NoSide]}
  /\ Answer(p, Nothing)
  /\ UNCHANGED <<workload, files, litter, uploads, begun, faults>>

-----------------------------------------------------------------------------
(* Multipart uploads.                                                      *)

Uploads == 1 .. Len(uploads)
Closed(u) == [uploads[u] EXCEPT !.open = FALSE, !.dir = FALSE, !.meta = "none",
                                !.parts = [i \in PartNo |-> NoPart]]
NewUpload(p, id_is_known) ==
  uploads' = Append(uploads, [key |-> calls[p].key, open |-> TRUE, dir |-> Local, fate |-> "open",
                              known |-> id_is_known, meta |-> IF Local THEN "none" ELSE "whole",
                              parts |-> [i \in PartNo |-> NoPart], acks |-> [i \in PartNo |-> {}]])

BeginCreate(p) ==
  \E k \in workload.keys : Begin(p, [Idle EXCEPT !.op = "create_multipart", !.pc = "create", !.key = k])
\* On S3 one request, whose answer with the id may be lost.
CreateUpload(p) ==
  /\ ~Local /\ At(p, "create_multipart", "create")
  /\ calls' = [calls EXCEPT ![p] = Idle]
  /\ \/ NewUpload(p, TRUE) /\ UNCHANGED faults
     \/ NewUpload(p, FALSE) /\ AnswerLost(p)
  /\ UNCHANGED <<workload, files, sides, litter, begun, clean>>
\* On the disk a directory and then upload.json, which fs::write truncates and
\* fills.
MakeDir(p) ==
  /\ Local /\ At(p, "create_multipart", "create")
  /\ NewUpload(p, FALSE)
  /\ calls' = [calls EXCEPT ![p].pc = "open", ![p].upload = Len(uploads) + 1]
  /\ UNCHANGED <<workload, files, sides, litter, begun, faults, clean>>
OpenMeta(p) ==
  /\ At(p, "create_multipart", "open") /\ Go(p, "fill")
  /\ uploads' = [uploads EXCEPT ![calls[p].upload].meta = "torn"]
  /\ UNCHANGED <<workload, files, sides, litter, begun, faults, clean>>
WriteMeta(p) ==
  /\ At(p, "create_multipart", "fill") /\ calls' = [calls EXCEPT ![p] = Idle]
  /\ uploads' = [uploads EXCEPT ![calls[p].upload].meta = "whole", ![calls[p].upload].known = TRUE]
  /\ UNCHANGED <<workload, files, sides, litter, begun, faults, clean>>

BeginPart(p) ==
  \E u \in Uploads, i \in PartNo : uploads[u].known /\
    Begin(p, [Idle EXCEPT !.op = "upload_part", !.pc = IF Local THEN "open" ELSE "send",
                          !.upload = u, !.part = i])

\* create_dir_all brings the directory of a finished upload back.
OpenPart(p) ==
  /\ At(p, "upload_part", "open") /\ Go(p, "rename")
  /\ uploads' = [uploads EXCEPT ![calls[p].upload].dir = TRUE]
  /\ UNCHANGED <<workload, files, sides, litter, begun, faults, clean>>

\* The part is there and its ETag is returned; completions that are reading
\* the parts may see it.
StorePart(p) ==
  /\ \/ At(p, "upload_part", "rename")
     \/ At(p, "upload_part", "send") /\ Upload(p).open
  /\ uploads' = [uploads EXCEPT ![calls[p].upload].parts[calls[p].part] = calls[p].id,
                                ![calls[p].upload].acks[calls[p].part] = @ \cup {calls[p].id}]
  /\ calls' = [q \in Proc |-> IF q = p THEN Idle
                 ELSE IF calls[q].op = "complete" /\ calls[q].upload = calls[p].upload
                        THEN [calls[q] EXCEPT !.again = @ \cup {<<calls[p].part, calls[p].id>>}] ELSE calls[q]]
  /\ UNCHANGED <<workload, files, sides, litter, begun, faults, clean>>
LosePart(p) ==
  /\ \/ At(p, "upload_part", "lost")
     \/ At(p, "upload_part", "send") /\ ~Upload(p).open
  /\ calls' = [calls EXCEPT ![p] = Idle]
  /\ UNCHANGED <<workload, disk, begun, faults, clean>>

\* remove_dir_all takes the temporary files of parts with it.
WithoutDir(u) ==
  [q \in Proc |-> IF At(q, "upload_part", "rename") /\ calls[q].upload = u
                    THEN [calls[q] EXCEPT !.pc = "lost"] ELSE calls[q]]

\* The upload of a session, or one that the orphan sweep has listed and that is
\* older than its grace, so that no call is still creating it.
BeginAbort(p) ==
  \E u \in Uploads :
    (\A q \in Proc : calls[q].op = "create_multipart" => calls[q].upload # u) /\
    Begin(p, [Idle EXCEPT !.op = "abort", !.pc = "remove", !.upload = u])
Abort(p) ==
  /\ At(p, "abort", "remove")
  /\ uploads' = [uploads EXCEPT ![calls[p].upload] =
                   [Closed(calls[p].upload) EXCEPT !.fate = IF @ = "open" THEN "aborted" ELSE @]]
  /\ calls' = [WithoutDir(calls[p].upload) EXCEPT ![p] = Idle]
  /\ UNCHANGED <<workload, files, sides, litter, begun, faults, clean>>

\* The caller passes what the upload of each part has returned, contiguous
\* from part 1 (validate_completed_parts).
BeginComplete(p) ==
  \E u \in Uploads, n \in PartNo : \E ids \in [1 .. n -> 1 .. begun] :
    /\ uploads[u].known
    /\ \A i \in PartNo : IF i <= n THEN ids[i] \in uploads[u].acks[i] ELSE uploads[u].acks[i] = {}
    /\ Begin(p, [Idle EXCEPT !.op = "complete", !.pc = First("complete"), !.upload = u,
                             !.key = uploads[u].key, !.acked = ids, !.data = ids])

DropDir(p) ==
  /\ Local /\ At(p, "complete", "drop")
  /\ uploads' = [uploads EXCEPT ![calls[p].upload] = Closed(calls[p].upload)]
  /\ calls' = [WithoutDir(calls[p].upload) EXCEPT ![p] = Idle]
  /\ clean' = IF calls[p].disturbed = {} THEN [clean EXCEPT ![calls[p].key] = calls[p].data] ELSE clean
  /\ UNCHANGED <<workload, files, sides, litter, begun, faults>>

-----------------------------------------------------------------------------
(* Writing an object on S3.                                                *)

Big(p) == Len(calls[p].data) > SingleMax

\* head_object of the source of a copy.
StatSource(p) ==
  /\ ~Local /\ At(p, "copy", "stat")
  /\ LET source == files[calls[p].from]
     IN calls' = IF source = Nothing THEN [calls EXCEPT ![p] = Idle]
                 ELSE [calls EXCEPT ![p].pc = "send", ![p].data = source]
  /\ UNCHANGED <<workload, disk, begun, faults, clean>>

SendWhole(p) ==
  /\ ~Local /\ In(p, {"put", "put_file"}, "send") /\ (calls[p].op = "put_file" => ~Big(p))
  /\ files' = [files EXCEPT ![calls[p].key] = calls[p].data]
  /\ Goes(p, "head")
  /\ UNCHANGED <<workload, sides, litter, uploads, begun, clean>>

\* CopyObject: the store reads and writes in one step.
CopyWhole(p) ==
  /\ ~Local /\ At(p, "copy", "send") /\ ~Big(p)
  /\ LET source == files[calls[p].from]
     IN IF source = Nothing
          THEN calls' = [calls EXCEPT ![p] = Idle] /\ UNCHANGED <<files, faults>>
          ELSE /\ files' = [files EXCEPT ![calls[p].key] = source]
               /\ \/ calls' = [calls EXCEPT ![p].pc = "head", ![p].data = source] /\ UNCHANGED faults
                  \/ AnswerLost(p)
  /\ UNCHANGED <<workload, sides, litter, uploads, begun, clean>>

\* A multipart upload of the call's own: its parts are sent from the file, or
\* copied from the source one range after the other.
CreateOwn(p) ==
  /\ ~Local /\ In(p, {"put_file", "copy"}, "send") /\ Big(p) /\ Go(p, "parts")
  /\ UNCHANGED <<workload, disk, begun, faults, clean>>
SendParts(p) ==
  /\ ~Local /\ At(p, "put_file", "parts") /\ Go(p, "assemble")
  /\ UNCHANGED <<workload, disk, begun, faults, clean>>
CopyPart(p) ==
  /\ ~Local /\ At(p, "copy", "parts")
  /\ LET i == calls[p].part
         source == files[calls[p].from]
     IN calls' = IF i > Len(calls[p].data) THEN [calls EXCEPT ![p].pc = "assemble"]
                 ELSE IF source = Nothing \/ i > Len(source) THEN [calls EXCEPT ![p].pc = "abort"]
                 ELSE [calls EXCEPT ![p].data[i] = source[i], ![p].part = i + 1]
  /\ UNCHANGED <<workload, disk, begun, faults, clean>>

AssembleOwn(p) ==
  /\ ~Local /\ In(p, {"put_file", "copy"}, "assemble")
  /\ files' = [files EXCEPT ![calls[p].key] = calls[p].data]
  /\ Goes(p, "head")
  /\ UNCHANGED <<workload, sides, litter, uploads, begun, clean>>

Assemble(p) ==
  /\ ~Local /\ At(p, "complete", "assemble") /\ Upload(p).open
  /\ \A i \in DOMAIN calls[p].acked : Upload(p).parts[i] = calls[p].acked[i]
  /\ files' = [files EXCEPT ![calls[p].key] = calls[p].acked]
  /\ uploads' = [uploads EXCEPT ![calls[p].upload] =
                   [Closed(calls[p].upload) EXCEPT !.fate = "assembled"]]
  /\ Goes(p, "head")
  /\ UNCHANGED <<workload, sides, litter, begun, clean>>
AssembleRefused(p) ==
  /\ ~Local /\ At(p, "complete", "assemble")
  /\ ~Upload(p).open \/ \E i \in DOMAIN calls[p].acked : Upload(p).parts[i] # calls[p].acked[i]
  /\ calls' = [calls EXCEPT ![p] = Idle]
  /\ UNCHANGED <<workload, disk, begun, faults, clean>>

RemoveObject(p) ==
  /\ ~Local /\ At(p, "delete", "remove")
  /\ files' = [files EXCEPT ![calls[p].key] = Nothing]
  /\ \/ Answer(p, Nothing) /\ UNCHANGED faults
     \/ AnswerLost(p) /\ UNCHANGED clean
  /\ UNCHANGED <<workload, sides, litter, uploads, begun>>

\* head_object after a write.
HeadWritten(p) ==
  /\ ~Local /\ In(p, WriteOp, "head")
  /\ IF files[calls[p].key] = Nothing THEN calls' = [calls EXCEPT ![p] = Idle] /\ UNCHANGED clean
     ELSE Answer(p, calls[p].data)
  /\ UNCHANGED <<workload, disk, begun, faults>>

AbortOwn(p) ==
  /\ ~Local /\ In(p, {"put_file", "copy"}, "abort")
  /\ calls' = [calls EXCEPT ![p] = Idle]
  /\ UNCHANGED <<workload, disk, begun, faults, clean>>

\* A request fails without effect.  The call's own multipart upload is then
\* aborted, unless it is the completion of a copy that has failed.
Aborts(p) == In(p, {"put_file", "copy"}, "parts") \/ At(p, "put_file", "assemble")
RequestFails(p) ==
  /\ ~Local /\ calls[p] # Idle /\ ~Done(calls[p])
  /\ faults < workload.faults /\ faults' = faults + 1
  /\ IF Aborts(p) THEN Go(p, "abort") /\ UNCHANGED litter
     ELSE Fail(p)
  /\ UNCHANGED <<workload, files, sides, uploads, begun, clean>>

-----------------------------------------------------------------------------
(* Reading.                                                                *)

BeginServe(p) ==
  \E k \in Key, r \in workload.ranges, op \in {"serve", "avatar"} :
  \E cached \in {Nothing, files[k]} :
    /\ r # Whole => cached = Nothing /\ op = "serve"
    /\ Begin(p, [Idle EXCEPT !.op = op, !.pc = "stat", !.key = k, !.wants = <<k>>,
                             !.range = r, !.known = cached])
\* A poster and then the thumbnail, or only the thumbnail.
BeginImage(p) ==
  \E k, j \in Key : \E cached \in {Nothing, files[k], files[j]} :
    Begin(p, [Idle EXCEPT !.op = "image", !.pc = "stat", !.key = k, !.from = j,
                          !.wants = IF k = j THEN <<k>> ELSE <<k, j>>, !.known = cached])

\* parse_range_header: no span stands for an error, and an open one has no end.
Spans(r, size) ==
  {s \in {CASE r.kind = "last" -> [start |-> IF r.a > size THEN 0 ELSE size - r.a, end |-> {size - 1}]
            [] r.kind = "from" -> [start |-> r.a, end |-> {}]
            [] OTHER -> [start |-> r.a, end |-> {r.b}]} :
    s.start < size /\ (\A e \in s.end : s.start <= e) /\ (r.kind = "last" => r.a > 0)}

\* normalize_range: the end is at most the last byte, which an open span means.
EndsUnclamped(s, size) == \* mutant: only an open end is brought to the object's
  {e \in IF s.end = {} THEN {size - 1} ELSE s.end : s.start < size /\ s.start <= e /\ e < size}
Ends(s, size) ==
  {e \in IF \A e \in s.end : e >= size THEN {size - 1} ELSE s.end : s.start < size /\ s.start <= e}

Replied(c, status, bytes) ==
  [c EXCEPT !.pc = "done",
            !.reply = [status |-> status, bytes |-> bytes, etag |-> c.etag, total |-> c.size]]

\* A read that fails: a media answer says so, an image is looked for under
\* its next key and then replaced by the placeholder.
Missed(c, status) ==
  CASE c.op # "image" -> Replied(c, status, <<>>)
    [] c.op = "image" /\ c.key # c.from -> [c EXCEPT !.key = c.from, !.pc = "stat", !.checked = FALSE]
    [] OTHER -> [c EXCEPT !.pc = "done", !.reply.status = Placeholder]

\* The head is known.  The handler asks for it to answer 304 and 416, and the
\* read itself asks again.
Headed(c) ==
  IF c.checked THEN [c EXCEPT !.pc = "fetch"]
  ELSE CASE c.range # Whole /\ Spans(c.range, c.size) = {} -> Replied(c, 416, <<>>)
         [] c.range = Whole /\ c.etag = c.known -> Replied(c, 304, <<>>)
         [] OTHER -> [c EXCEPT !.pc = "stat", !.checked = TRUE,
                               !.span = IF c.range = Whole THEN {} ELSE Spans(c.range, c.size)]

\* head_object: on the disk, the file and then its sidecar.
Stat(p) ==
  /\ In(p, ReadOp, "stat")
  /\ LET there == files[calls[p].key]
         seen == [calls[p] EXCEPT !.size = Len(there), !.etag = there]
     IN calls' = [calls EXCEPT ![p] =
                    CASE there = Nothing -> Missed(@, 404)
                      [] there # Nothing /\ Local -> [seen EXCEPT !.pc = "sidecar"]
                      [] OTHER -> Headed(seen)]
  /\ UNCHANGED <<workload, disk, begun, faults, clean>>
ReadSide(p) ==
  /\ Local /\ In(p, ReadOp, "sidecar")
  /\ LET side == sides[calls[p].key]
     IN calls' = [calls EXCEPT ![p] =
                    CASE side = Torn -> Missed(@, 500)
                      [] side = NoSide -> Headed(@)
                      [] OTHER -> Headed([@ EXCEPT !.etag = side.etag])]
  /\ UNCHANGED <<workload, disk, begun, faults, clean>>

\* get_object_stream: of the file that is opened, or the object that S3
\* answers with, as many bytes are read as the head said.  An avatar is read
\* at once (get_object): on the disk it is an error if it has become shorter.
\* An object that is gone by then is not found on the disk; of a get, S3's
\* NoSuchKey is an error like any other.
Part(bytes, first, last) == SubSeq(bytes, first + 1, IF last < Len(bytes) THEN last + 1 ELSE Len(bytes))
Fetched(c, there) ==
  CASE c.op = "avatar" /\ Local /\ Len(there) < c.size -> Missed(c, 500)
    [] c.op = "avatar" /\ ~Local -> Replied(c, 200, there)
    [] c.range # Whole ->
         LET s == CHOOSE s \in c.span : TRUE
         IN IF Ends(s, c.size) = {} THEN Replied(c, 416, <<>>)
            ELSE IF ~Local /\ s.start >= Len(there) THEN Missed(c, 500)
            ELSE Replied(c, 206, Part(there, s.start, CHOOSE e \in Ends(s, c.size) : TRUE))
    [] OTHER -> Replied(c, 200, Part(there, 0, c.size - 1))
Fetch(p) ==
  /\ In(p, ReadOp, "fetch")
  /\ LET there == files[calls[p].key]
     IN calls' = [calls EXCEPT ![p] = IF there = Nothing THEN Missed(@, IF Local THEN 404 ELSE 500)
                                     ELSE Fetched(@, there)]
  /\ UNCHANGED <<workload, disk, begun, faults, clean>>

-----------------------------------------------------------------------------
(* Listing objects and multipart uploads.  On the disk a directory is read  *)
(* entry by entry, and an entry is looked at after it has been read; S3     *)
(* answers in pages, in the order of the keys.  Of the uploads that begin     *)
(* meanwhile the next one may be listed (bound).                            *)

BeginList(p) ==
  \/ Begin(p, [Idle EXCEPT !.op = "list", !.pc = "walk", !.left = Key])
  \/ Begin(p, [Idle EXCEPT !.op = "list_uploads", !.pc = "walk", !.left = 1 .. Len(uploads) + 1,
                           !.owed = {u \in Uploads : uploads[u].known /\ uploads[u].open}])

Listed(p, entries) == [calls[p] EXCEPT !.listed = @ \cup entries, !.left = @ \ {calls[p].entry},
                                       !.entry = 0, !.pc = "walk"]
ObjectAt(k) == IF files[k] = Nothing THEN {} ELSE {[key |-> k, size |-> Len(files[k])]}
UnknownKey == 0
UploadAt(u) ==
  IF u \notin Uploads \/ (IF Local THEN ~uploads[u].dir ELSE ~uploads[u].open) THEN {}
  ELSE {[upload |-> u, key |-> IF uploads[u].meta = "whole" THEN uploads[u].key ELSE UnknownKey]}
EntryAt(c, i) == IF c.op = "list" THEN ObjectAt(i) ELSE UploadAt(i)

ReadEntry(p) ==
  /\ Local /\ In(p, ListOp, "walk")
  /\ \E i \in calls[p].left :
       calls' = IF EntryAt(calls[p], i) = {} THEN [calls EXCEPT ![p].left = @ \ {i}]
                ELSE [calls EXCEPT ![p].entry = i, ![p].pc = "look"]
  /\ UNCHANGED <<workload, disk, begun, faults, clean>>
\* An entry that is gone by then, or an upload.json that does not parse, fails
\* the whole listing; an upload without one is listed under an unknown key.
LookAtEntry(p) ==
  /\ Local /\ In(p, ListOp, "look")
  /\ LET i == calls[p].entry
         entries == EntryAt(calls[p], i)
     IN calls' = [calls EXCEPT ![p] =
                    IF entries = {} \/ (@.op = "list_uploads" /\ uploads[i].meta = "torn") THEN Idle
                    ELSE Listed(p, entries)]
  /\ UNCHANGED <<workload, disk, begun, faults, clean>>
\* The temporary file of a write is read as an entry and then renamed.
TmpVanishes(p) ==
  /\ Local /\ At(p, "list", "walk") /\ \E q \in Proc : calls[q].tmp # Nothing
  /\ calls' = [calls EXCEPT ![p] = Idle]
  /\ UNCHANGED <<workload, disk, begun, faults, clean>>

\* One page: list_objects_v2 goes on after the last key of the page before.
ListPage(p) ==
  /\ ~Local /\ In(p, ListOp, "walk")
  /\ \E n \in calls[p].left :
       LET page == {i \in calls[p].left : i <= n}
           seen == Listed(p, UNION {EntryAt(calls[p], i) : i \in page})
       IN calls' = [calls EXCEPT ![p] = [seen EXCEPT !.left = @ \ page]]
  /\ UNCHANGED <<workload, disk, begun, faults, clean>>

Deliver(p) ==
  /\ Done(calls[p]) /\ calls' = [calls EXCEPT ![p] = Idle]
  /\ UNCHANGED <<workload, disk, begun, faults, clean>>

-----------------------------------------------------------------------------
Write(p) ==
  \/ BeginPut(p) \/ BeginCopy(p) \/ OpenTmp(p) \/ FillTmp(p) \/ CopyToTmp(p)
  \/ Rename(p) \/ Describe(p) \/ OpenSide(p) \/ WriteSide(p)
  \/ BeginDelete(p) \/ RemoveFile(p) \/ RemoveSide(p)
Multipart(p) ==
  \/ BeginCreate(p) \/ CreateUpload(p) \/ MakeDir(p) \/ OpenMeta(p) \/ WriteMeta(p) \/ BeginPart(p) \/ OpenPart(p) \/ StorePart(p) \/ LosePart(p)
  \/ BeginAbort(p) \/ Abort(p) \/ BeginComplete(p)
  \/ CheckPart(p) \/ AppendPart(p) \/ Assembled(p) \/ DropDir(p)
S3(p) ==
  \/ StatSource(p) \/ SendWhole(p) \/ CopyWhole(p) \/ CreateOwn(p) \/ SendParts(p) \/ CopyPart(p)
  \/ AssembleOwn(p) \/ Assemble(p) \/ AssembleRefused(p) \/ HeadWritten(p) \/ AbortOwn(p)
  \/ RemoveObject(p) \/ RequestFails(p)
Read(p) ==
  \/ BeginServe(p) \/ BeginImage(p) \/ Stat(p) \/ ReadSide(p) \/ Fetch(p) \/ Deliver(p)
List(p) == BeginList(p) \/ ReadEntry(p) \/ LookAtEntry(p) \/ TmpVanishes(p) \/ ListPage(p)
Next == Crash \/ \E p \in Proc : Write(p) \/ Multipart(p) \/ S3(p) \/ Read(p) \/ List(p)

Spec == Init /\ [][Next]_vars

-----------------------------------------------------------------------------
(* What the callers rely on.                                               *)

\* On either backend the files of the store behave like a map that each call
\* changes in one step: whatever a crash interrupts and whichever writes,
\* copies, deletions and completions run together, a key holds nothing or one
\* whole object that some call meant to store.  (put_object, put_file,
\* copy_object, delete_object, complete_multipart_upload.)
Offers(p) ==
  LET c == calls[p]
      whole == c.op \in {"put", "put_file"}
               /\ c.pc \in {"open", "fill", "rename", "send", "parts", "assemble"}
  IN CASE whole \/ At(p, "copy", "assemble") -> {[key |-> c.key, object |-> c.data]}
       [] c.op \in {"copy", "complete"} /\ c.pc = "rename" -> {[key |-> c.key, object |-> c.tmp]}
       [] At(p, "complete", "assemble") -> {[key |-> c.key, object |-> c.acked]}
       [] At(p, "copy", "send") /\ ~Big(p) -> {[key |-> c.key, from |-> c.from]}
       [] At(p, "delete", "remove") -> {[key |-> c.key, object |-> Nothing]}
       [] OTHER -> {}
Map == INSTANCE ObjectMap
         WITH objects <- files, offers <- [p \in Proc |-> Offers(p)],
              Object <- Seq(Nat \ {0})
StoreIsAtomic == Map!Spec

\* A completion publishes the parts that its caller named, in their order and
\* none twice or short, whatever else goes on: on S3 exactly those, and on the
\* disk a part may only be replaced by one that is uploaded again, under the
\* same number, while the completion reads the parts.  A part that was replaced
\* before is refused.  (The ETag check of complete_multipart_upload_inner,
\* lib.rs:392, and the second opening of the part at lib.rs:404.)
CompletionIsExact ==
  [][\A p \in Proc :
       (Rename(p) \/ Assemble(p)) /\ calls[p].op = "complete" =>
         LET acked == calls[p].acked
             published == files'[calls[p].key]
         IN /\ Len(published) = Len(acked)
            /\ \A i \in 1 .. Len(acked) :
                 published[i] = acked[i] \/ (Local /\ <<i, published[i]>> \in calls[p].again)]_vars

\* As long as an upload has been neither assembled nor aborted, every part
\* that was acknowledged is still stored: a completion that fails or crashes
\* can be tried again (docs/03-backend-api-and-upload-protocol.md:109).
PartsOutliveCompletion ==
  \A u \in Uploads, i \in PartNo :
    uploads[u].fate = "open" /\ uploads[u].acks[i] # {} => uploads[u].parts[i] # NoPart

\* Once a write or a deletion has been answered, and until another write of
\* the key begins, the key holds what was answered, and on the disk an
\* object's sidecar says so too, whatever failed, was interrupted or was left
\* behind before.  (put_object, put_file, copy_object, delete_object,
\* complete_multipart_upload, write_sidecar.)
AcknowledgedWritesStick ==
  \A k \in Key :
    clean[k] # Unknown =>
      /\ files[k] = clean[k]
      /\ Local /\ clean[k] # Nothing => sides[k] = [etag |-> clean[k], of |-> clean[k]]

\* What a reader is told of an object that no write touches meanwhile is what
\* its request asked for: the bytes of the range, 206 with the whole size,
\* 416 for a range beyond the end and 304 for the version it has; and an image
\* is the first of its keys that exists.  (parse_range_header, normalize_range,
\* serve_clip_media, serve_clip_image_or_placeholder, serve_user_avatar.)  And
\* a listing leaves nothing out that was there all along, which the sweeps and
\* the files of an account rely on: every object that no write touches
\* meanwhile with its size, no deleted one, and every upload that stays open,
\* under its key.  (list_objects, list_multipart_uploads.)
Wanted(r, size) ==
  {i \in 1 .. size : CASE r.kind = "none" -> TRUE
                       [] r.kind = "from" -> i > r.a
                       [] r.kind = "from_to" -> i > r.a /\ i - 1 <= r.b
                       [] r.kind = "last" -> size < i + r.a}
Bytes(object, r) == LET wanted == Wanted(r, Len(object))
                    IN [i \in 1 .. Cardinality(wanted) |->
                          object[CHOOSE j \in wanted : Cardinality({l \in wanted : l <= j}) = i]]
Answered(reply, object, r, known) ==
  CASE object = Nothing -> reply.status = 404
    [] object # Nothing /\ r = Whole /\ known = object -> reply.status = 304
    [] object # Nothing /\ r # Whole /\ Bytes(object, r) = <<>> -> reply.status = 416
    [] OTHER -> reply = [status |-> IF r = Whole THEN 200 ELSE 206, bytes |-> Bytes(object, r),
                         etag |-> object, total |-> Len(object)]
ReadIsSound(c) ==
  c.op \in ReadOp /\ c.pc = "done" /\ c.disturbed = {} /\ (\A k \in ToSet(c.wants) : clean[k] # Unknown) =>
    LET there == {i \in DOMAIN c.wants : clean[c.wants[i]] # Nothing}
        first == CHOOSE i \in there : \A j \in there : i <= j
    IN IF c.op = "image" /\ there = {} THEN c.reply.status = Placeholder
       ELSE Answered(c.reply, clean[IF there = {} THEN c.key ELSE c.wants[first]], c.range, c.known)
ListIsSound(c) ==
  c.op \in ListOp /\ Done(c) =>
    /\ c.op = "list" =>
         \A k \in Key \ c.disturbed :
           clean[k] # Unknown =>
             {e \in c.listed : e.key = k} =
               IF clean[k] = Nothing THEN {} ELSE {[key |-> k, size |-> Len(clean[k])]}
    /\ \A u \in c.owed : uploads[u].open => [upload |-> u, key |-> uploads[u].key] \in c.listed
ReadsAreSound == \A p \in Proc : ReadIsSound(calls[p]) /\ ListIsSound(calls[p])
=============================================================================
