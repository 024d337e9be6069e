-------------------------- MODULE ObjectStoreProofs --------------------------
(***************************************************************************)
(* Proofs about ObjectStore, for every number of keys and of callers, and  *)
(* every workload: that the store implements ObjectMap, that completions   *)
(* publish what they were asked to and keep the parts until they have,     *)
(* that an answered write is what the key holds, and that reads and        *)
(* listings which no write touches are told what is there.                 *)
(*                                                                         *)
(* Most steps move one call and nothing else (Private); the others change  *)
(* the files, the sidecars or the uploads as well, or begin a call.        *)
(***************************************************************************)
EXTENDS ObjectStore, SequenceTheorems, FiniteSetTheorems, TLAPS

Fields == {"op", "pc", "key", "from", "id", "data", "tmp", "etag", "upload", "part", "acked",
           "wants", "range", "known", "size", "span", "checked", "reply", "left", "listed",
           "entry", "disturbed", "again", "owed"}

Obj == Seq(Nat \ {0})
File == Obj \cup {Nothing}

UploadRow == [key : Key, open : BOOLEAN, dir : BOOLEAN, fate : {"open", "assembled", "aborted"},
              known : BOOLEAN, meta : {"none", "torn", "whole"},
              parts : [PartNo -> Nat], acks : [PartNo -> SUBSET Nat]]

Types ==
  /\ workload \in Workloads /\ begun \in Nat
  /\ files \in [Key -> File] /\ uploads \in Seq(UploadRow)
  /\ DOMAIN sides = Key /\ DOMAIN clean = Key /\ DOMAIN calls = Proc

-----------------------------------------------------------------------------
(* What a call has in hand.                                                 *)

(* A write of given bytes has written some of them, and renames them all.   *)
PutOK(c) ==
  c.op \in {"put", "put_file"} =>
    /\ c.key \in Key /\ c.data \in Obj
    /\ c.pc = "fill" => /\ c.tmp \in Obj /\ Len(c.tmp) <= Len(c.data)
                        /\ \A i \in 1 .. Len(c.tmp) : c.tmp[i] = c.data[i]
    /\ c.pc = "rename" => c.tmp = c.data

CopyOK(c) ==
  c.op = "copy" => /\ c.key \in Key /\ c.from \in Key /\ c.data \in Obj /\ c.part \in Nat \ {0}
                   /\ c.pc = "rename" => c.tmp \in Obj

CompleteOK(c) ==
  c.op = "complete" =>
    /\ c.key \in Key /\ c.upload \in Uploads /\ c.acked \in Obj /\ c.data \in Obj
    /\ c.part \in Nat \ {0} /\ Len(c.acked) \in PartNo
    /\ c.pc = "open" => c.part = 1
    /\ c.pc = "append" => c.part <= Len(c.acked)
    /\ c.pc \in {"fill", "append", "rename"} => c.tmp \in Obj
    /\ c.pc = "assemble" => c.data = c.acked

DeleteOK(c) == c.op = "delete" => c.key \in Key /\ c.pc \in {"remove", "removeside"}

UploadOK(c) ==
  /\ c.op = "upload_part" => c.id \in Nat \ {0} /\ c.upload \in Uploads /\ c.part \in PartNo
  /\ c.op = "create_multipart" => c.key \in Key /\ (c.pc \in {"open", "fill"} => c.upload \in Uploads)
  /\ c.op = "abort" => c.upload \in Uploads

(* The upload of a completion that has renamed is assembled.                *)
FateOK(c) ==
  c.op = "complete" /\ c.pc \in {"describe", "side", "sidefill", "drop"} =>
    uploads[c.upload].fate # "open"

(* A completion has appended the parts its caller named, and finds the next *)
(* one or none, but for those that were uploaded again meanwhile.           *)
Named(c, i, body) == body = c.acked[i] \/ <<i, body>> \in c.again
ExactOK(c) ==
  c.op = "complete" /\ c.pc \in {"fill", "append", "rename"} =>
    /\ c.part <= Len(c.acked) + 1 /\ Len(c.tmp) + 1 = c.part
    /\ \A i \in 1 .. Len(c.tmp) : Named(c, i, c.tmp[i])
    /\ c.pc = "append" => LET there == uploads[c.upload].parts[c.part]
                          IN there = NoPart \/ Named(c, c.part, there)
    /\ c.pc = "rename" => c.part = Len(c.acked) + 1

(* A write that nothing has disturbed finds what it has done.               *)
AloneOK(c) ==
  c.op \in WriteOp /\ c.disturbed = {} =>
    /\ c.pc \in {"describe", "side", "sidefill", "drop", "head"} => files[c.key] = c.data
    /\ c.pc \in {"side", "sidefill"} => c.etag = c.data
    /\ c.pc = "drop" => sides[c.key] = [etag |-> c.data, of |-> c.data]
    /\ c.pc = "removeside" => files[c.key] = Nothing

RowInv(c) ==
  /\ DOMAIN c = Fields
  /\ PutOK(c) /\ CopyOK(c) /\ CompleteOK(c) /\ DeleteOK(c) /\ UploadOK(c)
  /\ FateOK(c) /\ ExactOK(c) /\ AloneOK(c)

(* Of two writes of a key both are disturbed, and nothing is known of it.   *)
WritesCross ==
  /\ \A p, q \in Proc : /\ p # q /\ calls[p].op \in WriteOp /\ calls[q].op \in WriteOp
                        /\ calls[p].key = calls[q].key
                        => calls[p].disturbed # {}
  /\ \A p \in Proc : calls[p].op \in WriteOp => clean[calls[p].key] = Unknown

(* S3 has no sidecar files.                                                 *)
OnlyTheDisk == ~Local => \A k \in Key : sides[k] = NoSide

IInv ==
  /\ Types /\ \A p \in Proc : RowInv(calls[p])
  /\ PartsOutliveCompletion /\ WritesCross /\ OnlyTheDisk /\ AcknowledgedWritesStick

-----------------------------------------------------------------------------
(* Rows.                                                                    *)

LEMMA IdleRow ==
  /\ DOMAIN Idle = Fields
  /\ Idle.op = "none" /\ Idle.pc = "idle" /\ Idle.tmp = Nothing /\ Idle.part = 1
  /\ RowInv(Idle)
<1>1. DOMAIN Idle = Fields /\ Idle.op = "none" /\ Idle.pc = "idle" /\ Idle.tmp = Nothing
      /\ Idle.part = 1
  BY DEF Idle, Fields
<1> QED BY <1>1 DEF RowInv, PutOK, CopyOK, CompleteOK, DeleteOK, UploadOK, FateOK, ExactOK, AloneOK, WriteOp

(* A call at its next step has what it had.                                 *)
LEMMA AtStep ==
  ASSUME NEW c, DOMAIN c = Fields, NEW v
  PROVE  LET r == [c EXCEPT !.pc = v] IN
         /\ DOMAIN r = Fields /\ r.pc = v
         /\ r.op = c.op /\ r.key = c.key /\ r.from = c.from /\ r.id = c.id /\ r.data = c.data
         /\ r.tmp = c.tmp /\ r.etag = c.etag /\ r.upload = c.upload /\ r.part = c.part
         /\ r.acked = c.acked /\ r.disturbed = c.disturbed /\ r.again = c.again
BY DEF Fields

(* One call moves and nothing else changes.                                 *)
LEMMA Private ==
  ASSUME IInv, NEW p \in Proc, NEW r, RowInv(r), calls' = [calls EXCEPT ![p] = r],
         UNCHANGED <<workload, files, sides, uploads, clean>>, begun' \in Nat,
         r.op \in WriteOp => /\ calls[p].op \in WriteOp /\ r.key = calls[p].key
                             /\ r.disturbed = calls[p].disturbed
  PROVE  IInv'
<1>1. calls'[p] = r /\ \A q \in Proc \ {p} : calls'[q] = calls[q]
  BY DEF IInv, Types
<1>2. Types'
  BY DEF IInv, Types
<1>3. ASSUME NEW q \in Proc PROVE RowInv(calls[q])'
  <2>1. ASSUME NEW c, RowInv(c), c = calls'[q] PROVE RowInv(calls[q])'
    BY <2>1 DEF RowInv, PutOK, CopyOK, CompleteOK, DeleteOK, UploadOK, FateOK, ExactOK, AloneOK, Uploads
  <2>2. CASE q = p
    BY <1>1, <2>1, <2>2
  <2>3. CASE q # p
    <3>1. RowInv(calls[q]) /\ calls[q] = calls'[q]
      BY <1>1, <2>3 DEF IInv
    <3> DEFINE c == calls[q]
    <3> HIDE DEF c
    <3>2. RowInv(c) /\ c = calls'[q]
      BY <3>1 DEF c
    <3> QED BY <2>1, <3>2
  <2> QED BY <2>2, <2>3
<1>4. PartsOutliveCompletion' /\ OnlyTheDisk' /\ AcknowledgedWritesStick'
  BY DEF IInv, PartsOutliveCompletion, OnlyTheDisk, AcknowledgedWritesStick, Uploads, Local
<1>5. WritesCross'
  <2>1. \A q \in Proc : calls'[q].op \in WriteOp =>
          /\ calls[q].op \in WriteOp /\ calls'[q].key = calls[q].key
          /\ calls'[q].disturbed = calls[q].disturbed
    BY <1>1
  <2> QED BY <2>1 DEF IInv, WritesCross
<1> QED BY <1>2, <1>3, <1>4, <1>5 DEF IInv

-----------------------------------------------------------------------------
(* The map that the store implements.                                       *)

(* What a call may still store, read off its row.                           *)
OfferOf(c) ==
  LET whole == c.op \in {"put", "put_file"}
               /\ c.pc \in {"open", "fill", "rename", "send", "parts", "assemble"}
  IN CASE whole \/ (c.op = "copy" /\ c.pc = "assemble") -> {[key |-> c.key, object |-> c.data]}
       [] c.op \in {"copy", "complete"} /\ c.pc = "rename" -> {[key |-> c.key, object |-> c.tmp]}
       [] c.op = "complete" /\ c.pc = "assemble" -> {[key |-> c.key, object |-> c.acked]}
       [] c.op = "copy" /\ c.pc = "send" /\ ~(Len(c.data) > SingleMax) -> {[key |-> c.key, from |-> c.from]}
       [] c.op = "delete" /\ c.pc = "remove" -> {[key |-> c.key, object |-> Nothing]}
       [] OTHER -> {}

OfferMap == [p \in Proc |-> Offers(p)]

(* A step of the map, or none.                                              *)
Atomic == Map!Next \/ UNCHANGED <<files, OfferMap>>

LEMMA OffersAfter ==
  /\ OfferMap' = [p \in Proc |-> OfferOf(calls'[p])]
  /\ OfferMap = [p \in Proc |-> OfferOf(calls[p])]
BY DEF Offers, OfferOf, OfferMap, At, Big

(* A call that offers nothing now or as before changes nothing.             *)
LEMMA Quiet ==
  ASSUME NEW p \in Proc, UNCHANGED files,
         \A q \in Proc \ {p} : OfferOf(calls'[q]) = OfferOf(calls[q]),
         OfferOf(calls'[p]) = OfferOf(calls[p]) \/ OfferOf(calls'[p]) = {}
  PROVE  Atomic
<1>1. CASE OfferOf(calls'[p]) = OfferOf(calls[p])
  BY <1>1, OffersAfter DEF Atomic
<1>2. CASE OfferOf(calls'[p]) = {}
  <2>1. OfferMap' = [q \in Proc |-> IF q \in {p} THEN {} ELSE OfferMap[q]]
    BY <1>2, OffersAfter
  <2>2. Map!Withdraw({p})
    BY <2>1 DEF Map!Withdraw, OfferMap
  <2> QED BY <2>2 DEF Atomic, Map!Next
<1> QED BY <1>1, <1>2

(* A call learns what it will store.                                        *)
LEMMA Asking ==
  ASSUME NEW p \in Proc, UNCHANGED files,
         \A q \in Proc \ {p} : OfferOf(calls'[q]) = OfferOf(calls[q]),
         OfferOf(calls[p]) = {},
         \E o : /\ OfferOf(calls'[p]) = {o}
                /\ \/ o \in [key : Key, object : File]
                   \/ o \in [key : Key, from : Key]
  PROVE  Atomic
<1>1. PICK o : /\ OfferOf(calls'[p]) = {o}
               /\ \/ o \in [key : Key, object : File]
                  \/ o \in [key : Key, from : Key]
  OBVIOUS
<1>2. o \in Map!Offer
  BY <1>1, Zenon DEF Map!Offer, File, Obj
<1>3. OfferMap' = [OfferMap EXCEPT ![p] = {o}] /\ OfferMap'[p] = {o} /\ OfferMap[p] = {}
  BY <1>1, OffersAfter
<1>4. Map!Ask(p)
  BY <1>2, <1>3 DEF Map!Ask, OfferMap
<1> QED BY <1>4 DEF Atomic, Map!Next

(* A call stores what it has offered ...                                    *)
LEMMA Publishing ==
  ASSUME NEW p \in Proc, NEW k \in Key, NEW b,
         \A q \in Proc \ {p} : OfferOf(calls'[q]) = OfferOf(calls[q]),
         OfferOf(calls[p]) = {[key |-> k, object |-> b]}, OfferOf(calls'[p]) = {},
         files' = [files EXCEPT ![k] = b]
  PROVE  Atomic
<1> DEFINE o == [key |-> k, object |-> b]
<1>1. "from" \notin DOMAIN o
  BY Zenon
<1>2. o.key = k /\ o.object = b
  OBVIOUS
<1>3. o \in OfferMap[p] /\ OfferMap' = [OfferMap EXCEPT ![p] = {}]
  BY OffersAfter
<1> HIDE DEF o
<1>4. Map!Publish(p)
  BY <1>1, <1>2, <1>3 DEF Map!Publish, OfferMap
<1> QED BY <1>4 DEF Atomic, Map!Next

(* ... or what another key holds by then.                                   *)
LEMMA PublishingCopy ==
  ASSUME NEW p \in Proc, NEW k \in Key, NEW f \in Key,
         \A q \in Proc \ {p} : OfferOf(calls'[q]) = OfferOf(calls[q]),
         OfferOf(calls[p]) = {[key |-> k, from |-> f]}, OfferOf(calls'[p]) = {},
         files[f] # Nothing, files' = [files EXCEPT ![k] = files[f]]
  PROVE  Atomic
<1> DEFINE o == [key |-> k, from |-> f]
<1>1. "from" \in DOMAIN o
  BY Zenon
<1>2. o.key = k /\ o.from = f
  OBVIOUS
<1>3. o \in OfferMap[p] /\ OfferMap' = [OfferMap EXCEPT ![p] = {}]
  BY OffersAfter
<1> HIDE DEF o
<1>4. Map!Publish(p)
  BY <1>1, <1>2, <1>3 DEF Map!Publish, OfferMap
<1> QED BY <1>4 DEF Atomic, Map!Next

(* Calls that write nothing offer nothing.                                  *)
LEMMA NoOffer ==
  ASSUME NEW c, c.op \notin WriteOp
  PROVE  OfferOf(c) = {}
BY DEF OfferOf, WriteOp

(* A private step of a call, as the map sees it.                            *)
LEMMA PrivateQuiet ==
  ASSUME IInv, NEW p \in Proc, NEW r, RowInv(r), calls' = [calls EXCEPT ![p] = r],
         UNCHANGED <<workload, files, sides, uploads, clean>>, begun' \in Nat,
         r.op \in WriteOp => /\ calls[p].op \in WriteOp /\ r.key = calls[p].key
                             /\ r.disturbed = calls[p].disturbed,
         OfferOf(r) = OfferOf(calls[p]) \/ OfferOf(r) = {}
  PROVE  IInv' /\ Atomic
<1>1. calls'[p] = r /\ \A q \in Proc \ {p} : calls'[q] = calls[q]
  BY DEF IInv, Types
<1>2. OfferOf(calls'[p]) = OfferOf(calls[p]) \/ OfferOf(calls'[p]) = {}
  BY <1>1
<1>3. \A q \in Proc \ {p} : OfferOf(calls'[q]) = OfferOf(calls[q])
  BY <1>1
<1> QED BY <1>2, <1>3, Private, Quiet

-----------------------------------------------------------------------------
(* Calls that end, and reads and listings.                                  *)

LEMMA Ending ==
  ASSUME IInv, NEW p \in Proc, calls' = [calls EXCEPT ![p] = Idle],
         UNCHANGED <<workload, files, sides, uploads, clean, begun>>
  PROVE  IInv' /\ Atomic
<1>1. begun' \in Nat /\ Idle.op \notin WriteOp
  BY IdleRow DEF IInv, Types, WriteOp
<1>2. OfferOf(Idle) = {}
  BY <1>1, NoOffer
<1> QED BY <1>1, <1>2, IdleRow, PrivateQuiet

LEMMA ReaderRow ==
  ASSUME NEW c, DOMAIN c = Fields, c.op \in ReadOp \cup ListOp
  PROVE  RowInv(c) /\ c.op \notin WriteOp
BY DEF RowInv, PutOK, CopyOK, CompleteOK, DeleteOK, UploadOK, FateOK, ExactOK, AloneOK, WriteOp,
       ReadOp, ListOp

LEMMA Reading ==
  ASSUME IInv, NEW p \in Proc, NEW r, DOMAIN r = Fields, r.op = calls[p].op,
         calls[p].op \in ReadOp \cup ListOp, calls' = [calls EXCEPT ![p] = r],
         UNCHANGED <<workload, disk, begun, faults, clean>>
  PROVE  IInv' /\ Atomic
<1>1. RowInv(r) /\ r.op \notin WriteOp /\ OfferOf(r) = {}
  BY ReaderRow, NoOffer
<1>2. begun' \in Nat
  BY DEF IInv, Types
<1> QED BY <1>1, <1>2, PrivateQuiet DEF disk

(* What reads make of a row.                                                *)
LEMMA RepliedRow ==
  ASSUME NEW c, DOMAIN c = Fields, NEW s, NEW b
  PROVE  DOMAIN Replied(c, s, b) = Fields /\ Replied(c, s, b).op = c.op
BY DEF Replied, Fields

LEMMA MissedRow ==
  ASSUME NEW c, DOMAIN c = Fields, NEW s
  PROVE  DOMAIN Missed(c, s) = Fields /\ Missed(c, s).op = c.op
<1>1. DOMAIN [c EXCEPT !.key = c.from, !.pc = "stat", !.checked = FALSE] = Fields
      /\ [c EXCEPT !.key = c.from, !.pc = "stat", !.checked = FALSE].op = c.op
  BY DEF Fields
<1>2. DOMAIN [c EXCEPT !.pc = "done", !.reply.status = Placeholder] = Fields
      /\ [c EXCEPT !.pc = "done", !.reply.status = Placeholder].op = c.op
  BY DEF Fields
<1> QED BY <1>1, <1>2, RepliedRow DEF Missed

LEMMA HeadedRow ==
  ASSUME NEW c, DOMAIN c = Fields
  PROVE  DOMAIN Headed(c) = Fields /\ Headed(c).op = c.op
<1>1. DOMAIN [c EXCEPT !.pc = "fetch"] = Fields /\ [c EXCEPT !.pc = "fetch"].op = c.op
  BY DEF Fields
<1>2. ASSUME NEW s
      PROVE  DOMAIN [c EXCEPT !.pc = "stat", !.checked = TRUE, !.span = s] = Fields
             /\ [c EXCEPT !.pc = "stat", !.checked = TRUE, !.span = s].op = c.op
  BY DEF Fields
<1> QED BY <1>1, <1>2, RepliedRow DEF Headed

LEMMA FetchedRow ==
  ASSUME NEW c, DOMAIN c = Fields, NEW there
  PROVE  DOMAIN Fetched(c, there) = Fields /\ Fetched(c, there).op = c.op
<1>1. \A s, b : DOMAIN Replied(c, s, b) = Fields /\ Replied(c, s, b).op = c.op
  BY RepliedRow
<1>2. \A s : DOMAIN Missed(c, s) = Fields /\ Missed(c, s).op = c.op
  BY MissedRow
<1> QED BY <1>1, <1>2 DEF Fetched

LEMMA Reads ==
  ASSUME IInv, NEW p \in Proc,
         Stat(p) \/ ReadSide(p) \/ Fetch(p)
  PROVE  IInv' /\ Atomic
<1> DEFINE c == calls[p]
<1>1. DOMAIN c = Fields /\ c.op \in ReadOp
  BY DEF IInv, RowInv, Stat, ReadSide, Fetch, In
<1>2. UNCHANGED <<workload, disk, begun, faults, clean>>
  BY DEF Stat, ReadSide, Fetch
<1>3. ASSUME NEW s, NEW e
      PROVE  /\ DOMAIN [c EXCEPT !.size = s, !.etag = e] = Fields /\ [c EXCEPT !.size = s, !.etag = e].op = c.op
             /\ DOMAIN [c EXCEPT !.etag = e] = Fields /\ [c EXCEPT !.etag = e].op = c.op
             /\ DOMAIN [[c EXCEPT !.size = s, !.etag = e] EXCEPT !.pc = "sidecar"] = Fields
             /\ [[c EXCEPT !.size = s, !.etag = e] EXCEPT !.pc = "sidecar"].op = c.op
  BY <1>1 DEF Fields
<1>4. \E r : calls' = [calls EXCEPT ![p] = r] /\ DOMAIN r = Fields /\ r.op = c.op
  <2>1. CASE Stat(p)
    <3> DEFINE there == files[c.key]
               seen == [c EXCEPT !.size = Len(there), !.etag = there]
               r == CASE there = Nothing -> Missed(c, 404)
                      [] Local -> [seen EXCEPT !.pc = "sidecar"]
                      [] OTHER -> Headed(seen)
    <3>1. calls' = [calls EXCEPT ![p] = r]
      BY <2>1 DEF Stat
    <3>2. DOMAIN seen = Fields /\ seen.op = c.op /\ DOMAIN [seen EXCEPT !.pc = "sidecar"] = Fields
          /\ [seen EXCEPT !.pc = "sidecar"].op = c.op
      BY <1>3
    <3>3. DOMAIN Missed(c, 404) = Fields /\ Missed(c, 404).op = c.op
      BY <1>1, MissedRow
    <3> HIDE DEF c, seen
    <3>4. DOMAIN Headed(seen) = Fields /\ Headed(seen).op = c.op
      BY <3>2, HeadedRow
    <3>5. DOMAIN r = Fields /\ r.op = c.op
      BY <3>2, <3>3, <3>4
    <3> QED BY <3>1, <3>5
  <2>2. CASE ReadSide(p)
    <3> DEFINE side == sides[c.key]
               seen == [c EXCEPT !.etag = side.etag]
               r == CASE side = Torn -> Missed(c, 500)
                      [] side = NoSide -> Headed(c)
                      [] OTHER -> Headed(seen)
    <3>1. calls' = [calls EXCEPT ![p] = r]
      BY <2>2 DEF ReadSide
    <3>2. DOMAIN seen = Fields /\ seen.op = c.op
      BY <1>3
    <3>3. DOMAIN Missed(c, 500) = Fields /\ Missed(c, 500).op = c.op
      BY <1>1, MissedRow
    <3> HIDE DEF c, seen
    <3>4. /\ DOMAIN Headed(seen) = Fields /\ Headed(seen).op = c.op
          /\ DOMAIN Headed(c) = Fields /\ Headed(c).op = c.op
      BY <1>1, <3>2, HeadedRow
    <3>5. DOMAIN r = Fields /\ r.op = c.op
      BY <3>3, <3>4
    <3> QED BY <3>1, <3>5
  <2>3. CASE Fetch(p)
    <3> DEFINE there == files[c.key]
               s == IF Local THEN 404 ELSE 500
               r == IF there = Nothing THEN Missed(c, s) ELSE Fetched(c, there)
    <3>1. calls' = [calls EXCEPT ![p] = r]
      BY <2>3 DEF Fetch
    <3>2. DOMAIN Missed(c, s) = Fields /\ Missed(c, s).op = c.op
      BY <1>1, MissedRow
    <3> HIDE DEF c
    <3>3. DOMAIN Fetched(c, there) = Fields /\ Fetched(c, there).op = c.op
      BY <1>1, FetchedRow
    <3> QED BY <3>1, <3>2, <3>3
  <2> QED BY <2>1, <2>2, <2>3
<1> QED BY <1>1, <1>2, <1>4, Reading

LEMMA ListedRow ==
  ASSUME NEW p, DOMAIN calls[p] = Fields, NEW e
  PROVE  DOMAIN Listed(p, e) = Fields /\ Listed(p, e).op = calls[p].op
<1> DEFINE c == calls[p]
           v == c.listed \cup e
           w == c.left \ {c.entry}
<1>1. Listed(p, e) = [c EXCEPT !.listed = v, !.left = w, !.entry = 0, !.pc = "walk"]
  BY DEF Listed
<1> HIDE DEF v, w
<1>2. DOMAIN c = Fields
  OBVIOUS
<1> HIDE DEF c
<1>3. DOMAIN [c EXCEPT !.listed = v, !.left = w, !.entry = 0, !.pc = "walk"] = Fields
      /\ [c EXCEPT !.listed = v, !.left = w, !.entry = 0, !.pc = "walk"].op = c.op
  BY <1>2 DEF Fields
<1> QED BY <1>1, <1>3 DEF c

LEMMA Lists ==
  ASSUME IInv, NEW p \in Proc,
         ReadEntry(p) \/ LookAtEntry(p) \/ TmpVanishes(p) \/ ListPage(p)
  PROVE  IInv' /\ Atomic
<1> DEFINE c == calls[p]
<1>1. DOMAIN c = Fields /\ c.op \in ListOp
  BY DEF IInv, RowInv, ReadEntry, LookAtEntry, TmpVanishes, ListPage, In, At, ListOp
<1>2. UNCHANGED <<workload, disk, begun, faults, clean>>
  BY DEF ReadEntry, LookAtEntry, TmpVanishes, ListPage
<1>3. CASE calls' = [calls EXCEPT ![p] = Idle]
  BY <1>2, <1>3, Ending DEF disk
<1>4. ASSUME NEW r, DOMAIN r = Fields, r.op = c.op, calls' = [calls EXCEPT ![p] = r]
      PROVE  IInv' /\ Atomic
  BY <1>1, <1>2, <1>4, Reading
<1>5. ASSUME NEW d, DOMAIN d = Fields, NEW v
      PROVE  /\ DOMAIN [d EXCEPT !.left = v] = Fields /\ [d EXCEPT !.left = v].op = d.op
             /\ DOMAIN [d EXCEPT !.entry = v, !.pc = "look"] = Fields
             /\ [d EXCEPT !.entry = v, !.pc = "look"].op = d.op
  BY <1>5 DEF Fields
<1>6. CASE ReadEntry(p)
  <2>1. PICK i \in c.left :
          calls' = IF EntryAt(c, i) = {} THEN [calls EXCEPT ![p].left = @ \ {i}]
                   ELSE [calls EXCEPT ![p].entry = i, ![p].pc = "look"]
    BY <1>6 DEF ReadEntry
  <2> DEFINE v == c.left \ {i}
             r == [c EXCEPT !.left = v]
             s == [c EXCEPT !.entry = i, !.pc = "look"]
  <2>2. calls' = [calls EXCEPT ![p] = r] \/ calls' = [calls EXCEPT ![p] = s]
    BY <2>1
  <2> HIDE DEF v
  <2>3. DOMAIN r = Fields /\ r.op = c.op /\ DOMAIN s = Fields /\ s.op = c.op
    BY <1>1, <1>5, Zenon
  <2> HIDE DEF r, s, c
  <2> QED BY <1>4, <2>2, <2>3
<1>7. CASE LookAtEntry(p)
  <2>1. calls' = [calls EXCEPT ![p] = Idle] \/ \E e : calls' = [calls EXCEPT ![p] = Listed(p, e)]
    BY <1>7 DEF LookAtEntry
  <2> QED BY <1>1, <1>3, <1>4, <2>1, ListedRow
<1>8. CASE ListPage(p)
  <2>1. PICK n \in c.left :
          LET page == {i \in c.left : i <= n}
              d == Listed(p, UNION {EntryAt(c, i) : i \in page})
          IN calls' = [calls EXCEPT ![p] = [d EXCEPT !.left = d.left \ page]]
    BY <1>8 DEF ListPage
  <2> DEFINE page == {i \in c.left : i <= n}
             e == UNION {EntryAt(c, i) : i \in page}
             d == Listed(p, e)
             v == d.left \ page
             r == [d EXCEPT !.left = v]
  <2>2. calls' = [calls EXCEPT ![p] = r]
    BY <2>1
  <2> HIDE DEF e
  <2>3. DOMAIN d = Fields /\ d.op = c.op
    BY <1>1, ListedRow
  <2> HIDE DEF d, v
  <2>4. DOMAIN r = Fields /\ r.op = d.op
    BY <1>5, <2>3, Zenon
  <2> HIDE DEF r
  <2> QED BY <1>4, <2>2, <2>3, <2>4
<1> QED BY <1>3, <1>6, <1>7, <1>8 DEF TmpVanishes

-----------------------------------------------------------------------------
(* Steps that change the store.                                             *)

(* What a step of another call may do to a row.                             *)
Passive(c, d) ==
  /\ DOMAIN d = Fields
  /\ d.op = c.op /\ d.key = c.key /\ d.from = c.from /\ d.id = c.id /\ d.data = c.data
  /\ d.tmp = c.tmp /\ d.etag = c.etag /\ d.upload = c.upload /\ d.part = c.part /\ d.acked = c.acked
  /\ d.pc = c.pc \/ c.op = "upload_part"
  /\ c.disturbed # {} => d.disturbed # {}
  /\ c.again \subseteq d.again

LEMMA PassiveOffer ==
  ASSUME NEW c, NEW d, Passive(c, d)
  PROVE  OfferOf(d) = OfferOf(c)
BY DEF Passive, OfferOf

LEMMA PassiveItself ==
  ASSUME NEW c, RowInv(c)
  PROVE  Passive(c, c)
BY DEF Passive, RowInv

(* Uploads stay, and are not opened again.                                  *)
UploadsGo ==
  \A u \in Uploads : u \in Uploads' /\ (uploads[u].fate # "open" => uploads'[u].fate # "open")

(* The parts that a row names are removed, or uploaded again, at most.      *)
PartsStay(d) ==
  d.op = "complete" =>
    \A i \in PartNo :
      LET there == uploads'[d.upload].parts[i]
      IN there \in {uploads[d.upload].parts[i], NoPart} \/ <<i, there>> \in d.again

LEMMA Kept ==
  ASSUME NEW c, NEW d, RowInv(c), Passive(c, d), UploadsGo, PartsStay(d),
         d.op \in WriteOp /\ d.disturbed = {} =>
           files'[d.key] = files[d.key] /\ sides'[d.key] = sides[d.key]
  PROVE  RowInv(d)'
<1>1. PutOK(d)' /\ CopyOK(d)' /\ DeleteOK(d)'
  BY DEF RowInv, Passive, PutOK, CopyOK, DeleteOK
<1>2. CompleteOK(d)' /\ UploadOK(d)'
  BY DEF RowInv, Passive, CompleteOK, UploadOK, UploadsGo
<1>3. FateOK(d)'
  BY DEF RowInv, Passive, CompleteOK, FateOK, UploadsGo
<1>4. ExactOK(d)'
  <2>1. SUFFICES ASSUME d.op = "complete", d.pc \in {"fill", "append", "rename"}
                 PROVE  /\ d.part <= Len(d.acked) + 1 /\ Len(d.tmp) + 1 = d.part
                        /\ \A i \in 1 .. Len(d.tmp) : Named(d, i, d.tmp[i])
                        /\ d.pc = "append" => LET there == uploads'[d.upload].parts[d.part]
                                              IN there = NoPart \/ Named(d, d.part, there)
                        /\ d.pc = "rename" => d.part = Len(d.acked) + 1
    BY DEF ExactOK
  <2>2. /\ d.part <= Len(d.acked) + 1 /\ Len(d.tmp) + 1 = d.part
        /\ \A i \in 1 .. Len(d.tmp) : Named(d, i, d.tmp[i])
        /\ d.pc = "append" => LET there == uploads[d.upload].parts[d.part]
                              IN there = NoPart \/ Named(d, d.part, there)
        /\ d.pc = "rename" => d.part = Len(d.acked) + 1
    BY <2>1 DEF RowInv, ExactOK, Passive, Named
  <2>3. d.part \in Nat \ {0} /\ Len(d.acked) \in {1, 2} /\ (d.pc = "append" => d.part <= Len(d.acked))
    BY <2>1 DEF RowInv, CompleteOK, Passive, PartNo
  <2>4. d.pc = "append" => d.part \in PartNo
    <3>1. ASSUME NEW a, NEW b, a \in Nat \ {0}, b \in {1, 2}, a <= b PROVE a \in PartNo
      BY <3>1 DEF PartNo
    <3> QED BY <2>3, <3>1
  <2> QED BY <2>1, <2>2, <2>4 DEF PartsStay, Named
<1>5. AloneOK(d)'
  BY DEF RowInv, Passive, AloneOK, WriteOp
<1> QED BY <1>1, <1>2, <1>3, <1>4, <1>5 DEF RowInv, Passive

(* One call moves, and changes what is stored under its key; the other      *)
(* calls are passive.                                                       *)
LEMMA Stepping ==
  ASSUME IInv, NEW p \in Proc, NEW r, calls'[p] = r, RowInv(r)', Types', workload' = workload,
         \A q \in Proc \ {p} : Passive(calls[q], calls'[q]) /\ PartsStay(calls'[q]), UploadsGo,
         r.op \in WriteOp => /\ calls[p].op \in WriteOp /\ r.key = calls[p].key
                             /\ r.disturbed = calls[p].disturbed,
         \A k \in Key : \/ files'[k] = files[k] /\ sides'[k] = sides[k]
                        \/ calls[p].op \in WriteOp /\ calls[p].key = k,
         ~Local => UNCHANGED sides,
         \A k \in Key :
           \/ clean'[k] = clean[k]
           \/ /\ calls[p].op \in WriteOp /\ calls[p].key = k /\ calls[p].disturbed = {}
              /\ r.op \notin WriteOp
              /\ files'[k] = clean'[k]
              /\ Local /\ clean'[k] # Nothing => sides'[k] = [etag |-> clean'[k], of |-> clean'[k]],
         PartsOutliveCompletion'
  PROVE  IInv'
<1>1. \A q \in Proc, k \in Key : k = calls[q].key /\ calls[q].op \in WriteOp => clean[k] = Unknown
  BY DEF IInv, WritesCross
<1>2. ASSUME NEW q \in Proc PROVE RowInv(calls[q])'
  <2>1. ASSUME NEW c, RowInv(c)', c = calls'[q] PROVE RowInv(calls[q])'
    BY <2>1 DEF RowInv, PutOK, CopyOK, CompleteOK, DeleteOK, UploadOK, FateOK, ExactOK, AloneOK
  <2>2. CASE q = p
    BY <2>1, <2>2
  <2>3. CASE q # p
    <3> DEFINE c == calls[q]
               d == calls'[q]
    <3>1. RowInv(c) /\ Passive(c, d) /\ PartsStay(d)
      BY <2>3 DEF IInv
    <3>2. d.op \in WriteOp /\ d.disturbed = {} => d.key \in Key /\ c.op \in WriteOp /\ c.disturbed = {} /\ c.key = d.key
      BY <3>1 DEF Passive, RowInv, PutOK, CopyOK, CompleteOK, DeleteOK, WriteOp
    <3>3. d.op \in WriteOp /\ d.disturbed = {} => ~(calls[p].op \in WriteOp /\ calls[p].key = d.key)
      BY <2>3, <3>2 DEF IInv, WritesCross
    <3>4. d.op \in WriteOp /\ d.disturbed = {} =>
            files'[d.key] = files[d.key] /\ sides'[d.key] = sides[d.key]
      BY <3>2, <3>3
    <3> HIDE DEF c, d
    <3>5. ASSUME NEW e, e = d PROVE RowInv(e)'
      <4>1. RowInv(c) /\ Passive(c, e) /\ PartsStay(e) /\
              (e.op \in WriteOp /\ e.disturbed = {} =>
                 files'[e.key] = files[e.key] /\ sides'[e.key] = sides[e.key])
        BY <3>1, <3>4, <3>5
      <4> QED BY <4>1, Kept
    <3>6. \E e : e = d
      OBVIOUS
    <3> QED BY <2>1, <3>5, <3>6 DEF d
  <2> QED BY <2>2, <2>3
<1>3. WritesCross'
  <2>1. \A q \in Proc : calls'[q].op \in WriteOp =>
          /\ calls[q].op \in WriteOp /\ calls'[q].key = calls[q].key
          /\ calls[q].disturbed # {} => calls'[q].disturbed # {}
    BY DEF Passive
  <2>2. \A q \in Proc : calls'[q].op \in WriteOp => calls[q].key \in Key
    <3> TAKE q \in Proc
    <3> DEFINE c == calls[q]
    <3>1. RowInv(c)
      BY DEF IInv
    <3> HIDE DEF c
    <3>2. c.op \in WriteOp => c.key \in Key
      BY <3>1 DEF RowInv, PutOK, CopyOK, CompleteOK, DeleteOK, WriteOp
    <3> QED BY <2>1, <3>2 DEF c
  <2>3. ASSUME NEW q \in Proc, calls'[q].op \in WriteOp PROVE clean'[calls'[q].key] = Unknown
    <3>1. q # p => ~(calls[p].op \in WriteOp /\ calls[p].key = calls[q].key /\ calls[p].disturbed = {})
      BY <2>1, <2>3 DEF IInv, WritesCross
    <3>2. clean[calls[q].key] = Unknown
      BY <2>1, <2>3 DEF IInv, WritesCross
    <3> QED BY <2>1, <2>2, <2>3, <3>1, <3>2
  <2> QED BY <2>1, <2>3 DEF IInv, WritesCross
<1>4. OnlyTheDisk'
  BY DEF IInv, OnlyTheDisk, Local
<1>5. AcknowledgedWritesStick'
  <2> SUFFICES ASSUME NEW k \in Key, clean'[k] # Unknown
               PROVE  /\ files'[k] = clean'[k]
                      /\ Local /\ clean'[k] # Nothing => sides'[k] = [etag |-> clean'[k], of |-> clean'[k]]
    BY DEF AcknowledgedWritesStick, Local
  <2>1. CASE clean'[k] = clean[k]
    <3>1. files'[k] = files[k] /\ sides'[k] = sides[k]
      BY <1>1, <2>1
    <3> QED BY <2>1, <3>1 DEF IInv, AcknowledgedWritesStick
  <2>2. CASE clean'[k] # clean[k]
    BY <2>2, <1>4 DEF OnlyTheDisk, Local
  <2> QED BY <2>1, <2>2
<1> QED BY <1>2, <1>3, <1>4, <1>5 DEF IInv

-----------------------------------------------------------------------------
(* Writes: the steps that only the call itself sees.                        *)

LEMMA OnlyItself ==
  ASSUME IInv, NEW p \in Proc, NEW r, calls' = [calls EXCEPT ![p] = r]
  PROVE  /\ calls'[p] = r /\ DOMAIN calls' = Proc
         /\ \A q \in Proc \ {p} : /\ calls'[q] = calls[q] /\ Passive(calls[q], calls'[q])
                                  /\ OfferOf(calls'[q]) = OfferOf(calls[q])
<1>1. calls'[p] = r /\ DOMAIN calls' = Proc /\ \A q \in Proc \ {p} : calls'[q] = calls[q]
  BY DEF IInv, Types
<1>2. \A q \in Proc : Passive(calls[q], calls[q])
  BY PassiveItself DEF IInv
<1> QED BY <1>1, <1>2

LEMMA PrivateAsking ==
  ASSUME IInv, NEW p \in Proc, NEW r, RowInv(r), calls' = [calls EXCEPT ![p] = r],
         UNCHANGED <<workload, files, sides, uploads, clean>>, begun' \in Nat,
         r.op \in WriteOp => /\ calls[p].op \in WriteOp /\ r.key = calls[p].key
                             /\ r.disturbed = calls[p].disturbed,
         OfferOf(calls[p]) = {},
         \E o : /\ OfferOf(r) = {o}
                /\ \/ o \in [key : Key, object : File]
                   \/ o \in [key : Key, from : Key]
  PROVE  IInv' /\ Atomic
<1>1. calls'[p] = r /\ \A q \in Proc \ {p} : OfferOf(calls'[q]) = OfferOf(calls[q])
  BY OnlyItself
<1> QED BY <1>1, Private, Asking

(* A call that begins to fill its temporary file.                           *)
LEMMA OpenTmpStep ==
  ASSUME IInv, NEW p \in Proc, OpenTmp(p)
  PROVE  IInv' /\ Atomic
<1> DEFINE c == calls[p]
           r == [c EXCEPT !.pc = "fill", !.tmp = <<>>]
<1>1. /\ c.op \in WriteOp \ {"copy"} /\ c.pc = "open" /\ calls' = [calls EXCEPT ![p] = r]
      /\ UNCHANGED <<workload, files, sides, uploads, clean, begun>>
  BY DEF OpenTmp, In, disk
<1>2. RowInv(c) /\ begun' \in Nat
  BY <1>1 DEF IInv, Types
<1> HIDE DEF c
<1>3. /\ DOMAIN r = Fields /\ r.pc = "fill" /\ r.tmp = <<>>
      /\ r.op = c.op /\ r.key = c.key /\ r.from = c.from /\ r.id = c.id /\ r.data = c.data
      /\ r.etag = c.etag /\ r.upload = c.upload /\ r.part = c.part
      /\ r.acked = c.acked /\ r.disturbed = c.disturbed /\ r.again = c.again
  BY <1>2 DEF RowInv, Fields
<1> HIDE DEF r
<1>4. c.op \in {"put", "put_file", "complete"}
  BY <1>1, <1>2 DEF RowInv, DeleteOK, WriteOp
<1>5. PutOK(r) /\ CompleteOK(r)
  BY <1>1, <1>2, <1>3, <1>4 DEF RowInv, PutOK, CompleteOK, Obj
<1>6. c.op = "complete" => c.part = 1
  BY <1>1, <1>2 DEF RowInv, CompleteOK
<1>7. ExactOK(r)
  BY <1>1, <1>2, <1>3, <1>6 DEF RowInv, ExactOK, CompleteOK, PartNo
<1>8. CopyOK(r) /\ DeleteOK(r) /\ UploadOK(r) /\ FateOK(r) /\ AloneOK(r)
  BY <1>1, <1>3, <1>4 DEF CopyOK, DeleteOK, UploadOK, FateOK, AloneOK, WriteOp
<1>9. RowInv(r)
  BY <1>3, <1>5, <1>7, <1>8 DEF RowInv
<1>10. OfferOf(r) = OfferOf(c)
  BY <1>1, <1>3, <1>4 DEF OfferOf
<1> QED BY <1>1, <1>2, <1>3, <1>9, <1>10, PrivateQuiet DEF c

LEMMA FillTmpStep ==
  ASSUME IInv, NEW p \in Proc, FillTmp(p)
  PROVE  IInv' /\ Atomic
<1> DEFINE c == calls[p]
           n == Len(c.tmp)
           w == Append(c.tmp, c.data[n + 1])
           r == IF n = Len(c.data) THEN [c EXCEPT !.pc = "rename"] ELSE [c EXCEPT !.tmp = w]
<1>1. /\ c.op \in {"put", "put_file"} /\ c.pc = "fill" /\ calls' = [calls EXCEPT ![p] = r]
      /\ UNCHANGED <<workload, files, sides, uploads, clean, begun>>
  BY DEF FillTmp, In, Put, disk
<1>2. RowInv(c) /\ begun' \in Nat
  BY <1>1 DEF IInv, Types
<1> HIDE DEF c
<1>3. /\ c.data \in Obj /\ c.tmp \in Obj /\ Len(c.tmp) <= Len(c.data) /\ c.key \in Key
      /\ \A i \in 1 .. Len(c.tmp) : c.tmp[i] = c.data[i]
  BY <1>1, <1>2 DEF RowInv, PutOK
<1>4. CASE n = Len(c.data)
  <2>1. r = [c EXCEPT !.pc = "rename"]
    BY <1>4
  <2> HIDE DEF r
  <2>2. /\ DOMAIN r = Fields /\ r.pc = "rename" /\ r.tmp = c.tmp
        /\ r.op = c.op /\ r.key = c.key /\ r.data = c.data /\ r.disturbed = c.disturbed
    BY <1>2, <2>1 DEF RowInv, Fields
  <2>3. c.tmp = c.data
    <3>1. c.tmp \in Seq(Nat \ {0}) /\ c.data \in Seq(Nat \ {0}) /\ Len(c.tmp) = Len(c.data)
      BY <1>3, <1>4 DEF Obj
    <3> QED BY <1>3, <3>1, SeqEqual
  <2>4. RowInv(r)
    BY <1>1, <1>3, <2>2, <2>3
       DEF RowInv, PutOK, CopyOK, CompleteOK, DeleteOK, UploadOK, FateOK, ExactOK, AloneOK, WriteOp
  <2>5. OfferOf(r) = OfferOf(c)
    BY <1>1, <2>2 DEF OfferOf
  <2> QED BY <1>1, <1>2, <2>2, <2>4, <2>5, PrivateQuiet DEF c, WriteOp
<1>5. CASE n # Len(c.data)
  <2>1. r = [c EXCEPT !.tmp = w]
    BY <1>5
  <2>2. w \in Obj /\ Len(w) <= Len(c.data) /\ \A i \in 1 .. Len(w) : w[i] = c.data[i]
    <3>1. c.data \in Seq(Nat \ {0}) /\ c.tmp \in Seq(Nat \ {0}) /\ n \in Nat /\ Len(c.data) \in Nat
          /\ n < Len(c.data)
      BY <1>3, <1>5 DEF Obj
    <3>2. c.data[n + 1] \in Nat \ {0}
      BY <3>1
    <3>3. w \in Seq(Nat \ {0}) /\ Len(w) = n + 1 /\ w[n + 1] = c.data[n + 1]
          /\ \A i \in 1 .. n : w[i] = c.tmp[i]
      BY <3>1, <3>2
    <3> QED BY <1>3, <3>1, <3>3 DEF Obj
  <2> HIDE DEF w
  <2>3. /\ DOMAIN r = Fields /\ r.pc = c.pc /\ r.tmp = w
        /\ r.op = c.op /\ r.key = c.key /\ r.data = c.data /\ r.disturbed = c.disturbed
    BY <1>2, <2>1 DEF RowInv, Fields
  <2> HIDE DEF r
  <2>4. RowInv(r)
    BY <1>1, <1>3, <2>2, <2>3
       DEF RowInv, PutOK, CopyOK, CompleteOK, DeleteOK, UploadOK, FateOK, ExactOK, AloneOK, WriteOp
  <2>5. OfferOf(r) = OfferOf(c)
    BY <1>1, <2>3 DEF OfferOf
  <2> QED BY <1>1, <1>2, <2>3, <2>4, <2>5, PrivateQuiet DEF c, WriteOp
<1> QED BY <1>4, <1>5

LEMMA CopyToTmpStep ==
  ASSUME IInv, NEW p \in Proc, CopyToTmp(p)
  PROVE  IInv' /\ Atomic
<1> DEFINE c == calls[p]
           there == files[c.from]
           r == [c EXCEPT !.tmp = there, !.pc = "rename"]
<1>1. /\ c.op = "copy" /\ c.pc = "open" /\ UNCHANGED <<workload, files, sides, uploads, clean, begun>>
      /\ \/ there # Nothing /\ calls' = [calls EXCEPT ![p] = r]
         \/ calls' = [calls EXCEPT ![p] = Idle]
  BY DEF CopyToTmp, At, Fail
<1>2. CASE there # Nothing /\ calls' = [calls EXCEPT ![p] = r]
  <2>1. RowInv(c) /\ begun' \in Nat
    BY <1>1 DEF IInv, Types
  <2>2. c.key \in Key /\ c.from \in Key /\ c.data \in Obj /\ c.part \in Nat \ {0}
    BY <1>1, <2>1 DEF RowInv, CopyOK
  <2>3. there \in Obj
    BY <1>2, <2>2 DEF IInv, Types, File
  <2> HIDE DEF c, there
  <2>4. /\ DOMAIN r = Fields /\ r.pc = "rename" /\ r.tmp = there /\ r.from = c.from
        /\ r.op = c.op /\ r.key = c.key /\ r.data = c.data /\ r.disturbed = c.disturbed /\ r.part = c.part
    BY <2>1 DEF RowInv, Fields
  <2> HIDE DEF r
  <2>5. RowInv(r)
    BY <1>1, <2>2, <2>3, <2>4
       DEF RowInv, PutOK, CopyOK, CompleteOK, DeleteOK, UploadOK, FateOK, ExactOK, AloneOK, WriteOp
  <2>6. OfferOf(c) = {} /\ OfferOf(r) = {[key |-> c.key, object |-> there]}
    BY <1>1, <2>4 DEF OfferOf
  <2>7. [key |-> c.key, object |-> there] \in [key : Key, object : File]
    BY <2>2, <2>3 DEF File
  <2>8. /\ c.op \in WriteOp /\ r.key = c.key /\ r.disturbed = c.disturbed
    BY <1>1, <2>4 DEF WriteOp
  <2> QED BY <1>1, <1>2, <2>1, <2>5, <2>6, <2>7, <2>8, PrivateAsking DEF c
<1>3. CASE calls' = [calls EXCEPT ![p] = Idle]
  BY <1>1, <1>3, Ending
<1> QED BY <1>1, <1>2, <1>3

(* A completion checks the next part and finds it, or fails.                *)
LEMMA CheckPartStep ==
  ASSUME IInv, NEW p \in Proc, CheckPart(p)
  PROVE  IInv' /\ Atomic
<1> DEFINE c == calls[p]
           r == [c EXCEPT !.pc = "append"]
<1>1. /\ c.op = "complete" /\ c.pc = "fill" /\ UNCHANGED <<workload, files, sides, uploads, clean, begun>>
      /\ c.part <= Len(c.acked)
      /\ \/ /\ uploads[c.upload].parts[c.part] = c.acked[c.part]
            /\ calls' = [calls EXCEPT ![p] = r]
         \/ calls' = [calls EXCEPT ![p] = Idle]
  BY DEF CheckPart, At, Fail, Go, PartsLeft, EtagMatches, Stored, Upload
<1>2. CASE /\ uploads[c.upload].parts[c.part] = c.acked[c.part]
           /\ calls' = [calls EXCEPT ![p] = r]
  <2>1. RowInv(c) /\ begun' \in Nat
    BY <1>1 DEF IInv, Types
  <2> HIDE DEF c
  <2>2. /\ DOMAIN r = Fields /\ r.pc = "append"
        /\ r.op = c.op /\ r.key = c.key /\ r.from = c.from /\ r.id = c.id /\ r.data = c.data
        /\ r.tmp = c.tmp /\ r.etag = c.etag /\ r.upload = c.upload /\ r.part = c.part
        /\ r.acked = c.acked /\ r.disturbed = c.disturbed /\ r.again = c.again
    BY <2>1 DEF RowInv, Fields
  <2> HIDE DEF r
  <2>3. CompleteOK(r) /\ ExactOK(r)
    BY <1>1, <1>2, <2>1, <2>2 DEF RowInv, CompleteOK, ExactOK, Named
  <2>4. PutOK(r) /\ CopyOK(r) /\ DeleteOK(r) /\ UploadOK(r) /\ FateOK(r) /\ AloneOK(r)
    BY <1>1, <2>2 DEF PutOK, CopyOK, DeleteOK, UploadOK, FateOK, AloneOK
  <2>5. RowInv(r)
    BY <2>2, <2>3, <2>4 DEF RowInv
  <2>6. OfferOf(r) = OfferOf(c)
    BY <1>1, <2>2 DEF OfferOf
  <2> QED BY <1>1, <1>2, <2>1, <2>2, <2>5, <2>6, PrivateQuiet DEF c, WriteOp
<1>3. CASE calls' = [calls EXCEPT ![p] = Idle]
  BY <1>1, <1>3, Ending
<1> QED BY <1>1, <1>2, <1>3

LEMMA AppendPartStep ==
  ASSUME IInv, NEW p \in Proc, AppendPart(p)
  PROVE  IInv' /\ Atomic
<1> DEFINE c == calls[p]
           there == uploads[c.upload].parts[c.part]
           w == Append(c.tmp, there)
           i == c.part + 1
           r == [c EXCEPT !.tmp = w, !.part = i, !.pc = "fill"]
<1>1. /\ c.op = "complete" /\ c.pc = "append" /\ UNCHANGED <<workload, files, sides, uploads, clean, begun>>
      /\ \/ there # NoPart /\ calls' = [calls EXCEPT ![p] = r]
         \/ calls' = [calls EXCEPT ![p] = Idle]
  BY DEF AppendPart, At, Fail, Stored, Upload
<1>2. CASE there # NoPart /\ calls' = [calls EXCEPT ![p] = r]
  <2>1. RowInv(c) /\ begun' \in Nat
    BY <1>1 DEF IInv, Types
  <2>2. /\ c.part \in Nat \ {0} /\ c.upload \in Uploads /\ c.tmp \in Obj /\ c.acked \in Obj
        /\ i \in Nat \ {0}
    BY <1>1, <2>1 DEF RowInv, CompleteOK
  <2>3. /\ c.part <= Len(c.acked) /\ Len(c.tmp) + 1 = c.part
        /\ \A j \in 1 .. Len(c.tmp) : Named(c, j, c.tmp[j])
        /\ Named(c, c.part, there)
    BY <1>1, <1>2, <2>1 DEF RowInv, CompleteOK, ExactOK
  <2> HIDE DEF c
  <2>4. there \in Nat \ {0}
    <3>1. c.part \in PartNo
      <4>1. c.part \in Nat \ {0} /\ Len(c.acked) \in {1, 2} /\ c.part <= Len(c.acked)
        BY <1>1, <2>1 DEF RowInv, CompleteOK, PartNo
      <4>2. ASSUME NEW a, NEW b, a \in Nat \ {0}, b \in {1, 2}, a <= b PROVE a \in PartNo
        BY <4>2 DEF PartNo
      <4> QED BY <4>1, <4>2
    <3>2. uploads[c.upload] \in UploadRow
      BY <2>2 DEF IInv, Types, Uploads
    <3>3. uploads[c.upload].parts \in [PartNo -> Nat]
      BY <3>2 DEF UploadRow
    <3> QED BY <1>2, <3>1, <3>3 DEF NoPart
  <2> HIDE DEF there
  <2>5. w \in Obj /\ Len(w) = Len(c.tmp) + 1 /\ w[Len(c.tmp) + 1] = there
        /\ \A j \in 1 .. Len(c.tmp) : w[j] = c.tmp[j]
    BY <2>2, <2>4 DEF Obj
  <2>6. Len(c.tmp) \in Nat /\ Len(c.acked) \in Nat
    BY <2>2 DEF Obj
  <2>7. /\ i <= Len(c.acked) + 1 /\ Len(w) + 1 = i
        /\ \A j \in 1 .. Len(w) : Named(c, j, w[j])
    BY <2>2, <2>3, <2>5, <2>6
  <2> HIDE DEF w, i
  <2>8. /\ DOMAIN r = Fields /\ r.pc = "fill" /\ r.tmp = w /\ r.part = i
        /\ r.op = c.op /\ r.key = c.key /\ r.from = c.from /\ r.id = c.id /\ r.data = c.data
        /\ r.etag = c.etag /\ r.upload = c.upload
        /\ r.acked = c.acked /\ r.disturbed = c.disturbed /\ r.again = c.again
    BY <2>1 DEF RowInv, Fields
  <2> HIDE DEF r
  <2>9. CompleteOK(r) /\ ExactOK(r)
    BY <1>1, <2>1, <2>2, <2>5, <2>7, <2>8 DEF RowInv, CompleteOK, ExactOK, Named
  <2>10. PutOK(r) /\ CopyOK(r) /\ DeleteOK(r) /\ UploadOK(r) /\ FateOK(r) /\ AloneOK(r)
    BY <1>1, <2>8 DEF PutOK, CopyOK, DeleteOK, UploadOK, FateOK, AloneOK
  <2>11. RowInv(r)
    BY <2>8, <2>9, <2>10 DEF RowInv
  <2>12. OfferOf(r) = OfferOf(c)
    BY <1>1, <2>8 DEF OfferOf
  <2> QED BY <1>1, <1>2, <2>1, <2>8, <2>11, <2>12, PrivateQuiet DEF c, WriteOp
<1>3. CASE calls' = [calls EXCEPT ![p] = Idle]
  BY <1>1, <1>3, Ending
<1> QED BY <1>1, <1>2, <1>3

(* A completion that has all of its parts knows what it will store.         *)
LEMMA AssembledStep ==
  ASSUME IInv, NEW p \in Proc, Assembled(p)
  PROVE  IInv' /\ Atomic
<1> DEFINE c == calls[p]
           r == [c EXCEPT !.pc = "rename"]
<1>1. /\ c.op = "complete" /\ c.pc = "fill" /\ UNCHANGED <<workload, files, sides, uploads, clean, begun>>
      /\ ~(c.part <= Len(c.acked)) /\ calls' = [calls EXCEPT ![p] = r]
  BY DEF Assembled, At, Go, PartsLeft, disk
<1>2. RowInv(c) /\ begun' \in Nat
  BY <1>1 DEF IInv, Types
<1> HIDE DEF c
<1>3. /\ c.key \in Key /\ c.tmp \in Obj /\ Len(c.acked) \in Nat /\ c.part \in Nat
  BY <1>1, <1>2 DEF RowInv, CompleteOK, PartNo
<1>4. c.part = Len(c.acked) + 1
  <2>1. c.part <= Len(c.acked) + 1
    BY <1>1, <1>2 DEF RowInv, ExactOK
  <2> QED BY <1>1, <1>3, <2>1
<1>5. /\ DOMAIN r = Fields /\ r.pc = "rename"
      /\ r.op = c.op /\ r.key = c.key /\ r.from = c.from /\ r.id = c.id /\ r.data = c.data
      /\ r.tmp = c.tmp /\ r.etag = c.etag /\ r.upload = c.upload /\ r.part = c.part
      /\ r.acked = c.acked /\ r.disturbed = c.disturbed /\ r.again = c.again
  BY <1>2 DEF RowInv, Fields
<1> HIDE DEF r
<1>6. CompleteOK(r) /\ ExactOK(r)
  BY <1>1, <1>2, <1>4, <1>5 DEF RowInv, CompleteOK, ExactOK, Named
<1>7. PutOK(r) /\ CopyOK(r) /\ DeleteOK(r) /\ UploadOK(r) /\ FateOK(r) /\ AloneOK(r)
  BY <1>1, <1>5 DEF PutOK, CopyOK, DeleteOK, UploadOK, FateOK, AloneOK
<1>8. RowInv(r)
  BY <1>5, <1>6, <1>7 DEF RowInv
<1>9. OfferOf(c) = {} /\ OfferOf(r) = {[key |-> c.key, object |-> c.tmp]}
  BY <1>1, <1>5 DEF OfferOf
<1>10. [key |-> c.key, object |-> c.tmp] \in [key : Key, object : File]
  BY <1>3 DEF File
<1>11. c.op \in WriteOp /\ r.key = c.key /\ r.disturbed = c.disturbed
  BY <1>1, <1>5 DEF WriteOp
<1> QED BY <1>1, <1>2, <1>8, <1>9, <1>10, <1>11, PrivateAsking DEF c

LEMMA DescribeStep ==
  ASSUME IInv, NEW p \in Proc, Describe(p)
  PROVE  IInv' /\ Atomic
<1> DEFINE c == calls[p]
           there == files[c.key]
           r == [c EXCEPT !.etag = there, !.pc = "side"]
<1>1. /\ c.op \in WriteOp /\ c.pc = "describe" /\ UNCHANGED <<workload, files, sides, uploads, clean, begun>>
      /\ calls' = [calls EXCEPT ![p] = r] \/ calls' = [calls EXCEPT ![p] = Idle]
  BY DEF Describe, In, Fail
<1>2. CASE calls' = [calls EXCEPT ![p] = r]
  <2>1. RowInv(c) /\ begun' \in Nat
    BY <1>1 DEF IInv, Types
  <2> HIDE DEF c
  <2>2. c.disturbed = {} => there = c.data
    BY <1>1, <2>1 DEF RowInv, AloneOK
  <2> HIDE DEF there
  <2>3. /\ DOMAIN r = Fields /\ r.pc = "side" /\ r.etag = there
        /\ r.op = c.op /\ r.key = c.key /\ r.from = c.from /\ r.id = c.id /\ r.data = c.data
        /\ r.tmp = c.tmp /\ r.upload = c.upload /\ r.part = c.part
        /\ r.acked = c.acked /\ r.disturbed = c.disturbed /\ r.again = c.again
    BY <2>1 DEF RowInv, Fields
  <2> HIDE DEF r
  <2>4. PutOK(r) /\ CopyOK(r) /\ CompleteOK(r) /\ DeleteOK(r) /\ UploadOK(r)
    BY <1>1, <2>1, <2>3 DEF RowInv, PutOK, CopyOK, CompleteOK, DeleteOK, UploadOK, WriteOp
  <2>5. FateOK(r) /\ ExactOK(r)
    BY <1>1, <2>1, <2>3 DEF RowInv, FateOK, ExactOK
  <2>6. AloneOK(r)
    BY <1>1, <2>1, <2>2, <2>3 DEF RowInv, AloneOK
  <2>7. RowInv(r)
    BY <2>3, <2>4, <2>5, <2>6 DEF RowInv
  <2>8. OfferOf(r) = OfferOf(c)
    BY <1>1, <2>3 DEF OfferOf
  <2> QED BY <1>1, <1>2, <2>1, <2>3, <2>7, <2>8, PrivateQuiet DEF c
<1>3. CASE calls' = [calls EXCEPT ![p] = Idle]
  BY <1>1, <1>3, Ending
<1> QED BY <1>1, <1>2, <1>3

(* What remains of a row that only goes on.                                 *)
LEMMA GoneOn ==
  ASSUME NEW c, NEW v, RowInv(c), c.op \in {"put_file", "copy"},
         v \in {"send", "parts", "assemble", "abort"}, c.pc \notin {"fill", "rename"}
  PROVE  LET r == [c EXCEPT !.pc = v]
         IN RowInv(r) /\ r.op = c.op /\ r.pc = v /\ r.key = c.key /\ r.data = c.data /\ r.disturbed = c.disturbed
<1> DEFINE r == [c EXCEPT !.pc = v]
<1>1. /\ DOMAIN r = Fields /\ r.pc = v
      /\ r.op = c.op /\ r.key = c.key /\ r.from = c.from /\ r.id = c.id /\ r.data = c.data
      /\ r.tmp = c.tmp /\ r.etag = c.etag /\ r.upload = c.upload /\ r.part = c.part
      /\ r.acked = c.acked /\ r.disturbed = c.disturbed /\ r.again = c.again
  BY DEF RowInv, Fields
<1> HIDE DEF r
<1>2. RowInv(r)
  BY <1>1 DEF RowInv, PutOK, CopyOK, CompleteOK, DeleteOK, UploadOK, FateOK, ExactOK, AloneOK, WriteOp
<1> QED BY <1>1, <1>2 DEF r

LEMMA OwnUploadSteps ==
  ASSUME IInv, NEW p \in Proc, CreateOwn(p) \/ SendParts(p)
  PROVE  IInv' /\ Atomic
<1> DEFINE c == calls[p]
           v == IF c.pc = "send" THEN "parts" ELSE "assemble"
           r == [c EXCEPT !.pc = v]
<1>1. /\ c.op \in {"put_file", "copy"} /\ c.pc \in {"send", "parts"} /\ (c.pc = "parts" => c.op = "put_file")
      /\ (c.pc = "send" => Len(c.data) > SingleMax)
      /\ calls' = [calls EXCEPT ![p] = r]
      /\ UNCHANGED <<workload, files, sides, uploads, clean, begun>>
  BY DEF CreateOwn, SendParts, At, In, Go, Big, disk
<1>2. RowInv(c) /\ begun' \in Nat
  BY <1>1 DEF IInv, Types
<1> HIDE DEF c
<1>3. v \in {"parts", "assemble"} /\ (v = "assemble" => c.op = "put_file")
  BY <1>1
<1>4. RowInv(r) /\ r.op = c.op /\ r.pc = v /\ r.key = c.key /\ r.data = c.data /\ r.disturbed = c.disturbed
  BY <1>1, <1>2, <1>3, GoneOn
<1> HIDE DEF r, v
<1>5. OfferOf(r) = OfferOf(c)
  BY <1>1, <1>3, <1>4 DEF OfferOf
<1> QED BY <1>1, <1>2, <1>4, <1>5, PrivateQuiet DEF c, WriteOp

LEMMA StatSourceStep ==
  ASSUME IInv, NEW p \in Proc, StatSource(p)
  PROVE  IInv' /\ Atomic
<1> DEFINE c == calls[p]
           there == files[c.from]
           r == [c EXCEPT !.pc = "send", !.data = there]
<1>1. /\ c.op = "copy" /\ c.pc = "stat" /\ UNCHANGED <<workload, files, sides, uploads, clean, begun>>
      /\ \/ there # Nothing /\ calls' = [calls EXCEPT ![p] = r]
         \/ calls' = [calls EXCEPT ![p] = Idle]
  BY DEF StatSource, At, disk
<1>2. CASE there # Nothing /\ calls' = [calls EXCEPT ![p] = r]
  <2>1. RowInv(c) /\ begun' \in Nat
    BY <1>1 DEF IInv, Types
  <2>2. c.key \in Key /\ c.from \in Key /\ c.part \in Nat \ {0}
    BY <1>1, <2>1 DEF RowInv, CopyOK
  <2>3. there \in Obj
    BY <1>2, <2>2 DEF IInv, Types, File
  <2> HIDE DEF c, there
  <2>4. /\ DOMAIN r = Fields /\ r.pc = "send" /\ r.data = there /\ r.from = c.from
        /\ r.op = c.op /\ r.key = c.key /\ r.disturbed = c.disturbed /\ r.part = c.part
    BY <2>1 DEF RowInv, Fields
  <2> HIDE DEF r
  <2>5. RowInv(r)
    BY <1>1, <2>2, <2>3, <2>4
       DEF RowInv, PutOK, CopyOK, CompleteOK, DeleteOK, UploadOK, FateOK, ExactOK, AloneOK, WriteOp
  <2>6. OfferOf(c) = {} /\ (OfferOf(r) = {[key |-> c.key, from |-> c.from]} \/ OfferOf(r) = {})
    BY <1>1, <2>4 DEF OfferOf
  <2>7. [key |-> c.key, from |-> c.from] \in [key : Key, from : Key]
    BY <2>2
  <2>8. /\ c.op \in WriteOp /\ r.key = c.key /\ r.disturbed = c.disturbed
    BY <1>1, <2>4 DEF WriteOp
  <2>9. CASE OfferOf(r) = {}
    BY <1>1, <1>2, <2>1, <2>5, <2>8, <2>9, PrivateQuiet DEF c
  <2>10. CASE OfferOf(r) = {[key |-> c.key, from |-> c.from]}
    BY <1>1, <1>2, <2>1, <2>5, <2>6, <2>7, <2>8, <2>10, PrivateAsking DEF c
  <2> QED BY <2>6, <2>9, <2>10
<1>3. CASE calls' = [calls EXCEPT ![p] = Idle]
  BY <1>1, <1>3, Ending
<1> QED BY <1>1, <1>2, <1>3

(* A large copy takes each range from what the source holds by then, and     *)
(* knows what it will store when it has them all.                           *)
LEMMA CopyPartStep ==
  ASSUME IInv, NEW p \in Proc, CopyPart(p)
  PROVE  IInv' /\ Atomic
<1> DEFINE c == calls[p]
           i == c.part
           there == files[c.from]
           ask == [c EXCEPT !.pc = "assemble"]
           fail == [c EXCEPT !.pc = "abort"]
           w == [c.data EXCEPT ![i] = there[i]]
           j == i + 1
           more == [c EXCEPT !.data = w, !.part = j]
<1>1. /\ c.op = "copy" /\ c.pc = "parts" /\ UNCHANGED <<workload, files, sides, uploads, clean, begun>>
      /\ \/ calls' = [calls EXCEPT ![p] = ask]
         \/ calls' = [calls EXCEPT ![p] = fail]
         \/ /\ there # Nothing /\ ~(i > Len(there)) /\ ~(i > Len(c.data))
            /\ calls' = [calls EXCEPT ![p] = more]
  BY DEF CopyPart, At, disk
<1>2. RowInv(c) /\ begun' \in Nat
  BY <1>1 DEF IInv, Types
<1>3. c.key \in Key /\ c.from \in Key /\ i \in Nat \ {0} /\ c.data \in Obj
  BY <1>1, <1>2 DEF RowInv, CopyOK
<1>4. there \in File
  BY <1>3 DEF IInv, Types
<1>5. OfferOf(c) = {} /\ c.op \in WriteOp
  BY <1>1 DEF OfferOf, WriteOp
<1>6. CASE calls' = [calls EXCEPT ![p] = ask]
  <2> HIDE DEF c
  <2>1. /\ RowInv(ask) /\ ask.op = c.op /\ ask.pc = "assemble" /\ ask.key = c.key
        /\ ask.data = c.data /\ ask.disturbed = c.disturbed
    BY <1>1, <1>2, GoneOn
  <2> HIDE DEF ask
  <2>2. OfferOf(ask) = {[key |-> c.key, object |-> c.data]}
    BY <1>1, <2>1 DEF OfferOf
  <2>3. [key |-> c.key, object |-> c.data] \in [key : Key, object : File]
    BY <1>3 DEF File
  <2> QED BY <1>1, <1>2, <1>5, <1>6, <2>1, <2>2, <2>3, PrivateAsking DEF c
<1>7. CASE calls' = [calls EXCEPT ![p] = fail]
  <2> HIDE DEF c
  <2>1. /\ RowInv(fail) /\ fail.op = c.op /\ fail.pc = "abort" /\ fail.key = c.key
        /\ fail.data = c.data /\ fail.disturbed = c.disturbed
    BY <1>1, <1>2, GoneOn
  <2> HIDE DEF fail
  <2>2. OfferOf(fail) = {}
    BY <1>1, <2>1 DEF OfferOf
  <2> QED BY <1>1, <1>2, <1>5, <1>7, <2>1, <2>2, PrivateQuiet DEF c
<1>8. CASE there # Nothing /\ ~(i > Len(there)) /\ ~(i > Len(c.data)) /\ calls' = [calls EXCEPT ![p] = more]
  <2> HIDE DEF c
  <2>1. w \in Obj
    <3>1. there \in Seq(Nat \ {0}) /\ c.data \in Seq(Nat \ {0})
      BY <1>3, <1>4, <1>8 DEF File, Obj
    <3>2. i \in 1 .. Len(there) /\ i \in 1 .. Len(c.data)
      BY <1>3, <1>8, <3>1
    <3>3. there[i] \in Nat \ {0}
      BY <3>1, <3>2
    <3> HIDE DEF i, there
    <3> QED BY <3>1, <3>2, <3>3, ExceptSeq DEF Obj
  <2>2. j \in Nat \ {0}
    BY <1>3
  <2> HIDE DEF w, j
  <2>3. /\ DOMAIN more = Fields /\ more.data = w /\ more.part = j
        /\ more.op = c.op /\ more.pc = c.pc /\ more.key = c.key /\ more.from = c.from
        /\ more.tmp = c.tmp /\ more.disturbed = c.disturbed
    BY <1>2 DEF RowInv, Fields
  <2> HIDE DEF more
  <2>4. RowInv(more)
    BY <1>1, <1>3, <2>1, <2>2, <2>3
       DEF RowInv, PutOK, CopyOK, CompleteOK, DeleteOK, UploadOK, FateOK, ExactOK, AloneOK, WriteOp
  <2>5. OfferOf(more) = {}
    BY <1>1, <2>3 DEF OfferOf
  <2> QED BY <1>1, <1>2, <1>5, <1>8, <2>3, <2>4, <2>5, PrivateQuiet DEF c
<1> QED BY <1>1, <1>6, <1>7, <1>8

LEMMA Refusals ==
  ASSUME IInv, NEW p \in Proc, AssembleRefused(p) \/ AbortOwn(p) \/ LosePart(p) \/ Deliver(p)
  PROVE  IInv' /\ Atomic
<1>1. calls' = [calls EXCEPT ![p] = Idle] /\ UNCHANGED <<workload, files, sides, uploads, clean, begun>>
  BY DEF AssembleRefused, AbortOwn, LosePart, Deliver, disk
<1> QED BY <1>1, Ending

LEMMA RequestFailsStep ==
  ASSUME IInv, NEW p \in Proc, RequestFails(p)
  PROVE  IInv' /\ Atomic
<1> DEFINE c == calls[p]
           r == [c EXCEPT !.pc = "abort"]
<1>1. UNCHANGED <<workload, files, sides, uploads, clean, begun>>
  BY DEF RequestFails
<1>2. \/ Aborts(p) /\ calls' = [calls EXCEPT ![p] = r]
      \/ calls' = [calls EXCEPT ![p] = Idle]
  BY DEF RequestFails, Fail, Go
<1>3. CASE Aborts(p) /\ calls' = [calls EXCEPT ![p] = r]
  <2>1. RowInv(c) /\ begun' \in Nat
    BY <1>1 DEF IInv, Types
  <2>2. c.op \in {"put_file", "copy"} /\ c.pc \in {"parts", "assemble"}
    BY <1>3 DEF Aborts, In, At
  <2> HIDE DEF c
  <2>3. /\ RowInv(r) /\ r.op = c.op /\ r.pc = "abort" /\ r.key = c.key
        /\ r.data = c.data /\ r.disturbed = c.disturbed
    BY <2>1, <2>2, GoneOn
  <2> HIDE DEF r
  <2>4. OfferOf(r) = {}
    BY <2>2, <2>3 DEF OfferOf
  <2> QED BY <1>1, <1>3, <2>1, <2>2, <2>3, <2>4, PrivateQuiet DEF c, WriteOp
<1>4. CASE calls' = [calls EXCEPT ![p] = Idle]
  BY <1>1, <1>4, Ending
<1> QED BY <1>2, <1>3, <1>4

-----------------------------------------------------------------------------
(* Writes: the steps that change what is stored under the call's key.       *)

LEMMA UploadsSame ==
  ASSUME IInv, UNCHANGED uploads
  PROVE  /\ UploadsGo /\ PartsOutliveCompletion' /\ \A q \in Proc : PartsStay(calls'[q])
BY DEF IInv, UploadsGo, Uploads, PartsOutliveCompletion, PartsStay

LEMMA Storing ==
  ASSUME IInv, NEW p \in Proc, NEW r, calls' = [calls EXCEPT ![p] = r], RowInv(r)',
         UNCHANGED <<workload, begun, uploads>>,
         files' \in [Key -> File], DOMAIN sides' = Key, DOMAIN clean' = Key,
         calls[p].op \in WriteOp,
         r.op \in WriteOp => r.key = calls[p].key /\ r.disturbed = calls[p].disturbed,
         \A k \in Key : k # calls[p].key => files'[k] = files[k] /\ sides'[k] = sides[k],
         ~Local => UNCHANGED sides,
         \A k \in Key :
           \/ clean'[k] = clean[k]
           \/ /\ calls[p].key = k /\ calls[p].disturbed = {}
              /\ r.op \notin WriteOp
              /\ files'[k] = clean'[k]
              /\ Local /\ clean'[k] # Nothing => sides'[k] = [etag |-> clean'[k], of |-> clean'[k]]
  PROVE  IInv'
<1>1. /\ calls'[p] = r /\ DOMAIN calls' = Proc
      /\ \A q \in Proc \ {p} : Passive(calls[q], calls'[q])
  BY OnlyItself
<1>2. Types'
  BY <1>1 DEF IInv, Types
<1>3. UploadsGo /\ PartsOutliveCompletion' /\ \A q \in Proc : PartsStay(calls'[q])
  BY UploadsSame
<1> QED BY <1>1, <1>2, <1>3, Stepping

(* Nothing is stored as an object of a call that is answered.               *)
LEMMA RemoveFileStep ==
  ASSUME IInv, NEW p \in Proc, RemoveFile(p)
  PROVE  IInv' /\ Atomic
<1> DEFINE c == calls[p]
<1>0. PICK r : r = [c EXCEPT !.pc = "removeside"]
  OBVIOUS
<1>1. /\ c.op = "delete" /\ c.pc = "remove" /\ UNCHANGED <<workload, sides, uploads, clean, begun>>
      /\ files' = [files EXCEPT ![c.key] = Nothing] /\ calls' = [calls EXCEPT ![p] = r]
  BY <1>0 DEF RemoveFile, At, Go
<1>2. RowInv(c)
  BY <1>1 DEF IInv
<1>3. c.key \in Key /\ c.op \in WriteOp
  BY <1>1, <1>2 DEF RowInv, DeleteOK, WriteOp
<1>4. files' \in [Key -> File] /\ files'[c.key] = Nothing /\ \A k \in Key : k # c.key => files'[k] = files[k]
  BY <1>1, <1>3 DEF IInv, Types, File
<1> HIDE DEF c
<1>5. /\ DOMAIN r = Fields /\ r.pc = "removeside"
      /\ r.op = c.op /\ r.key = c.key /\ r.disturbed = c.disturbed
  BY <1>0, <1>2 DEF RowInv, Fields
<1>6. RowInv(r)'
  BY <1>1, <1>3, <1>4, <1>5
     DEF RowInv, PutOK, CopyOK, CompleteOK, DeleteOK, UploadOK, FateOK, ExactOK, AloneOK, WriteOp
<1>7. DOMAIN sides' = Key /\ DOMAIN clean' = Key
  BY <1>1 DEF IInv, Types
<1>8. IInv'
  BY <1>1, <1>3, <1>4, <1>5, <1>6, <1>7, Storing DEF c
<1>9. OfferOf(c) = {[key |-> c.key, object |-> Nothing]} /\ OfferOf(r) = {}
  BY <1>1, <1>5 DEF OfferOf
<1>10. calls'[p] = r /\ \A q \in Proc \ {p} : OfferOf(calls'[q]) = OfferOf(calls[q])
  BY <1>1, OnlyItself DEF c
<1>11. Atomic
  BY <1>1, <1>3, <1>9, <1>10, Publishing DEF c
<1> QED BY <1>8, <1>11

LEMMA OpenSideStep ==
  ASSUME IInv, NEW p \in Proc, OpenSide(p)
  PROVE  IInv' /\ Atomic
<1> DEFINE c == calls[p]
<1>0. PICK r : r = [c EXCEPT !.pc = "sidefill"]
  OBVIOUS
<1>1. /\ Local /\ c.op \in WriteOp /\ c.pc = "side" /\ UNCHANGED <<workload, files, uploads, clean, begun>>
      /\ sides' = [sides EXCEPT ![c.key] = Torn] /\ calls' = [calls EXCEPT ![p] = r]
  BY <1>0 DEF OpenSide, In, Go
<1>2. RowInv(c)
  BY <1>1 DEF IInv
<1>3. /\ files' \in [Key -> File] /\ DOMAIN sides' = Key /\ DOMAIN clean' = Key
      /\ \A k \in Key : k # c.key => sides'[k] = sides[k]
  BY <1>1 DEF IInv, Types
<1> HIDE DEF c
<1>4. /\ DOMAIN r = Fields /\ r.pc = "sidefill"
      /\ r.op = c.op /\ r.key = c.key /\ r.from = c.from /\ r.id = c.id /\ r.data = c.data
      /\ r.tmp = c.tmp /\ r.etag = c.etag /\ r.upload = c.upload /\ r.part = c.part
      /\ r.acked = c.acked /\ r.disturbed = c.disturbed /\ r.again = c.again
  BY <1>0, <1>2 DEF RowInv, Fields
<1>5. PutOK(r)' /\ CopyOK(r)' /\ CompleteOK(r)' /\ DeleteOK(r)' /\ UploadOK(r)'
  BY <1>1, <1>2, <1>4 DEF RowInv, PutOK, CopyOK, CompleteOK, DeleteOK, UploadOK, WriteOp, Uploads
<1>6. FateOK(r)' /\ ExactOK(r)'
  BY <1>1, <1>2, <1>4 DEF RowInv, FateOK, ExactOK
<1>7. AloneOK(r)'
  BY <1>1, <1>2, <1>4 DEF RowInv, AloneOK
<1>8. RowInv(r)'
  BY <1>4, <1>5, <1>6, <1>7 DEF RowInv
<1>9. IInv'
  BY <1>1, <1>3, <1>4, <1>8, Storing DEF c
<1>10. OfferOf(r) = OfferOf(c)
  BY <1>1, <1>4 DEF OfferOf
<1>11. calls'[p] = r /\ \A q \in Proc \ {p} : OfferOf(calls'[q]) = OfferOf(calls[q])
  BY <1>1, OnlyItself DEF c
<1>12. Atomic
  BY <1>1, <1>10, <1>11, Quiet DEF c
<1> QED BY <1>9, <1>12

LEMMA WriteSideStep ==
  ASSUME IInv, NEW p \in Proc, WriteSide(p)
  PROVE  IInv' /\ Atomic
<1> DEFINE c == calls[p]
           side == [etag |-> c.etag, of |-> c.data]
<1>0. PICK r : r = IF c.op = "complete" THEN [c EXCEPT !.pc = "drop"] ELSE Idle
  OBVIOUS
<1>1. /\ Local /\ c.op \in WriteOp /\ c.pc = "sidefill" /\ UNCHANGED <<workload, files, uploads, begun>>
      /\ sides' = [sides EXCEPT ![c.key] = side] /\ calls' = [calls EXCEPT ![p] = r]
      /\ clean' = IF c.op # "complete" /\ c.disturbed = {} THEN [clean EXCEPT ![c.key] = c.data] ELSE clean
  BY <1>0 DEF WriteSide, In, Go, Answer, Sidecar
<1>2. RowInv(c)
  BY <1>1 DEF IInv
<1>3. c.key \in Key /\ c.data \in Obj
  BY <1>1, <1>2 DEF RowInv, PutOK, CopyOK, CompleteOK, DeleteOK, WriteOp
<1>4. /\ files' \in [Key -> File] /\ DOMAIN sides' = Key /\ DOMAIN clean' = Key
      /\ \A k \in Key : k # c.key => sides'[k] = sides[k] /\ clean'[k] = clean[k]
      /\ sides'[c.key] = side
      /\ clean'[c.key] = clean[c.key] \/ (c.op # "complete" /\ c.disturbed = {} /\ clean'[c.key] = c.data)
  BY <1>1, <1>3 DEF IInv, Types
<1>5. c.disturbed = {} => files[c.key] = c.data /\ c.etag = c.data
  BY <1>1, <1>2 DEF RowInv, AloneOK
<1>6. c.data # Nothing
  BY <1>3 DEF Obj, Nothing
<1> HIDE DEF c
<1>7. /\ r.op \in WriteOp => c.op = "complete" /\ r.key = c.key /\ r.disturbed = c.disturbed
      /\ RowInv(r)' /\ (OfferOf(r) = OfferOf(c) \/ OfferOf(r) = {})
      /\ c.op # "complete" => r.op \notin WriteOp
  <2>1. CASE c.op = "complete"
    <3>1. r = [c EXCEPT !.pc = "drop"]
      BY <1>0, <2>1
    <3>2. /\ DOMAIN r = Fields /\ r.pc = "drop"
          /\ r.op = c.op /\ r.key = c.key /\ r.from = c.from /\ r.id = c.id /\ r.data = c.data
          /\ r.tmp = c.tmp /\ r.etag = c.etag /\ r.upload = c.upload /\ r.part = c.part
          /\ r.acked = c.acked /\ r.disturbed = c.disturbed /\ r.again = c.again
      BY <1>2, <3>1 DEF RowInv, Fields
    <3>3. PutOK(r)' /\ CopyOK(r)' /\ CompleteOK(r)' /\ DeleteOK(r)' /\ UploadOK(r)'
      BY <1>1, <1>2, <3>2, <2>1 DEF RowInv, PutOK, CopyOK, CompleteOK, DeleteOK, UploadOK, WriteOp, Uploads
    <3>4. FateOK(r)' /\ ExactOK(r)'
      BY <1>1, <1>2, <3>2 DEF RowInv, FateOK, ExactOK
    <3>5. AloneOK(r)'
      BY <1>1, <1>4, <1>5, <3>2 DEF AloneOK
    <3>6. RowInv(r)'
      BY <3>2, <3>3, <3>4, <3>5 DEF RowInv
    <3>7. OfferOf(r) = OfferOf(c)
      BY <1>1, <3>2 DEF OfferOf
    <3> QED BY <2>1, <3>2, <3>6, <3>7
  <2>2. CASE c.op # "complete"
    <3>1. r = Idle
      BY <1>0, <2>2
    <3>2. r.op = "none" /\ DOMAIN r = Fields
      BY <3>1, IdleRow
    <3>3. RowInv(r)' /\ OfferOf(r) = {} /\ r.op \notin WriteOp
      BY <3>2 DEF RowInv, PutOK, CopyOK, CompleteOK, DeleteOK, UploadOK, FateOK, ExactOK, AloneOK, WriteOp, OfferOf
    <3> QED BY <2>2, <3>3
  <2> QED BY <2>1, <2>2
<1>8. ASSUME NEW k \in Key
      PROVE  \/ clean'[k] = clean[k]
             \/ /\ c.key = k /\ c.disturbed = {}
                /\ r.op \notin WriteOp
                /\ files'[k] = clean'[k]
                /\ Local /\ clean'[k] # Nothing => sides'[k] = [etag |-> clean'[k], of |-> clean'[k]]
  BY <1>1, <1>4, <1>5, <1>6, <1>7
<1> HIDE DEF side
<1>9. IInv'
  BY <1>1, <1>4, <1>7, <1>8, Storing DEF c
<1>10. calls'[p] = r /\ \A q \in Proc \ {p} : OfferOf(calls'[q]) = OfferOf(calls[q])
  BY <1>1, OnlyItself DEF c
<1>11. Atomic
  BY <1>1, <1>7, <1>10, Quiet DEF c
<1> QED BY <1>9, <1>11

LEMMA IdleAfter == RowInv(Idle)' /\ Idle.op \notin WriteOp /\ OfferOf(Idle) = {}
BY IdleRow
   DEF RowInv, PutOK, CopyOK, CompleteOK, DeleteOK, UploadOK, FateOK, ExactOK, AloneOK, WriteOp, OfferOf

(* A write is answered.                                                     *)
LEMMA Answering ==
  ASSUME IInv, NEW p \in Proc, NEW b \in File, calls[p].op \in WriteOp, calls[p].key \in Key,
         UNCHANGED <<workload, uploads, begun>>, calls' = [calls EXCEPT ![p] = Idle],
         clean' = IF calls[p].disturbed = {} THEN [clean EXCEPT ![calls[p].key] = b] ELSE clean,
         files' \in [Key -> File], DOMAIN sides' = Key,
         \A k \in Key : k # calls[p].key => files'[k] = files[k] /\ sides'[k] = sides[k],
         calls[p].disturbed = {} => files'[calls[p].key] = b,
         Local /\ b # Nothing => sides'[calls[p].key] = [etag |-> b, of |-> b],
         ~Local => UNCHANGED sides
  PROVE  IInv'
<1>1. /\ DOMAIN clean' = Key
      /\ \A k \in Key : k # calls[p].key => clean'[k] = clean[k]
      /\ clean'[calls[p].key] = clean[calls[p].key] \/ (calls[p].disturbed = {} /\ clean'[calls[p].key] = b)
  BY DEF IInv, Types
<1>2. ASSUME NEW k \in Key
      PROVE  \/ clean'[k] = clean[k]
             \/ /\ calls[p].key = k /\ calls[p].disturbed = {}
                /\ Idle.op \notin WriteOp
                /\ files'[k] = clean'[k]
                /\ Local /\ clean'[k] # Nothing => sides'[k] = [etag |-> clean'[k], of |-> clean'[k]]
  BY <1>1, IdleAfter
<1>3. /\ RowInv(Idle)'
      /\ Idle.op \in WriteOp => Idle.key = calls[p].key /\ Idle.disturbed = calls[p].disturbed
  BY IdleAfter
<1> QED BY <1>1, <1>2, <1>3, Storing

LEMMA RemoveSideStep ==
  ASSUME IInv, NEW p \in Proc, RemoveSide(p)
  PROVE  IInv' /\ Atomic
<1> DEFINE c == calls[p]
<1>1. /\ Local /\ c.op = "delete" /\ c.pc = "removeside" /\ UNCHANGED <<workload, files, uploads, begun>>
      /\ sides' \in {sides, [sides EXCEPT ![c.key] = NoSide]} /\ calls' = [calls EXCEPT ![p] = Idle]
      /\ clean' = IF c.disturbed = {} THEN [clean EXCEPT ![c.key] = Nothing] ELSE clean
  BY DEF RemoveSide, At, Answer
<1>2. RowInv(c)
  BY <1>1 DEF IInv
<1>3. c.key \in Key /\ c.op \in WriteOp /\ (c.disturbed = {} => files[c.key] = Nothing)
  BY <1>1, <1>2 DEF RowInv, DeleteOK, AloneOK, WriteOp
<1>4. /\ files' \in [Key -> File] /\ DOMAIN sides' = Key /\ Nothing \in File
      /\ \A k \in Key : k # c.key => sides'[k] = sides[k]
  BY <1>1, <1>3 DEF IInv, Types, File
<1>6. IInv'
  BY <1>1, <1>3, <1>4, Answering
<1>7. calls'[p] = Idle /\ \A q \in Proc \ {p} : OfferOf(calls'[q]) = OfferOf(calls[q])
  BY <1>1, OnlyItself DEF c
<1>8. Atomic
  BY <1>1, <1>7, IdleAfter, Quiet DEF c
<1> QED BY <1>6, <1>8

(* On S3 a write that has been carried out goes on to look at the object ... *)
LEMMA HeadRow ==
  ASSUME NEW c, NEW r, RowInv(c), c.op \in {"put", "put_file", "copy", "complete"},
         c.pc \in {"send", "assemble"}, r = [c EXCEPT !.pc = "head"], files'[c.key] = c.data, UploadsGo
  PROVE  /\ RowInv(r)' /\ r.op = c.op /\ r.pc = "head" /\ r.key = c.key /\ r.disturbed = c.disturbed
         /\ OfferOf(r) = {}
<1>1. /\ DOMAIN r = Fields /\ r.pc = "head"
      /\ r.op = c.op /\ r.key = c.key /\ r.from = c.from /\ r.id = c.id /\ r.data = c.data
      /\ r.tmp = c.tmp /\ r.etag = c.etag /\ r.upload = c.upload /\ r.part = c.part
      /\ r.acked = c.acked /\ r.disturbed = c.disturbed /\ r.again = c.again
  BY DEF RowInv, Fields
<1>2. PutOK(r)' /\ CopyOK(r)' /\ CompleteOK(r)' /\ DeleteOK(r)' /\ UploadOK(r)'
  BY <1>1 DEF RowInv, PutOK, CopyOK, CompleteOK, DeleteOK, UploadOK, UploadsGo
<1>3. FateOK(r)' /\ ExactOK(r)'
  BY <1>1 DEF FateOK, ExactOK
<1>4. AloneOK(r)'
  BY <1>1 DEF AloneOK
<1>5. RowInv(r)'
  BY <1>1, <1>2, <1>3, <1>4 DEF RowInv
<1>6. OfferOf(r) = {}
  BY <1>1 DEF OfferOf
<1> QED BY <1>1, <1>5, <1>6

(* ... or loses its answer.                                                 *)
LEMMA StoredOnS3 ==
  ASSUME IInv, NEW p \in Proc, NEW b \in File, NEW r, ~Local, calls[p].op \in WriteOp, calls[p].key \in Key,
         UNCHANGED <<workload, sides, uploads, begun, clean>>,
         files' = [files EXCEPT ![calls[p].key] = b],
         calls' = [calls EXCEPT ![p] = r], RowInv(r)',
         r.op \in WriteOp => r.key = calls[p].key /\ r.disturbed = calls[p].disturbed,
         OfferOf(r) = {},
         \/ OfferOf(calls[p]) = {[key |-> calls[p].key, object |-> b]}
         \/ \E f \in Key : /\ OfferOf(calls[p]) = {[key |-> calls[p].key, from |-> f]}
                           /\ files[f] = b /\ b # Nothing
  PROVE  IInv' /\ Atomic
<1>1. /\ files' \in [Key -> File] /\ DOMAIN sides' = Key /\ DOMAIN clean' = Key
      /\ \A k \in Key : k # calls[p].key => files'[k] = files[k]
  BY DEF IInv, Types
<1>2. IInv'
  BY <1>1, Storing
<1>3. calls'[p] = r /\ \A q \in Proc \ {p} : OfferOf(calls'[q]) = OfferOf(calls[q])
  BY OnlyItself
<1>4. Atomic
  BY <1>3, Publishing, PublishingCopy
<1> QED BY <1>2, <1>4

LEMMA SentStep ==
  ASSUME IInv, NEW p \in Proc, SendWhole(p) \/ AssembleOwn(p)
  PROVE  IInv' /\ Atomic
<1> DEFINE c == calls[p]
<1>0. PICK r : r = [c EXCEPT !.pc = "head"]
  OBVIOUS
<1>1. /\ ~Local /\ UNCHANGED <<workload, sides, uploads, begun, clean>>
      /\ \/ c.op \in {"put", "put_file"} /\ c.pc = "send"
         \/ c.op \in {"put_file", "copy"} /\ c.pc = "assemble"
      /\ files' = [files EXCEPT ![c.key] = c.data]
      /\ calls' = [calls EXCEPT ![p] = r] \/ calls' = [calls EXCEPT ![p] = Idle]
  BY <1>0 DEF SendWhole, AssembleOwn, In, Goes, Go, AnswerLost
<1>2. RowInv(c)
  BY DEF IInv
<1>3. c.key \in Key /\ c.data \in File /\ c.op \in WriteOp
  BY <1>1, <1>2 DEF RowInv, PutOK, CopyOK, WriteOp, File
<1>4. files'[c.key] = c.data
  BY <1>1, <1>3 DEF IInv, Types
<1>5. UploadsGo
  BY <1>1, UploadsSame
<1> HIDE DEF c
<1>6. OfferOf(c) = {[key |-> c.key, object |-> c.data]}
  BY <1>1 DEF OfferOf
<1>7. RowInv(r)' /\ r.op = c.op /\ r.key = c.key /\ r.disturbed = c.disturbed /\ OfferOf(r) = {}
  <2>1. ASSUME NEW d, d = c PROVE RowInv(r)' /\ r.op = d.op /\ r.key = d.key /\ r.disturbed = d.disturbed /\ OfferOf(r) = {}
    BY <1>0, <1>1, <1>2, <1>4, <1>5, <2>1, HeadRow
  <2> QED BY <2>1
<1>8. CASE calls' = [calls EXCEPT ![p] = r]
  BY <1>1, <1>3, <1>6, <1>7, <1>8, StoredOnS3 DEF c
<1>9. CASE calls' = [calls EXCEPT ![p] = Idle]
  BY <1>1, <1>3, <1>6, <1>9, IdleAfter, StoredOnS3 DEF c
<1> QED BY <1>1, <1>8, <1>9

LEMMA CopyWholeStep ==
  ASSUME IInv, NEW p \in Proc, CopyWhole(p)
  PROVE  IInv' /\ Atomic
<1> DEFINE c == calls[p]
           there == files[c.from]
<1>0. PICK r : r = [c EXCEPT !.pc = "head", !.data = there]
  OBVIOUS
<1>1. /\ ~Local /\ UNCHANGED <<workload, sides, uploads, begun, clean>>
      /\ c.op = "copy" /\ c.pc = "send" /\ ~(Len(c.data) > SingleMax)
      /\ \/ calls' = [calls EXCEPT ![p] = Idle] /\ files' = files
         \/ /\ files' = [files EXCEPT ![c.key] = there] /\ there # Nothing
            /\ calls' = [calls EXCEPT ![p] = r] \/ calls' = [calls EXCEPT ![p] = Idle]
  BY <1>0 DEF CopyWhole, At, Big, AnswerLost
<1>2. RowInv(c)
  BY DEF IInv
<1>3. c.key \in Key /\ c.from \in Key /\ c.op \in WriteOp /\ c.part \in Nat \ {0}
  BY <1>1, <1>2 DEF RowInv, CopyOK, WriteOp
<1>4. there \in File
  BY <1>3 DEF IInv, Types
<1>5. CASE calls' = [calls EXCEPT ![p] = Idle] /\ files' = files
  BY <1>1, <1>5, Ending
<1>6. CASE files' = [files EXCEPT ![c.key] = there] /\ there # Nothing
  <2>1. files'[c.key] = there /\ there \in Obj
    BY <1>3, <1>4, <1>6 DEF IInv, Types, File
  <2> HIDE DEF c, there
  <2>2. /\ DOMAIN r = Fields /\ r.pc = "head" /\ r.data = there
        /\ r.op = c.op /\ r.key = c.key /\ r.from = c.from /\ r.part = c.part /\ r.disturbed = c.disturbed
    BY <1>0, <1>2 DEF RowInv, Fields
  <2>3. RowInv(r)'
    BY <1>1, <1>3, <2>1, <2>2
       DEF RowInv, PutOK, CopyOK, CompleteOK, DeleteOK, UploadOK, FateOK, ExactOK, AloneOK, WriteOp
  <2>4. OfferOf(r) = {} /\ OfferOf(c) = {[key |-> c.key, from |-> c.from]}
    BY <1>1, <2>2 DEF OfferOf
  <2>5. files[c.from] = there
    BY DEF there
  <2>6. CASE calls' = [calls EXCEPT ![p] = r]
    BY <1>1, <1>3, <1>4, <1>6, <2>2, <2>3, <2>4, <2>5, <2>6, StoredOnS3 DEF c
  <2>7. CASE calls' = [calls EXCEPT ![p] = Idle]
    BY <1>1, <1>3, <1>4, <1>6, <2>4, <2>5, <2>7, IdleAfter, StoredOnS3 DEF c
  <2>8. calls' = [calls EXCEPT ![p] = r] \/ calls' = [calls EXCEPT ![p] = Idle]
    BY <1>1 DEF there, c
  <2> QED BY <2>6, <2>7, <2>8
<1> QED BY <1>1, <1>5, <1>6

LEMMA RemoveObjectStep ==
  ASSUME IInv, NEW p \in Proc, RemoveObject(p)
  PROVE  IInv' /\ Atomic
<1> DEFINE c == calls[p]
<1>1. /\ ~Local /\ UNCHANGED <<workload, sides, uploads, begun>> /\ c.op = "delete" /\ c.pc = "remove"
      /\ files' = [files EXCEPT ![c.key] = Nothing] /\ calls' = [calls EXCEPT ![p] = Idle]
      /\ clean' = clean \/ clean' = IF c.disturbed = {} THEN [clean EXCEPT ![c.key] = Nothing] ELSE clean
  BY DEF RemoveObject, At, Answer, AnswerLost
<1>2. RowInv(c)
  BY DEF IInv
<1>3. c.key \in Key /\ c.op \in WriteOp /\ Nothing \in File
  BY <1>1, <1>2 DEF RowInv, DeleteOK, WriteOp, File
<1>4. /\ files' \in [Key -> File] /\ files'[c.key] = Nothing /\ DOMAIN sides' = Key
      /\ \A k \in Key : k # c.key => files'[k] = files[k] /\ sides'[k] = sides[k]
  BY <1>1, <1>3 DEF IInv, Types
<1> HIDE DEF c
<1>5. OfferOf(c) = {[key |-> c.key, object |-> Nothing]}
  BY <1>1 DEF OfferOf
<1>6. CASE clean' = clean
  BY <1>1, <1>3, <1>5, <1>6, IdleAfter, StoredOnS3 DEF c
<1>7. CASE clean' = IF c.disturbed = {} THEN [clean EXCEPT ![c.key] = Nothing] ELSE clean
  <2>1. IInv'
    BY <1>1, <1>3, <1>4, <1>7, Answering DEF c
  <2>2. calls'[p] = Idle /\ \A q \in Proc \ {p} : OfferOf(calls'[q]) = OfferOf(calls[q])
    BY <1>1, OnlyItself
  <2>3. Atomic
    BY <1>1, <1>3, <1>5, <2>2, IdleAfter, Publishing DEF c
  <2> QED BY <2>1, <2>3
<1> QED BY <1>1, <1>6, <1>7

LEMMA HeadWrittenStep ==
  ASSUME IInv, NEW p \in Proc, HeadWritten(p)
  PROVE  IInv' /\ Atomic
<1> DEFINE c == calls[p]
<1>1. /\ ~Local /\ UNCHANGED <<workload, files, sides, uploads, begun>> /\ c.op \in WriteOp /\ c.pc = "head"
      /\ calls' = [calls EXCEPT ![p] = Idle]
      /\ clean' = clean \/ clean' = IF c.disturbed = {} THEN [clean EXCEPT ![c.key] = c.data] ELSE clean
  BY DEF HeadWritten, In, Answer, disk
<1>2. RowInv(c)
  BY DEF IInv
<1>3. c.key \in Key /\ c.data \in File /\ (c.disturbed = {} => files[c.key] = c.data)
  <2>1. c.op # "delete"
    BY <1>1, <1>2 DEF RowInv, DeleteOK
  <2> QED BY <1>1, <1>2, <2>1 DEF RowInv, PutOK, CopyOK, CompleteOK, AloneOK, WriteOp, File
<1>4. files' \in [Key -> File] /\ DOMAIN sides' = Key /\ UNCHANGED sides /\ UNCHANGED files
  BY <1>1 DEF IInv, Types
<1>5. CASE clean' = clean
  BY <1>1, <1>5, Ending
<1>6. CASE clean' = IF c.disturbed = {} THEN [clean EXCEPT ![c.key] = c.data] ELSE clean
  <2>1. IInv'
    BY <1>1, <1>3, <1>4, <1>6, Answering
  <2>2. calls'[p] = Idle /\ \A q \in Proc \ {p} : OfferOf(calls'[q]) = OfferOf(calls[q])
    BY <1>1, OnlyItself
  <2>3. Atomic
    BY <1>1, <2>2, IdleAfter, Quiet
  <2> QED BY <2>1, <2>3
<1> QED BY <1>1, <1>5, <1>6

-----------------------------------------------------------------------------
(* Multipart uploads.                                                       *)

(* One upload changes: it is not opened again, and a part of it is missing  *)
(* only when nothing is owed.                                               *)
LEMMA Uploading ==
  ASSUME IInv, NEW u \in Uploads, NEW x \in UploadRow, uploads' = [uploads EXCEPT ![u] = x],
         uploads[u].fate # "open" => x.fate # "open",
         x.fate = "open" => \A i \in PartNo : x.acks[i] # {} => x.parts[i] # NoPart
  PROVE  /\ uploads' \in Seq(UploadRow) /\ Uploads' = Uploads /\ UploadsGo /\ PartsOutliveCompletion'
         /\ uploads'[u] = x /\ \A v \in Uploads \ {u} : uploads'[v] = uploads[v]
<1>1. uploads \in Seq(UploadRow) /\ u \in 1 .. Len(uploads)
  BY DEF IInv, Types, Uploads
<1>2. /\ uploads' \in Seq(UploadRow) /\ Len(uploads') = Len(uploads)
      /\ \A v \in 1 .. Len(uploads) : uploads'[v] = IF v = u THEN x ELSE uploads[v]
  BY <1>1, ExceptSeq
<1>3. Uploads' = Uploads
  BY <1>2 DEF Uploads
<1>4. uploads'[u] = x /\ \A v \in Uploads \ {u} : uploads'[v] = uploads[v]
  BY <1>1, <1>2 DEF Uploads
<1>5. UploadsGo
  BY <1>3, <1>4 DEF UploadsGo
<1>6. PartsOutliveCompletion'
  BY <1>3, <1>4 DEF IInv, PartsOutliveCompletion
<1> QED BY <1>2, <1>3, <1>4, <1>5, <1>6

LEMMA PartsKept ==
  ASSUME IInv, NEW u \in Uploads, NEW x \in UploadRow,
         uploads'[u] = x, \A v \in Uploads \ {u} : uploads'[v] = uploads[v],
         \A i \in PartNo : x.parts[i] \in {uploads[u].parts[i], NoPart},
         NEW d, d.op = "complete" => d.upload \in Uploads
  PROVE  PartsStay(d)
BY DEF PartsStay

(* A step of the uploads, without a write.                                  *)
LEMMA UploadsOnly ==
  ASSUME IInv, NEW p \in Proc, NEW r, calls'[p] = r, DOMAIN calls' = Proc, RowInv(r)',
         UNCHANGED <<workload, files, sides, begun, clean>>,
         uploads' \in Seq(UploadRow), UploadsGo, PartsOutliveCompletion',
         \A q \in Proc \ {p} : Passive(calls[q], calls'[q]) /\ PartsStay(calls'[q]),
         calls[p].op \notin WriteOp, r.op \notin WriteOp
  PROVE  IInv' /\ Atomic
<1>1. Types'
  BY DEF IInv, Types
<1>2. IInv'
  BY <1>1, Stepping
<1>3. \A q \in Proc \ {p} : OfferOf(calls'[q]) = OfferOf(calls[q])
  BY PassiveOffer
<1>4. OfferOf(calls'[p]) = {}
  BY NoOffer
<1>5. Atomic
  BY <1>3, <1>4, Quiet
<1> QED BY <1>2, <1>5

(* Rows of the uploads.                                                     *)
LEMMA RowOfUpload ==
  ASSUME IInv, NEW u \in Uploads
  PROVE  /\ uploads[u] \in UploadRow
         /\ Closed(u) \in UploadRow /\ Closed(u).fate = uploads[u].fate
         /\ \A i \in PartNo : Closed(u).parts[i] = NoPart
<1> DEFINE x == uploads[u]
           none == [i \in PartNo |-> NoPart]
<1>1. x \in UploadRow
  BY DEF IInv, Types, Uploads
<1>2. Closed(u) = [x EXCEPT !.open = FALSE, !.dir = FALSE, !.meta = "none", !.parts = none]
  BY DEF Closed
<1>3. none \in [PartNo -> Nat] /\ \A i \in PartNo : none[i] = NoPart
  BY DEF NoPart
<1> HIDE DEF x, none
<1>4. [x EXCEPT !.open = FALSE, !.dir = FALSE, !.meta = "none", !.parts = none] \in UploadRow
  BY <1>1, <1>3 DEF UploadRow
<1>5. [x EXCEPT !.open = FALSE, !.dir = FALSE, !.meta = "none", !.parts = none].fate = x.fate
      /\ [x EXCEPT !.open = FALSE, !.dir = FALSE, !.meta = "none", !.parts = none].parts = none
  BY <1>1 DEF UploadRow
<1> QED BY <1>1, <1>2, <1>3, <1>4, <1>5 DEF x

LEMMA CompletersKnow ==
  ASSUME IInv
  PROVE  \A q \in Proc : calls[q].op = "complete" => calls[q].upload \in Uploads
<1> TAKE q \in Proc
<1> DEFINE c == calls[q]
<1>1. RowInv(c)
  BY DEF IInv
<1> HIDE DEF c
<1>2. c.op = "complete" => c.upload \in Uploads
  BY <1>1 DEF RowInv, CompleteOK
<1> QED BY <1>2 DEF c

(* A write publishes what it has offered.                                   *)
LEMMA PublishedRow ==
  ASSUME IInv, NEW p \in Proc, NEW b \in File, NEW r, calls' = [calls EXCEPT ![p] = r], RowInv(r)',
         calls[p].op \in WriteOp, calls[p].key \in Key,
         UNCHANGED <<workload, sides, begun, clean>>,
         files' = [files EXCEPT ![calls[p].key] = b],
         uploads' \in Seq(UploadRow), UploadsGo, PartsOutliveCompletion',
         \A q \in Proc \ {p} : PartsStay(calls[q]),
         r.op \in WriteOp => r.key = calls[p].key /\ r.disturbed = calls[p].disturbed,
         OfferOf(r) = {}, OfferOf(calls[p]) = {[key |-> calls[p].key, object |-> b]}
  PROVE  IInv' /\ Atomic
<1>1. /\ calls'[p] = r /\ DOMAIN calls' = Proc
      /\ \A q \in Proc \ {p} : /\ Passive(calls[q], calls'[q]) /\ calls'[q] = calls[q]
                               /\ OfferOf(calls'[q]) = OfferOf(calls[q])
  BY OnlyItself
<1>2. /\ files' \in [Key -> File] /\ \A k \in Key : k # calls[p].key => files'[k] = files[k]
  BY DEF IInv, Types
<1>3. Types'
  BY <1>1, <1>2 DEF IInv, Types
<1>4. \A q \in Proc \ {p} : Passive(calls[q], calls'[q]) /\ PartsStay(calls'[q])
  <2> TAKE q \in Proc \ {p}
  <2>1. ASSUME NEW d, PartsStay(d), d = calls'[q] PROVE PartsStay(calls'[q])
    BY <2>1 DEF PartsStay
  <2>2. PartsStay(calls[q]) /\ calls[q] = calls'[q]
    BY <1>1
  <2> QED BY <1>1, <2>1, <2>2
<1>5. IInv'
  BY <1>1, <1>2, <1>3, <1>4, Stepping
<1>6. Atomic
  BY <1>1, Publishing
<1> QED BY <1>5, <1>6

LEMMA FateRow ==
  ASSUME IInv, NEW u \in Uploads, NEW f \in {"open", "assembled", "aborted"}
  PROVE  LET x == [uploads[u] EXCEPT !.fate = f]
         IN /\ x \in UploadRow /\ x.fate = f /\ x.parts = uploads[u].parts /\ x.acks = uploads[u].acks
<1> DEFINE y == uploads[u]
<1>1. y \in UploadRow
  BY RowOfUpload
<1> HIDE DEF y
<1>2. /\ [y EXCEPT !.fate = f] \in UploadRow /\ [y EXCEPT !.fate = f].fate = f
      /\ [y EXCEPT !.fate = f].parts = y.parts /\ [y EXCEPT !.fate = f].acks = y.acks
  BY <1>1 DEF UploadRow
<1> QED BY <1>2 DEF y

LEMMA RenameStep ==
  ASSUME IInv, NEW p \in Proc, Rename(p)
  PROVE  IInv' /\ Atomic
<1> DEFINE c == calls[p]
<1>0. PICK r : r = [c EXCEPT !.pc = "describe", !.data = c.tmp, !.tmp = Nothing]
  OBVIOUS
<1>1. /\ Local /\ c.op \in WriteOp /\ c.pc = "rename" /\ UNCHANGED <<workload, sides, begun, clean>>
      /\ files' = [files EXCEPT ![c.key] = c.tmp] /\ calls' = [calls EXCEPT ![p] = r]
      /\ uploads' = IF c.op = "complete" THEN [uploads EXCEPT ![c.upload].fate = "assembled"] ELSE uploads
  BY <1>0 DEF Rename, In
<1>2. RowInv(c)
  BY DEF IInv
<1>3. /\ c.key \in Key /\ c.tmp \in Obj /\ c.op # "delete"
      /\ c.op = "complete" => c.upload \in Uploads
  BY <1>1, <1>2 DEF RowInv, PutOK, CopyOK, CompleteOK, DeleteOK, WriteOp
<1>4. files'[c.key] = c.tmp /\ c.tmp \in File
  BY <1>1, <1>3 DEF IInv, Types, File
<1>5. /\ uploads' \in Seq(UploadRow) /\ UploadsGo /\ PartsOutliveCompletion'
      /\ \A q \in Proc \ {p} : PartsStay(calls[q])
      /\ c.op = "complete" => uploads'[c.upload].fate = "assembled" /\ c.upload \in Uploads'
  <2>1. CASE c.op = "complete"
    <3>1. PICK x : x = [uploads[c.upload] EXCEPT !.fate = "assembled"]
      OBVIOUS
    <3>2. x \in UploadRow /\ x.fate = "assembled" /\ x.parts = uploads[c.upload].parts
      BY <1>3, <2>1, <3>1, FateRow
    <3>3. uploads' = [uploads EXCEPT ![c.upload] = x]
      BY <1>1, <2>1, <3>1
    <3>4. PICK u : u = c.upload
      OBVIOUS
    <3>5. u \in Uploads
      BY <1>3, <2>1, <3>4
    <3>6. /\ uploads' \in Seq(UploadRow) /\ Uploads' = Uploads /\ UploadsGo /\ PartsOutliveCompletion'
          /\ uploads'[u] = x /\ \A v \in Uploads \ {u} : uploads'[v] = uploads[v]
      BY <3>2, <3>3, <3>4, <3>5, Uploading
    <3>7. \A q \in Proc \ {p} : PartsStay(calls[q])
      <4>1. ASSUME NEW q \in Proc, NEW d, d = calls[q] PROVE PartsStay(d)
        BY <3>2, <3>4, <3>5, <3>6, <4>1, CompletersKnow, PartsKept
      <4>2. ASSUME NEW q \in Proc PROVE PartsStay(calls[q])
        BY <4>1, <4>2 DEF PartsStay
      <4> QED BY <4>2
    <3> QED BY <3>2, <3>4, <3>5, <3>6, <3>7
  <2>2. CASE c.op # "complete"
    <3>1. UNCHANGED uploads
      BY <1>1, <2>2
    <3> QED BY <2>2, <3>1 DEF IInv, Types, UploadsGo, Uploads, PartsOutliveCompletion, PartsStay
  <2> QED BY <2>1, <2>2
<1> HIDE DEF c
<1>6. /\ DOMAIN r = Fields /\ r.pc = "describe" /\ r.data = c.tmp
      /\ r.op = c.op /\ r.key = c.key /\ r.from = c.from /\ r.id = c.id
      /\ r.upload = c.upload /\ r.part = c.part
      /\ r.acked = c.acked /\ r.disturbed = c.disturbed /\ r.again = c.again
  BY <1>0, <1>2 DEF RowInv, Fields
<1>7. PutOK(r)' /\ CopyOK(r)' /\ CompleteOK(r)' /\ DeleteOK(r)' /\ UploadOK(r)'
  BY <1>1, <1>2, <1>3, <1>5, <1>6 DEF RowInv, PutOK, CopyOK, CompleteOK, DeleteOK, UploadOK, WriteOp
<1>8. FateOK(r)' /\ ExactOK(r)'
  BY <1>5, <1>6 DEF FateOK, ExactOK
<1>9. AloneOK(r)'
  BY <1>4, <1>6 DEF AloneOK
<1>10. RowInv(r)'
  BY <1>6, <1>7, <1>8, <1>9 DEF RowInv
<1>11. OfferOf(r) = {} /\ OfferOf(c) = {[key |-> c.key, object |-> c.tmp]}
  <2>1. c.op \in {"put", "put_file"} => c.data = c.tmp
    BY <1>1, <1>2 DEF RowInv, PutOK
  <2> QED BY <1>1, <1>3, <1>6, <2>1 DEF OfferOf, WriteOp
<1> QED BY <1>1, <1>3, <1>4, <1>5, <1>6, <1>10, <1>11, PublishedRow DEF c

LEMMA AssembleStep ==
  ASSUME IInv, NEW p \in Proc, Assemble(p)
  PROVE  IInv' /\ Atomic
<1> DEFINE c == calls[p]
<1>0. PICK r : r = [c EXCEPT !.pc = "head"]
  OBVIOUS
<1>1. PICK u : u = c.upload
  OBVIOUS
<1>2. PICK x : x = [Closed(u) EXCEPT !.fate = "assembled"]
  OBVIOUS
<1>3. /\ c.op = "complete" /\ c.pc = "assemble" /\ UNCHANGED <<workload, sides, begun, clean>>
      /\ files' = [files EXCEPT ![c.key] = c.acked]
      /\ calls' = [calls EXCEPT ![p] = r] \/ calls' = [calls EXCEPT ![p] = Idle]
      /\ uploads' = [uploads EXCEPT ![u] = x]
  BY <1>0, <1>1, <1>2 DEF Assemble, At, Goes, Go, AnswerLost
<1>4. RowInv(c)
  BY DEF IInv
<1>5. /\ c.key \in Key /\ c.acked \in File /\ c.data = c.acked /\ u \in Uploads /\ c.op \in WriteOp
  BY <1>1, <1>3, <1>4 DEF RowInv, CompleteOK, WriteOp, File
<1>6. x \in UploadRow /\ x.fate = "assembled" /\ \A i \in PartNo : x.parts[i] = NoPart
  <2>1. Closed(u) \in UploadRow /\ \A i \in PartNo : Closed(u).parts[i] = NoPart
    BY <1>5, RowOfUpload
  <2>2. ASSUME NEW y \in UploadRow
        PROVE  [y EXCEPT !.fate = "assembled"] \in UploadRow /\ [y EXCEPT !.fate = "assembled"].fate = "assembled"
               /\ [y EXCEPT !.fate = "assembled"].parts = y.parts
    BY DEF UploadRow
  <2> QED BY <1>2, <2>1, <2>2
<1>7. /\ uploads' \in Seq(UploadRow) /\ UploadsGo /\ PartsOutliveCompletion'
      /\ uploads'[u] = x /\ \A v \in Uploads \ {u} : uploads'[v] = uploads[v]
  BY <1>3, <1>5, <1>6, Uploading
<1>8. \A q \in Proc \ {p} : PartsStay(calls[q])
  <2>1. ASSUME NEW q \in Proc, NEW d, d = calls[q] PROVE PartsStay(d)
    BY <1>5, <1>6, <1>7, <2>1, CompletersKnow, PartsKept
  <2>2. ASSUME NEW q \in Proc PROVE PartsStay(calls[q])
    BY <2>1, <2>2 DEF PartsStay
  <2> QED BY <2>2
<1>9. files'[c.key] = c.data
  BY <1>3, <1>5 DEF IInv, Types
<1> HIDE DEF c
<1>10. OfferOf(c) = {[key |-> c.key, object |-> c.acked]}
  BY <1>3 DEF OfferOf
<1>11. RowInv(r)' /\ r.op = c.op /\ r.key = c.key /\ r.disturbed = c.disturbed /\ OfferOf(r) = {}
  <2>1. ASSUME NEW d, d = c PROVE RowInv(r)' /\ r.op = d.op /\ r.key = d.key /\ r.disturbed = d.disturbed /\ OfferOf(r) = {}
    BY <1>0, <1>3, <1>4, <1>7, <1>9, <2>1, HeadRow
  <2> QED BY <2>1
<1>12. CASE calls' = [calls EXCEPT ![p] = r]
  BY <1>3, <1>5, <1>7, <1>8, <1>10, <1>11, <1>12, PublishedRow DEF c
<1>13. CASE calls' = [calls EXCEPT ![p] = Idle]
  BY <1>3, <1>5, <1>7, <1>8, <1>10, <1>13, IdleAfter, PublishedRow DEF c
<1> QED BY <1>3, <1>12, <1>13

(* A directory that goes takes the parts that are being stored with it, and *)
(* an upload that is assembled or aborted has no parts any more.            *)
LEMMA WithoutDirRows ==
  ASSUME IInv, NEW p \in Proc, NEW u \in Uploads, NEW x \in UploadRow,
         uploads' = [uploads EXCEPT ![u] = x], x.fate # "open", \A i \in PartNo : x.parts[i] = NoPart,
         calls' = [WithoutDir(u) EXCEPT ![p] = Idle]
  PROVE  /\ calls'[p] = Idle /\ DOMAIN calls' = Proc
         /\ uploads' \in Seq(UploadRow) /\ UploadsGo /\ PartsOutliveCompletion'
         /\ \A q \in Proc \ {p} : Passive(calls[q], calls'[q]) /\ PartsStay(calls'[q])
<1>1. /\ calls'[p] = Idle /\ DOMAIN calls' = Proc
      /\ \A q \in Proc \ {p} : calls'[q] = IF calls[q].op = "upload_part" /\ calls[q].pc = "rename" /\ calls[q].upload = u
                                             THEN [calls[q] EXCEPT !.pc = "lost"] ELSE calls[q]
  BY DEF WithoutDir, At
<1>2. /\ uploads' \in Seq(UploadRow) /\ UploadsGo /\ PartsOutliveCompletion'
      /\ uploads'[u] = x /\ \A v \in Uploads \ {u} : uploads'[v] = uploads[v]
  BY Uploading
<1>3. ASSUME NEW q \in Proc \ {p} PROVE Passive(calls[q], calls'[q]) /\ PartsStay(calls'[q])
  <2> DEFINE c == calls[q]
  <2>1. RowInv(c) /\ Passive(c, c)
    BY PassiveItself DEF IInv
  <2>2. c.op = "complete" => c.upload \in Uploads
    BY CompletersKnow
  <2>3. (calls'[q] = [c EXCEPT !.pc = "lost"] /\ c.op = "upload_part") \/ calls'[q] = c
    BY <1>1
  <2> HIDE DEF c
  <2>4. /\ DOMAIN [c EXCEPT !.pc = "lost"] = Fields
        /\ c.op = "upload_part" => Passive(c, [c EXCEPT !.pc = "lost"])
        /\ [c EXCEPT !.pc = "lost"].op = c.op
    BY <2>1 DEF RowInv, Fields, Passive
  <2>5. PICK d : d = calls'[q]
    OBVIOUS
  <2>6. Passive(c, d) /\ (d.op = "complete" => d.upload \in Uploads)
    BY <2>1, <2>2, <2>3, <2>4, <2>5 DEF Passive
  <2>7. PartsStay(d)
    BY <1>2, <2>6, PartsKept
  <2>8. PartsStay(calls'[q])
    BY <2>5, <2>7 DEF PartsStay
  <2> QED BY <2>5, <2>6, <2>8 DEF c
<1> QED BY <1>1, <1>2, <1>3

LEMMA AbortStep ==
  ASSUME IInv, NEW p \in Proc, Abort(p)
  PROVE  IInv' /\ Atomic
<1>1. PICK u : u = calls[p].upload
  OBVIOUS
<1>2. PICK f : f = IF Closed(u).fate = "open" THEN "aborted" ELSE Closed(u).fate
  OBVIOUS
<1>3. PICK x : x = [Closed(u) EXCEPT !.fate = f]
  OBVIOUS
<1>4. /\ calls[p].op = "abort" /\ UNCHANGED <<workload, files, sides, begun, clean>>
      /\ uploads' = [uploads EXCEPT ![u] = x] /\ calls' = [WithoutDir(u) EXCEPT ![p] = Idle]
  BY <1>1, <1>2, <1>3 DEF Abort, At
<1>5. u \in Uploads
  BY <1>1, <1>4 DEF IInv, RowInv, UploadOK
<1>6. x \in UploadRow /\ x.fate # "open" /\ \A i \in PartNo : x.parts[i] = NoPart
  <2>1. Closed(u) \in UploadRow /\ \A i \in PartNo : Closed(u).parts[i] = NoPart
    BY <1>5, RowOfUpload
  <2>2. f \in {"assembled", "aborted"}
    BY <1>2, <2>1 DEF UploadRow
  <2>3. ASSUME NEW y \in UploadRow
        PROVE  [y EXCEPT !.fate = f] \in UploadRow /\ [y EXCEPT !.fate = f].fate = f
               /\ [y EXCEPT !.fate = f].parts = y.parts
    BY <2>2 DEF UploadRow
  <2> QED BY <1>3, <2>1, <2>2, <2>3
<1>7. /\ calls'[p] = Idle /\ DOMAIN calls' = Proc
      /\ uploads' \in Seq(UploadRow) /\ UploadsGo /\ PartsOutliveCompletion'
      /\ \A q \in Proc \ {p} : Passive(calls[q], calls'[q]) /\ PartsStay(calls'[q])
  BY <1>4, <1>5, <1>6, WithoutDirRows
<1>8. calls[p].op \notin WriteOp
  BY <1>4 DEF WriteOp
<1> QED BY <1>4, <1>7, <1>8, IdleAfter, UploadsOnly

LEMMA DropDirStep ==
  ASSUME IInv, NEW p \in Proc, DropDir(p)
  PROVE  IInv' /\ Atomic
<1> DEFINE c == calls[p]
<1>1. PICK u : u = c.upload
  OBVIOUS
<1>2. PICK x : x = Closed(u)
  OBVIOUS
<1>3. /\ Local /\ c.op = "complete" /\ c.pc = "drop" /\ UNCHANGED <<workload, files, sides, begun>>
      /\ uploads' = [uploads EXCEPT ![u] = x] /\ calls' = [WithoutDir(u) EXCEPT ![p] = Idle]
      /\ clean' = IF c.disturbed = {} THEN [clean EXCEPT ![c.key] = c.data] ELSE clean
  BY <1>1, <1>2 DEF DropDir, At
<1>4. RowInv(c)
  BY DEF IInv
<1>5. /\ u \in Uploads /\ c.key \in Key /\ c.data \in Obj /\ c.op \in WriteOp /\ uploads[u].fate # "open"
  BY <1>1, <1>3, <1>4 DEF RowInv, CompleteOK, FateOK, WriteOp
<1>6. c.disturbed = {} => files[c.key] = c.data /\ sides[c.key] = [etag |-> c.data, of |-> c.data]
  BY <1>3, <1>4, <1>5 DEF RowInv, AloneOK
<1>7. x \in UploadRow /\ x.fate # "open" /\ \A i \in PartNo : x.parts[i] = NoPart
  BY <1>2, <1>5, RowOfUpload
<1>8. /\ calls'[p] = Idle /\ DOMAIN calls' = Proc
      /\ uploads' \in Seq(UploadRow) /\ UploadsGo /\ PartsOutliveCompletion'
      /\ \A q \in Proc \ {p} : Passive(calls[q], calls'[q]) /\ PartsStay(calls'[q])
  BY <1>3, <1>5, <1>7, WithoutDirRows
<1>9. Types'
  BY <1>3, <1>5, <1>8 DEF IInv, Types
<1>10. c.data # Nothing
  <2>1. \A b \in Obj : b # Nothing
    BY DEF Obj, Nothing
  <2> QED BY <1>5, <2>1
<1>11. ASSUME NEW k \in Key
       PROVE  \/ clean'[k] = clean[k]
              \/ /\ c.op \in WriteOp /\ c.key = k /\ c.disturbed = {} /\ Idle.op \notin WriteOp
                 /\ files'[k] = clean'[k]
                 /\ Local /\ clean'[k] # Nothing => sides'[k] = [etag |-> clean'[k], of |-> clean'[k]]
  BY <1>3, <1>5, <1>6, <1>10, IdleAfter DEF IInv, Types
<1>12. IInv'
  BY <1>3, <1>8, <1>9, <1>11, IdleAfter, Stepping DEF c
<1>13. \A q \in Proc \ {p} : OfferOf(calls'[q]) = OfferOf(calls[q])
  BY <1>8, PassiveOffer
<1>14. Atomic
  BY <1>3, <1>8, <1>13, IdleAfter, Quiet
<1> QED BY <1>12, <1>14

(* A part is stored: completions of the upload may publish it.              *)
LEMMA StorePartStep ==
  ASSUME IInv, NEW p \in Proc, StorePart(p)
  PROVE  IInv' /\ Atomic
<1> DEFINE c == calls[p]
<1>1. PICK u, i, n : u = c.upload /\ i = c.part /\ n = c.id
  OBVIOUS
<1>2. PICK x : x = [uploads[u] EXCEPT !.parts[i] = n, !.acks[i] = @ \cup {n}]
  OBVIOUS
<1>3. /\ c.op = "upload_part" /\ UNCHANGED <<workload, files, sides, begun, clean>>
      /\ uploads' = [uploads EXCEPT ![u].parts[i] = n, ![u].acks[i] = @ \cup {n}]
      /\ calls' = [q \in Proc |-> IF q = p THEN Idle
                                  ELSE IF calls[q].op = "complete" /\ calls[q].upload = u
                                    THEN [calls[q] EXCEPT !.again = @ \cup {<<i, n>>}] ELSE calls[q]]
  BY <1>1 DEF StorePart, At
<1>4. u \in Uploads /\ i \in PartNo /\ n \in Nat \ {0}
  BY <1>1, <1>3 DEF IInv, RowInv, UploadOK
<1>5. uploads' = [uploads EXCEPT ![u] = x]
  BY <1>2, <1>3
<1> HIDE DEF c
<1>6. /\ x \in UploadRow /\ x.fate = uploads[u].fate
      /\ x.parts[i] = n /\ \A j \in PartNo : j # i => x.parts[j] = uploads[u].parts[j] /\ x.acks[j] = uploads[u].acks[j]
  <2>1. PICK y \in UploadRow : y = uploads[u]
    BY <1>4, RowOfUpload
  <2>2. PICK a, b : a = [y.parts EXCEPT ![i] = n] /\ b = [y.acks EXCEPT ![i] = @ \cup {n}]
    OBVIOUS
  <2>3. x = [y EXCEPT !.parts = a, !.acks = b]
    BY <1>2, <2>1, <2>2
  <2>4. /\ a \in [PartNo -> Nat] /\ b \in [PartNo -> SUBSET Nat] /\ a[i] = n
        /\ \A j \in PartNo : j # i => a[j] = y.parts[j] /\ b[j] = y.acks[j]
    BY <1>4, <2>1, <2>2 DEF UploadRow
  <2>5. x \in UploadRow /\ x.fate = y.fate /\ x.parts = a /\ x.acks = b
    BY <2>1, <2>3, <2>4 DEF UploadRow
  <2> QED BY <2>1, <2>4, <2>5
<1>7. x.fate = "open" => \A j \in PartNo : x.acks[j] # {} => x.parts[j] # NoPart
  BY <1>4, <1>6 DEF IInv, PartsOutliveCompletion, NoPart
<1>8. /\ uploads' \in Seq(UploadRow) /\ UploadsGo /\ PartsOutliveCompletion'
      /\ uploads'[u] = x /\ \A v \in Uploads \ {u} : uploads'[v] = uploads[v]
  BY <1>4, <1>5, <1>6, <1>7, Uploading
<1>9. calls'[p] = Idle /\ DOMAIN calls' = Proc
  BY <1>3
<1>10. ASSUME NEW q \in Proc \ {p} PROVE Passive(calls[q], calls'[q]) /\ PartsStay(calls'[q])
  <2> DEFINE d == calls[q]
  <2>1. RowInv(d) /\ Passive(d, d)
    BY PassiveItself DEF IInv
  <2>2. d.op = "complete" => d.upload \in Uploads
    BY CompletersKnow
  <2> DEFINE N == d.again \cup {<<i, n>>}
  <2>3. calls'[q] = IF d.op = "complete" /\ d.upload = u THEN [d EXCEPT !.again = N] ELSE d
    BY <1>3
  <2> HIDE DEF d
  <2>4. PICK e : e = calls'[q]
    OBVIOUS
  <2>5. Passive(d, e) /\ (e.op = "complete" /\ e.upload = u => <<i, n>> \in e.again)
    <3>1. CASE e = d /\ ~(d.op = "complete" /\ d.upload = u)
      BY <2>1, <3>1
    <3>2. CASE e = [d EXCEPT !.again = N]
      <4>1. /\ DOMAIN e = Fields
            /\ e.op = d.op /\ e.key = d.key /\ e.from = d.from /\ e.id = d.id /\ e.data = d.data
            /\ e.tmp = d.tmp /\ e.etag = d.etag /\ e.upload = d.upload /\ e.part = d.part /\ e.acked = d.acked
            /\ e.pc = d.pc /\ e.disturbed = d.disturbed /\ e.again = N
        BY <2>1, <3>2 DEF RowInv, Fields
      <4> QED BY <4>1 DEF Passive
    <3> QED BY <2>3, <2>4, <3>1, <3>2
  <2>6. e.op = "complete" => e.upload \in Uploads
    BY <2>2, <2>5 DEF Passive
  <2>7. PartsStay(e)
    BY <1>6, <1>8, <2>5, <2>6 DEF PartsStay
  <2>8. PartsStay(calls'[q])
    BY <2>4, <2>7 DEF PartsStay
  <2> QED BY <2>4, <2>5, <2>8 DEF d
<1>11. calls[p].op \notin WriteOp
  BY <1>3 DEF WriteOp, c
<1> QED BY <1>3, <1>8, <1>9, <1>10, <1>11, IdleAfter, UploadsOnly

(* Steps of the uploads that touch neither parts nor fates.                 *)
LEMMA MarkUpload ==
  ASSUME IInv, NEW p \in Proc, NEW r, NEW u \in Uploads, NEW x \in UploadRow,
         uploads' = [uploads EXCEPT ![u] = x],
         x.fate = uploads[u].fate, x.parts = uploads[u].parts, x.acks = uploads[u].acks,
         calls' = [calls EXCEPT ![p] = r], UNCHANGED <<workload, files, sides, begun, clean>>,
         calls[p].op \notin WriteOp, DOMAIN r = Fields,
         r.op \in {"upload_part", "create_multipart", "none"},
         r.op = "upload_part" => r.id \in Nat \ {0} /\ r.upload \in Uploads /\ r.part \in PartNo,
         r.op = "create_multipart" => r.key \in Key /\ r.upload \in Uploads
  PROVE  IInv' /\ Atomic
<1>1. /\ calls'[p] = r /\ DOMAIN calls' = Proc
      /\ \A q \in Proc \ {p} : Passive(calls[q], calls'[q]) /\ calls'[q] = calls[q]
  BY OnlyItself
<1>2. x.fate = "open" => \A j \in PartNo : x.acks[j] # {} => x.parts[j] # NoPart
  BY DEF IInv, PartsOutliveCompletion
<1>3. /\ uploads' \in Seq(UploadRow) /\ Uploads' = Uploads /\ UploadsGo /\ PartsOutliveCompletion'
      /\ uploads'[u] = x /\ \A v \in Uploads \ {u} : uploads'[v] = uploads[v]
  BY <1>2, Uploading
<1>4. \A q \in Proc \ {p} : PartsStay(calls'[q])
  <2>1. ASSUME NEW q \in Proc, NEW d, d = calls[q] PROVE PartsStay(d)
    BY <1>3, <2>1, CompletersKnow, PartsKept
  <2>2. ASSUME NEW q \in Proc \ {p} PROVE PartsStay(calls'[q])
    <3>1. PICK d : d = calls[q] /\ d = calls'[q]
      BY <1>1
    <3>2. PartsStay(d)
      BY <2>1, <3>1
    <3> QED BY <3>1, <3>2 DEF PartsStay
  <2> QED BY <2>2
<1>5. RowInv(r)' /\ r.op \notin WriteOp
  BY <1>3 DEF RowInv, PutOK, CopyOK, CompleteOK, DeleteOK, UploadOK, FateOK, ExactOK, AloneOK, WriteOp
<1> QED BY <1>1, <1>3, <1>4, <1>5, UploadsOnly

LEMMA OpenPartStep ==
  ASSUME IInv, NEW p \in Proc, OpenPart(p)
  PROVE  IInv' /\ Atomic
<1> DEFINE c == calls[p]
<1>0. PICK r : r = [c EXCEPT !.pc = "rename"]
  OBVIOUS
<1>1. PICK u : u = c.upload
  OBVIOUS
<1>2. PICK x : x = [uploads[u] EXCEPT !.dir = TRUE]
  OBVIOUS
<1>3. /\ c.op = "upload_part" /\ UNCHANGED <<workload, files, sides, begun, clean>>
      /\ uploads' = [uploads EXCEPT ![u] = x] /\ calls' = [calls EXCEPT ![p] = r]
  BY <1>0, <1>1, <1>2 DEF OpenPart, At, Go
<1>4. RowInv(c)
  BY DEF IInv
<1> HIDE DEF c
<1>5. c.id \in Nat \ {0} /\ u \in Uploads /\ c.part \in PartNo
  BY <1>1, <1>3, <1>4 DEF RowInv, UploadOK
<1>6. DOMAIN r = Fields /\ r.op = c.op /\ r.id = c.id /\ r.upload = u /\ r.part = c.part
  BY <1>0, <1>1, <1>4 DEF RowInv, Fields
<1>7. x \in UploadRow /\ x.fate = uploads[u].fate /\ x.parts = uploads[u].parts /\ x.acks = uploads[u].acks
  <2>1. PICK y \in UploadRow : y = uploads[u]
    BY <1>5, RowOfUpload
  <2> QED BY <1>2, <2>1 DEF UploadRow
<1>8. c.op \notin WriteOp
  BY <1>3 DEF WriteOp
<1> QED BY <1>3, <1>5, <1>6, <1>7, <1>8, MarkUpload DEF c

LEMMA OpenMetaStep ==
  ASSUME IInv, NEW p \in Proc, OpenMeta(p)
  PROVE  IInv' /\ Atomic
<1> DEFINE c == calls[p]
<1>0. PICK r : r = [c EXCEPT !.pc = "fill"]
  OBVIOUS
<1>1. PICK u : u = c.upload
  OBVIOUS
<1>2. PICK x : x = [uploads[u] EXCEPT !.meta = "torn"]
  OBVIOUS
<1>3. /\ c.op = "create_multipart" /\ c.pc = "open" /\ UNCHANGED <<workload, files, sides, begun, clean>>
      /\ uploads' = [uploads EXCEPT ![u] = x] /\ calls' = [calls EXCEPT ![p] = r]
  BY <1>0, <1>1, <1>2 DEF OpenMeta, At, Go
<1>4. RowInv(c)
  BY DEF IInv
<1> HIDE DEF c
<1>5. c.key \in Key /\ u \in Uploads
  BY <1>1, <1>3, <1>4 DEF RowInv, UploadOK
<1>6. DOMAIN r = Fields /\ r.op = c.op /\ r.key = c.key /\ r.upload = u
  BY <1>0, <1>1, <1>4 DEF RowInv, Fields
<1>7. x \in UploadRow /\ x.fate = uploads[u].fate /\ x.parts = uploads[u].parts /\ x.acks = uploads[u].acks
  <2>1. PICK y \in UploadRow : y = uploads[u]
    BY <1>5, RowOfUpload
  <2> QED BY <1>2, <2>1 DEF UploadRow
<1>8. c.op \notin WriteOp
  BY <1>3 DEF WriteOp
<1> QED BY <1>3, <1>5, <1>6, <1>7, <1>8, MarkUpload DEF c

LEMMA WriteMetaStep ==
  ASSUME IInv, NEW p \in Proc, WriteMeta(p)
  PROVE  IInv' /\ Atomic
<1> DEFINE c == calls[p]
<1>1. PICK u : u = c.upload
  OBVIOUS
<1>2. PICK x : x = [uploads[u] EXCEPT !.meta = "whole", !.known = TRUE]
  OBVIOUS
<1>3. /\ c.op = "create_multipart" /\ c.pc = "fill" /\ UNCHANGED <<workload, files, sides, begun, clean>>
      /\ uploads' = [uploads EXCEPT ![u] = x] /\ calls' = [calls EXCEPT ![p] = Idle]
  BY <1>1, <1>2 DEF WriteMeta, At
<1>4. u \in Uploads
  BY <1>1, <1>3 DEF IInv, RowInv, UploadOK
<1>5. x \in UploadRow /\ x.fate = uploads[u].fate /\ x.parts = uploads[u].parts /\ x.acks = uploads[u].acks
  <2>1. PICK y \in UploadRow : y = uploads[u]
    BY <1>4, RowOfUpload
  <2> QED BY <1>2, <2>1 DEF UploadRow
<1>6. c.op \notin WriteOp
  BY <1>3 DEF WriteOp
<1> QED BY <1>3, <1>4, <1>5, <1>6, IdleRow, MarkUpload

LEMMA NewUploadSteps ==
  ASSUME IInv, NEW p \in Proc, CreateUpload(p) \/ MakeDir(p)
  PROVE  IInv' /\ Atomic
<1> DEFINE c == calls[p]
           n == Len(uploads) + 1
<1>0. PICK r : r = IF MakeDir(p) THEN [c EXCEPT !.pc = "open", !.upload = n] ELSE Idle
  OBVIOUS
<1>1. PICK b \in BOOLEAN :
        uploads' = Append(uploads, [key |-> c.key, open |-> TRUE, dir |-> Local, fate |-> "open",
                                    known |-> b, meta |-> IF Local THEN "none" ELSE "whole",
                                    parts |-> [i \in PartNo |-> NoPart], acks |-> [i \in PartNo |-> {}]])
  BY DEF CreateUpload, MakeDir, NewUpload
<1>2. PICK x : x = [key |-> c.key, open |-> TRUE, dir |-> Local, fate |-> "open",
                    known |-> b, meta |-> IF Local THEN "none" ELSE "whole",
                    parts |-> [i \in PartNo |-> NoPart], acks |-> [i \in PartNo |-> {}]]
  OBVIOUS
<1>3. /\ c.op = "create_multipart" /\ UNCHANGED <<workload, files, sides, begun, clean>>
      /\ calls' = [calls EXCEPT ![p] = r] /\ uploads' = Append(uploads, x)
  BY <1>0, <1>1, <1>2 DEF CreateUpload, MakeDir, At, AnswerLost
<1>4. RowInv(c)
  BY DEF IInv
<1>5. c.key \in Key
  BY <1>3, <1>4 DEF RowInv, UploadOK
<1>6. x \in UploadRow /\ x.fate = "open" /\ \A i \in PartNo : x.acks[i] = {}
  BY <1>2, <1>5, Zenon DEF UploadRow, NoPart, Local
<1>7. uploads \in Seq(UploadRow)
  BY DEF IInv, Types
<1>8. /\ uploads' \in Seq(UploadRow) /\ Len(uploads') = n /\ uploads'[n] = x
      /\ \A v \in 1 .. Len(uploads) : uploads'[v] = uploads[v]
  BY <1>3, <1>6, <1>7, AppendProperties
<1>9. n \in Uploads' /\ Uploads' = Uploads \cup {n} /\ \A v \in Uploads : uploads'[v] = uploads[v]
  BY <1>7, <1>8 DEF Uploads
<1>10. UploadsGo /\ PartsOutliveCompletion'
  BY <1>6, <1>8, <1>9 DEF IInv, UploadsGo, PartsOutliveCompletion
<1>11. /\ calls'[p] = r /\ DOMAIN calls' = Proc
       /\ \A q \in Proc \ {p} : Passive(calls[q], calls'[q]) /\ calls'[q] = calls[q]
  BY <1>3, OnlyItself
<1>12. \A q \in Proc \ {p} : PartsStay(calls'[q])
  <2>1. ASSUME NEW q \in Proc \ {p} PROVE PartsStay(calls'[q])
    <3>1. PICK d : d = calls[q] /\ d = calls'[q]
      BY <1>11
    <3>2. PartsStay(d)
      BY <1>9, <3>1, CompletersKnow DEF PartsStay
    <3> QED BY <3>1, <3>2 DEF PartsStay
  <2> QED BY <2>1
<1> HIDE DEF c, n
<1>13. RowInv(r)' /\ r.op \notin WriteOp
  <2>1. CASE r = [c EXCEPT !.pc = "open", !.upload = n]
    <3>1. DOMAIN r = Fields /\ r.op = c.op /\ r.key = c.key /\ r.upload = n
      BY <1>4, <2>1 DEF RowInv, Fields
    <3> QED BY <1>3, <1>5, <1>9, <3>1
            DEF RowInv, PutOK, CopyOK, CompleteOK, DeleteOK, UploadOK, FateOK, ExactOK, AloneOK, WriteOp
  <2>2. CASE r = Idle
    BY <2>2, IdleAfter DEF RowInv, PutOK, CopyOK, CompleteOK, DeleteOK, UploadOK, FateOK, ExactOK, AloneOK
  <2> QED BY <1>0, <2>1, <2>2
<1>14. calls[p].op \notin WriteOp
  BY <1>3 DEF WriteOp, c
<1> QED BY <1>3, <1>8, <1>10, <1>11, <1>12, <1>13, <1>14, UploadsOnly

-----------------------------------------------------------------------------
(* The end of the process, and the beginning of a call.                     *)

LEMMA CrashStep ==
  ASSUME IInv, Crash
  PROVE  IInv' /\ Atomic
<1>1. /\ UNCHANGED <<workload, files, sides, uploads, begun, clean>>
      /\ DOMAIN calls' = Proc /\ \A p \in Proc : calls'[p] = Idle
  BY DEF Crash
<1>2. Types' /\ PartsOutliveCompletion' /\ OnlyTheDisk' /\ AcknowledgedWritesStick'
  BY <1>1 DEF IInv, Types, PartsOutliveCompletion, Uploads, OnlyTheDisk, AcknowledgedWritesStick, Local
<1>3. \A p \in Proc : RowInv(calls[p])'
  BY <1>1, IdleAfter DEF RowInv, PutOK, CopyOK, CompleteOK, DeleteOK, UploadOK, FateOK, ExactOK, AloneOK
<1>4. WritesCross'
  BY <1>1, IdleAfter DEF WritesCross
<1>5. OfferMap' = [p \in Proc |-> IF p \in Proc THEN {} ELSE OfferMap[p]]
  BY <1>1, IdleAfter, OffersAfter
<1>6. Map!Withdraw(Proc)
  BY <1>1, <1>5 DEF Map!Withdraw, OfferMap
<1> QED BY <1>2, <1>3, <1>4, <1>6 DEF IInv, Atomic, Map!Next

(* A call begins: it disturbs the calls that touch its key if it writes it, *)
(* and is disturbed by the writes that run.                                 *)
LEMMA Beginning ==
  ASSUME IInv, NEW p \in Proc, NEW d, Begin(p, d), DOMAIN d = Fields,
         d.op \in WriteOp => d.key \in Key,
         \A r : /\ DOMAIN r = Fields /\ r.id = begun + 1
                /\ r.op = d.op /\ r.pc = d.pc /\ r.key = d.key /\ r.from = d.from /\ r.data = d.data
                /\ r.tmp = d.tmp /\ r.etag = d.etag /\ r.upload = d.upload /\ r.part = d.part
                /\ r.acked = d.acked /\ r.again = d.again
                => RowInv(r),
         \/ OfferOf(d) = {}
         \/ \E o : /\ OfferOf(d) = {o}
                   /\ \/ o \in [key : Key, object : File]
                      \/ o \in [key : Key, from : Key]
  PROVE  IInv' /\ Atomic
<1>1. PICK D : D = Touches(d) \cap {calls[w].key : w \in {q \in Proc : calls[q].op \in WriteOp}}
  OBVIOUS
<1>2. PICK r : r = [d EXCEPT !.id = begun + 1, !.disturbed = D]
  OBVIOUS
<1>3. /\ calls[p] = Idle /\ begun' = begun + 1 /\ UNCHANGED <<workload, files, sides, uploads>>
      /\ calls' = [q \in Proc |-> IF q = p THEN r
                                  ELSE IF d.op \in WriteOp /\ d.key \in Touches(calls[q])
                                    THEN [calls[q] EXCEPT !.disturbed = @ \cup {d.key}] ELSE calls[q]]
      /\ clean' = IF d.op \in WriteOp THEN [clean EXCEPT ![d.key] = Unknown] ELSE clean
  BY <1>1, <1>2 DEF Begin, Free, disk
<1>4. /\ DOMAIN r = Fields /\ r.id = begun + 1 /\ r.disturbed = D
      /\ r.op = d.op /\ r.pc = d.pc /\ r.key = d.key /\ r.from = d.from /\ r.data = d.data
      /\ r.tmp = d.tmp /\ r.etag = d.etag /\ r.upload = d.upload /\ r.part = d.part
      /\ r.acked = d.acked /\ r.again = d.again
  BY <1>2 DEF Fields
<1>5. RowInv(r)
  BY <1>4
<1>6. DOMAIN calls' = Proc /\ calls'[p] = r
  BY <1>3
<1>7. Types'
  BY <1>3, <1>6 DEF IInv, Types
<1>8. /\ \A k \in Key : clean'[k] = clean[k] \/ clean'[k] = Unknown
      /\ d.op \in WriteOp => clean'[d.key] = Unknown
  BY <1>3 DEF IInv, Types
<1>9. PartsOutliveCompletion' /\ OnlyTheDisk' /\ AcknowledgedWritesStick'
  BY <1>3, <1>8 DEF IInv, PartsOutliveCompletion, Uploads, OnlyTheDisk, AcknowledgedWritesStick, Local
<1>10. UploadsGo /\ \A e : PartsStay(e)
  BY <1>3 DEF UploadsGo, Uploads, PartsStay
<1>11. ASSUME NEW q \in Proc \ {p}
       PROVE  /\ Passive(calls[q], calls'[q]) /\ RowInv(calls[q])'
              /\ d.op \in WriteOp /\ d.key \in Touches(calls[q]) => calls'[q].disturbed # {}
  <2> DEFINE c == calls[q]
  <2>1. RowInv(c) /\ Passive(c, c)
    BY PassiveItself DEF IInv
  <2>2. calls'[q] = IF d.op \in WriteOp /\ d.key \in Touches(c) THEN [c EXCEPT !.disturbed = c.disturbed \cup {d.key}] ELSE c
    BY <1>3
  <2> HIDE DEF c
  <2>3. PICK e : e = calls'[q]
    OBVIOUS
  <2>4. Passive(c, e) /\ (d.op \in WriteOp /\ d.key \in Touches(c) => e.disturbed # {})
    <3>1. CASE d.op \in WriteOp /\ d.key \in Touches(c)
      <4>1. PICK E : E = c.disturbed \cup {d.key}
        OBVIOUS
      <4>2. e = [c EXCEPT !.disturbed = E]
        BY <2>2, <2>3, <3>1, <4>1
      <4>3. /\ DOMAIN e = Fields
            /\ e.op = c.op /\ e.key = c.key /\ e.from = c.from /\ e.id = c.id /\ e.data = c.data
            /\ e.tmp = c.tmp /\ e.etag = c.etag /\ e.upload = c.upload /\ e.part = c.part /\ e.acked = c.acked
            /\ e.pc = c.pc /\ e.again = c.again /\ e.disturbed = E
        BY <2>1, <4>2 DEF RowInv, Fields
      <4>4. E # {}
        BY <4>1
      <4> QED BY <4>3, <4>4 DEF Passive
    <3>2. CASE ~(d.op \in WriteOp /\ d.key \in Touches(c))
      BY <2>1, <2>2, <2>3, <3>2
    <3> QED BY <3>1, <3>2
  <2>5. RowInv(e)'
    <3>1. PICK b : b = c
      OBVIOUS
    <3>2. RowInv(b) /\ Passive(b, e)
      BY <2>1, <2>4, <3>1
    <3> QED BY <1>3, <1>10, <3>2, Kept
  <2>6. RowInv(calls[q])'
    BY <2>3, <2>5 DEF RowInv, PutOK, CopyOK, CompleteOK, DeleteOK, UploadOK, FateOK, ExactOK, AloneOK
  <2> QED BY <2>3, <2>4, <2>6 DEF c
<1>12. RowInv(calls[p])'
  <2>1. RowInv(r)'
    BY <1>3, <1>5 DEF RowInv, PutOK, CopyOK, CompleteOK, DeleteOK, UploadOK, FateOK, ExactOK, AloneOK, Uploads
  <2> QED BY <1>6, <2>1 DEF RowInv, PutOK, CopyOK, CompleteOK, DeleteOK, UploadOK, FateOK, ExactOK, AloneOK
<1>13. WritesCross'
  <2>1. ASSUME NEW q \in Proc \ {p}, calls'[q].op \in WriteOp
        PROVE  /\ calls[q].op \in WriteOp /\ calls'[q].key = calls[q].key /\ calls[q].key \in Key
               /\ calls[q].disturbed # {} => calls'[q].disturbed # {}
    <3> DEFINE c == calls[q]
    <3>1. RowInv(c) /\ Passive(c, calls'[q])
      BY <1>11 DEF IInv
    <3> HIDE DEF c
    <3>2. c.op \in WriteOp /\ calls'[q].key = c.key /\ (c.disturbed # {} => calls'[q].disturbed # {})
      BY <2>1, <3>1 DEF Passive
    <3>3. c.key \in Key
      BY <3>1, <3>2 DEF RowInv, PutOK, CopyOK, CompleteOK, DeleteOK, WriteOp
    <3> QED BY <3>2, <3>3 DEF c
  <2>2. \A c : c.op \in WriteOp => Touches(c) = {c.key}
    BY DEF Touches, WriteOp, ReadOp
  <2>3. ASSUME NEW q \in Proc \ {p}, calls'[q].op \in WriteOp, r.op \in WriteOp, calls'[q].key = r.key
        PROVE  r.disturbed # {} /\ calls'[q].disturbed # {}
    <3>1. calls[q].op \in WriteOp /\ calls[q].key = d.key /\ d.op \in WriteOp
      BY <1>4, <2>1, <2>3
    <3>2. Touches(d) = {d.key} /\ Touches(calls[q]) = {d.key}
      BY <2>2, <3>1
    <3>3. d.key \in D
      BY <1>1, <3>1, <3>2
    <3>4. calls'[q].disturbed # {}
      BY <1>11, <3>1, <3>2
    <3> QED BY <1>4, <3>3, <3>4
  <2>4. ASSUME NEW q1 \in Proc, NEW q2 \in Proc, q1 # q2, calls'[q1].op \in WriteOp, calls'[q2].op \in WriteOp,
               calls'[q1].key = calls'[q2].key
        PROVE  calls'[q1].disturbed # {}
    BY <1>6, <2>1, <2>3, <2>4 DEF IInv, WritesCross
  <2>5. ASSUME NEW q \in Proc, calls'[q].op \in WriteOp PROVE clean'[calls'[q].key] = Unknown
    <3>1. CASE q = p
      BY <1>4, <1>6, <1>8, <2>5, <3>1
    <3>2. CASE q # p
      <4>1. clean[calls[q].key] = Unknown
        BY <2>1, <2>5, <3>2 DEF IInv, WritesCross
      <4> QED BY <1>8, <2>1, <2>5, <3>2, <4>1
    <3> QED BY <3>1, <3>2
  <2> QED BY <2>4, <2>5 DEF WritesCross
<1>14. IInv'
  BY <1>7, <1>9, <1>11, <1>12, <1>13 DEF IInv
<1>15. \A q \in Proc \ {p} : OfferOf(calls'[q]) = OfferOf(calls[q])
  BY <1>11, PassiveOffer
<1>16. OfferOf(r) = OfferOf(d)
  BY <1>4 DEF OfferOf
<1>17. OfferOf(calls[p]) = {} /\ files' = files
  BY <1>3, IdleAfter
<1>18. Atomic
  BY <1>6, <1>15, <1>16, <1>17, Quiet, Asking
<1> QED BY <1>14, <1>18

LEMMA IdleFields == Idle.data = <<>> /\ Idle.data \in Obj /\ Idle.upload = 0 /\ Idle.disturbed = {}
BY DEF Idle, Obj

LEMMA BeginPutStep ==
  ASSUME IInv, NEW p \in Proc, BeginPut(p)
  PROVE  IInv' /\ Atomic
<1>1. PICK k \in workload.keys, op \in {"put", "put_file"}, n \in workload.sizes :
        Begin(p, [Idle EXCEPT !.op = op, !.pc = First(op), !.key = k, !.data = [i \in 1 .. n |-> begun + 1]])
  BY DEF BeginPut
<1>2. PICK b : b = [i \in 1 .. n |-> begun + 1]
  OBVIOUS
<1>3. PICK f : f = First(op)
  OBVIOUS
<1>4. PICK d : d = [Idle EXCEPT !.op = op, !.pc = f, !.key = k, !.data = b]
  OBVIOUS
<1>5. Begin(p, d)
  BY <1>1, <1>2, <1>3, <1>4
<1>6. k \in Key /\ n \in Nat
  BY StoreAssumption DEF IInv, Types
<1>7. b \in Obj
  <2>1. begun + 1 \in Nat \ {0}
    BY DEF IInv, Types
  <2>2. PICK m \in Nat \ {0} : m = begun + 1
    BY <2>1
  <2>3. [i \in 1 .. n |-> m] \in Seq(Nat \ {0})
    BY <1>6
  <2> QED BY <1>2, <2>2, <2>3 DEF Obj
<1>8. f \in {"open", "send"}
  BY <1>3 DEF First
<1>9. DOMAIN d = Fields /\ d.op = op /\ d.pc = f /\ d.key = k /\ d.data = b
  BY <1>4, IdleRow DEF Fields
<1>10. ASSUME NEW r, DOMAIN r = Fields, r.op = d.op, r.pc = d.pc, r.key = d.key, r.data = d.data
       PROVE  RowInv(r)
  BY <1>6, <1>7, <1>8, <1>9, <1>10
     DEF RowInv, PutOK, CopyOK, CompleteOK, DeleteOK, UploadOK, FateOK, ExactOK, AloneOK, WriteOp
<1>11. OfferOf(d) = {[key |-> k, object |-> b]}
  BY <1>8, <1>9 DEF OfferOf
<1>12. [key |-> k, object |-> b] \in [key : Key, object : File]
  BY <1>6, <1>7 DEF File
<1> QED BY <1>5, <1>6, <1>9, <1>10, <1>11, <1>12, Beginning

LEMMA BeginCopyStep ==
  ASSUME IInv, NEW p \in Proc, BeginCopy(p)
  PROVE  IInv' /\ Atomic
<1>1. PICK k \in workload.keys, j \in workload.keys :
        Begin(p, [Idle EXCEPT !.op = "copy", !.pc = First("copy"), !.key = k, !.from = j])
  BY DEF BeginCopy
<1>2. PICK f : f = First("copy")
  OBVIOUS
<1>3. PICK d : d = [Idle EXCEPT !.op = "copy", !.pc = f, !.key = k, !.from = j]
  OBVIOUS
<1>4. Begin(p, d)
  BY <1>1, <1>2, <1>3
<1>5. k \in Key /\ j \in Key
  BY StoreAssumption DEF IInv, Types
<1>6. f \in {"open", "stat"}
  BY <1>2 DEF First
<1>7. DOMAIN d = Fields /\ d.op = "copy" /\ d.pc = f /\ d.key = k /\ d.from = j /\ d.data \in Obj /\ d.part = 1
  BY <1>3, IdleRow, IdleFields DEF Fields
<1>8. ASSUME NEW r, DOMAIN r = Fields, r.op = d.op, r.pc = d.pc, r.key = d.key, r.from = d.from,
             r.data = d.data, r.part = d.part
      PROVE  RowInv(r)
  BY <1>5, <1>6, <1>7, <1>8
     DEF RowInv, PutOK, CopyOK, CompleteOK, DeleteOK, UploadOK, FateOK, ExactOK, AloneOK, WriteOp
<1>9. OfferOf(d) = {}
  BY <1>6, <1>7 DEF OfferOf
<1> QED BY <1>4, <1>5, <1>7, <1>8, <1>9, Beginning

LEMMA BeginDeleteStep ==
  ASSUME IInv, NEW p \in Proc, BeginDelete(p)
  PROVE  IInv' /\ Atomic
<1>1. PICK k \in workload.keys : Begin(p, [Idle EXCEPT !.op = "delete", !.pc = "remove", !.key = k])
  BY DEF BeginDelete
<1>2. PICK d : d = [Idle EXCEPT !.op = "delete", !.pc = "remove", !.key = k]
  OBVIOUS
<1>3. k \in Key
  BY StoreAssumption DEF IInv, Types
<1>4. DOMAIN d = Fields /\ d.op = "delete" /\ d.pc = "remove" /\ d.key = k
  BY <1>2, IdleRow DEF Fields
<1>5. ASSUME NEW r, DOMAIN r = Fields, r.op = d.op, r.pc = d.pc, r.key = d.key
      PROVE  RowInv(r)
  BY <1>3, <1>4, <1>5
     DEF RowInv, PutOK, CopyOK, CompleteOK, DeleteOK, UploadOK, FateOK, ExactOK, AloneOK, WriteOp
<1>6. OfferOf(d) = {[key |-> k, object |-> Nothing]}
  BY <1>4 DEF OfferOf
<1>7. [key |-> k, object |-> Nothing] \in [key : Key, object : File]
  BY <1>3 DEF File
<1> QED BY <1>1, <1>2, <1>3, <1>4, <1>5, <1>6, <1>7, Beginning

LEMMA BeginCreateStep ==
  ASSUME IInv, NEW p \in Proc, BeginCreate(p)
  PROVE  IInv' /\ Atomic
<1>1. PICK k \in workload.keys : Begin(p, [Idle EXCEPT !.op = "create_multipart", !.pc = "create", !.key = k])
  BY DEF BeginCreate
<1>2. PICK d : d = [Idle EXCEPT !.op = "create_multipart", !.pc = "create", !.key = k]
  OBVIOUS
<1>3. k \in Key
  BY StoreAssumption DEF IInv, Types
<1>4. DOMAIN d = Fields /\ d.op = "create_multipart" /\ d.pc = "create" /\ d.key = k
  BY <1>2, IdleRow DEF Fields
<1>5. ASSUME NEW r, DOMAIN r = Fields, r.op = d.op, r.pc = d.pc, r.key = d.key
      PROVE  RowInv(r)
  BY <1>3, <1>4, <1>5
     DEF RowInv, PutOK, CopyOK, CompleteOK, DeleteOK, UploadOK, FateOK, ExactOK, AloneOK, WriteOp
<1>6. OfferOf(d) = {} /\ d.op \notin WriteOp
  BY <1>4 DEF OfferOf, WriteOp
<1> QED BY <1>1, <1>2, <1>4, <1>5, <1>6, Beginning

LEMMA BeginPartStep ==
  ASSUME IInv, NEW p \in Proc, BeginPart(p)
  PROVE  IInv' /\ Atomic
<1>1. PICK u \in Uploads, i \in PartNo :
        Begin(p, [Idle EXCEPT !.op = "upload_part", !.pc = IF Local THEN "open" ELSE "send",
                              !.upload = u, !.part = i])
  BY DEF BeginPart
<1>2. PICK f : f = IF Local THEN "open" ELSE "send"
  OBVIOUS
<1>3. PICK d : d = [Idle EXCEPT !.op = "upload_part", !.pc = f, !.upload = u, !.part = i]
  OBVIOUS
<1>4. Begin(p, d)
  BY <1>1, <1>2, <1>3
<1>5. DOMAIN d = Fields /\ d.op = "upload_part" /\ d.upload = u /\ d.part = i
  BY <1>3, IdleRow DEF Fields
<1>6. begun + 1 \in Nat \ {0}
  BY DEF IInv, Types
<1>7. ASSUME NEW r, DOMAIN r = Fields, r.id = begun + 1, r.op = d.op, r.upload = d.upload, r.part = d.part
      PROVE  RowInv(r)
  BY <1>5, <1>6, <1>7
     DEF RowInv, PutOK, CopyOK, CompleteOK, DeleteOK, UploadOK, FateOK, ExactOK, AloneOK, WriteOp
<1>8. OfferOf(d) = {} /\ d.op \notin WriteOp
  BY <1>5 DEF OfferOf, WriteOp
<1> QED BY <1>4, <1>5, <1>7, <1>8, Beginning

LEMMA BeginAbortStep ==
  ASSUME IInv, NEW p \in Proc, BeginAbort(p)
  PROVE  IInv' /\ Atomic
<1>1. PICK u \in Uploads : Begin(p, [Idle EXCEPT !.op = "abort", !.pc = "remove", !.upload = u])
  BY DEF BeginAbort
<1>2. PICK d : d = [Idle EXCEPT !.op = "abort", !.pc = "remove", !.upload = u]
  OBVIOUS
<1>3. DOMAIN d = Fields /\ d.op = "abort" /\ d.upload = u
  BY <1>2, IdleRow DEF Fields
<1>4. ASSUME NEW r, DOMAIN r = Fields, r.op = d.op, r.upload = d.upload
      PROVE  RowInv(r)
  BY <1>3, <1>4
     DEF RowInv, PutOK, CopyOK, CompleteOK, DeleteOK, UploadOK, FateOK, ExactOK, AloneOK, WriteOp
<1>5. OfferOf(d) = {} /\ d.op \notin WriteOp
  BY <1>3 DEF OfferOf, WriteOp
<1> QED BY <1>1, <1>2, <1>3, <1>4, <1>5, Beginning

LEMMA BeginCompleteStep ==
  ASSUME IInv, NEW p \in Proc, BeginComplete(p)
  PROVE  IInv' /\ Atomic
<1>1. PICK u \in Uploads, n \in PartNo :
        \E ids \in [1 .. n -> 1 .. begun] :
          Begin(p, [Idle EXCEPT !.op = "complete", !.pc = First("complete"), !.upload = u,
                                !.key = uploads[u].key, !.acked = ids, !.data = ids])
  BY DEF BeginComplete
<1>2. PICK ids \in [1 .. n -> 1 .. begun] :
        Begin(p, [Idle EXCEPT !.op = "complete", !.pc = First("complete"), !.upload = u,
                              !.key = uploads[u].key, !.acked = ids, !.data = ids])
  BY <1>1
<1>3. PICK k, f : k = uploads[u].key /\ f = First("complete")
  OBVIOUS
<1>4. PICK d : d = [Idle EXCEPT !.op = "complete", !.pc = f, !.upload = u, !.key = k, !.acked = ids, !.data = ids]
  OBVIOUS
<1>5. Begin(p, d)
  BY <1>2, <1>3, <1>4
<1>6. k \in Key
  BY <1>3, RowOfUpload DEF UploadRow
<1>7. ids \in Obj /\ Len(ids) \in PartNo
  <2>1. n \in Nat /\ begun \in Nat
    BY DEF PartNo, IInv, Types
  <2>2. ids \in [1 .. n -> Nat \ {0}]
    BY <2>1
  <2> QED BY <2>1, <2>2 DEF Obj
<1>8. f \in {"open", "assemble"}
  BY <1>3 DEF First
<1>9. /\ DOMAIN d = Fields /\ d.op = "complete" /\ d.pc = f /\ d.upload = u /\ d.key = k
      /\ d.acked = ids /\ d.data = ids /\ d.part = 1
  BY <1>4, IdleRow DEF Fields
<1>10. ASSUME NEW r, DOMAIN r = Fields, r.op = d.op, r.pc = d.pc, r.key = d.key, r.data = d.data,
              r.upload = d.upload, r.part = d.part, r.acked = d.acked
       PROVE  RowInv(r)
  BY <1>6, <1>7, <1>8, <1>9, <1>10
     DEF RowInv, PutOK, CopyOK, CompleteOK, DeleteOK, UploadOK, FateOK, ExactOK, AloneOK, WriteOp
<1>11. OfferOf(d) = {} \/ OfferOf(d) = {[key |-> k, object |-> ids]}
  BY <1>8, <1>9 DEF OfferOf
<1>12. [key |-> k, object |-> ids] \in [key : Key, object : File]
  BY <1>6, <1>7 DEF File
<1> QED BY <1>5, <1>6, <1>9, <1>10, <1>11, <1>12, Beginning

LEMMA BeginReads ==
  ASSUME IInv, NEW p \in Proc, BeginServe(p) \/ BeginImage(p) \/ BeginList(p)
  PROVE  IInv' /\ Atomic
<1>1. PICK d : Begin(p, d) /\ DOMAIN d = Fields /\ d.op \in ReadOp \cup ListOp
  <2>1. ASSUME NEW op, NEW pc, NEW k, NEW j, NEW w, NEW g, NEW e, NEW v, NEW o
        PROVE  LET a == [Idle EXCEPT !.op = op, !.pc = pc, !.key = k, !.wants = w, !.range = g, !.known = e]
                   b == [Idle EXCEPT !.op = op, !.pc = pc, !.key = k, !.from = j, !.wants = w, !.known = e]
                   c == [Idle EXCEPT !.op = op, !.pc = pc, !.left = v]
                   l == [Idle EXCEPT !.op = op, !.pc = pc, !.left = v, !.owed = o]
               IN /\ DOMAIN a = Fields /\ a.op = op /\ DOMAIN b = Fields /\ b.op = op
                  /\ DOMAIN c = Fields /\ c.op = op /\ DOMAIN l = Fields /\ l.op = op
    BY IdleRow DEF Fields
  <2>2. CASE BeginServe(p)
    <3>1. PICK k \in Key, g \in workload.ranges, op \in {"serve", "avatar"} :
            \E e \in {Nothing, files[k]} :
              Begin(p, [Idle EXCEPT !.op = op, !.pc = "stat", !.key = k, !.wants = <<k>>, !.range = g, !.known = e])
      BY <2>2 DEF BeginServe
    <3>2. PICK e, w : /\ w = <<k>>
                      /\ Begin(p, [Idle EXCEPT !.op = op, !.pc = "stat", !.key = k, !.wants = w, !.range = g, !.known = e])
      BY <3>1
    <3>3. PICK d : d = [Idle EXCEPT !.op = op, !.pc = "stat", !.key = k, !.wants = w, !.range = g, !.known = e]
      OBVIOUS
    <3>4. DOMAIN d = Fields /\ d.op = op
      BY <2>1, <3>3
    <3> QED BY <3>2, <3>3, <3>4 DEF ReadOp
  <2>3. CASE BeginImage(p)
    <3>1. PICK k \in Key, j \in Key : \E e \in {Nothing, files[k], files[j]} :
            Begin(p, [Idle EXCEPT !.op = "image", !.pc = "stat", !.key = k, !.from = j,
                                  !.wants = IF k = j THEN <<k>> ELSE <<k, j>>, !.known = e])
      BY <2>3 DEF BeginImage
    <3>2. PICK e, w : /\ w = IF k = j THEN <<k>> ELSE <<k, j>>
                      /\ Begin(p, [Idle EXCEPT !.op = "image", !.pc = "stat", !.key = k, !.from = j, !.wants = w, !.known = e])
      BY <3>1
    <3>3. PICK d : d = [Idle EXCEPT !.op = "image", !.pc = "stat", !.key = k, !.from = j, !.wants = w, !.known = e]
      OBVIOUS
    <3>4. DOMAIN d = Fields /\ d.op = "image"
      BY <2>1, <3>3
    <3> QED BY <3>2, <3>3, <3>4 DEF ReadOp
  <2>4. CASE BeginList(p)
    <3>1. PICK v, o : \/ Begin(p, [Idle EXCEPT !.op = "list", !.pc = "walk", !.left = v])
                      \/ Begin(p, [Idle EXCEPT !.op = "list_uploads", !.pc = "walk", !.left = v, !.owed = o])
      BY <2>4 DEF BeginList
    <3>2. PICK d, l : /\ d = [Idle EXCEPT !.op = "list", !.pc = "walk", !.left = v]
                      /\ l = [Idle EXCEPT !.op = "list_uploads", !.pc = "walk", !.left = v, !.owed = o]
      OBVIOUS
    <3>3. DOMAIN d = Fields /\ d.op = "list" /\ DOMAIN l = Fields /\ l.op = "list_uploads"
      BY <2>1, <3>2
    <3> QED BY <3>1, <3>2, <3>3 DEF ListOp
  <2> QED BY <2>2, <2>3, <2>4
<1>2. d.op \notin WriteOp /\ OfferOf(d) = {}
  BY <1>1, ReaderRow, NoOffer
<1>3. ASSUME NEW r, DOMAIN r = Fields, r.op = d.op PROVE RowInv(r)
  BY <1>1, <1>3, ReaderRow
<1> QED BY <1>1, <1>2, <1>3, Beginning

-----------------------------------------------------------------------------
(* What a range asks for.                                                   *)

(* The bytes that a range asks for are those from the start of its span to  *)
(* the end that it is brought to, and there are none if it has no span.     *)
LEMMA SpanOfRange ==
  ASSUME NEW r \in RangeHeader, NEW n \in Nat
  PROVE  /\ r = Whole => Wanted(r, n) = 1 .. n
         /\ r # Whole /\ Spans(r, n) = {} => Wanted(r, n) = {}
         /\ r # Whole /\ Spans(r, n) # {} =>
              \E s, e : /\ Spans(r, n) = {s} /\ Ends(s, n) = {e} /\ s.start \in Nat /\ e \in Nat
                        /\ s.start <= e /\ e < n /\ Wanted(r, n) = s.start + 1 .. e + 1
<1>1. r = Whole => Wanted(r, n) = 1 .. n
  BY DEF Wanted, Whole
<1> SUFFICES ASSUME r # Whole
             PROVE  /\ Spans(r, n) = {} => Wanted(r, n) = {}
                    /\ Spans(r, n) # {} =>
                         \E s, e : /\ Spans(r, n) = {s} /\ Ends(s, n) = {e} /\ s.start \in Nat /\ e \in Nat
                                   /\ s.start <= e /\ e < n /\ Wanted(r, n) = s.start + 1 .. e + 1
  BY <1>1
<1>2. r.kind \in {"from", "from_to", "last"} /\ r.a \in Nat /\ r.b \in Nat
  BY DEF RangeHeader
<1> DEFINE Fits(s) == s.start < n /\ (\A e \in s.end : s.start <= e) /\ (r.kind = "last" => r.a > 0)
           s == CASE r.kind = "last" -> [start |-> IF r.a > n THEN 0 ELSE n - r.a, end |-> {n - 1}]
                  [] r.kind = "from" -> [start |-> r.a, end |-> {}]
                  [] OTHER -> [start |-> r.a, end |-> {r.b}]
<1>3. Spans(r, n) = IF Fits(s) THEN {s} ELSE {}
  BY DEF Spans
<1>4. CASE r.kind = "from"
  <2>1. s = [start |-> r.a, end |-> {}]
    BY <1>4
  <2>2. Wanted(r, n) = {i \in 1 .. n : i > r.a}
    BY <1>4 DEF Wanted
  <2> HIDE DEF s
  <2>3. s.start = r.a /\ s.end = {} /\ (Fits(s) <=> r.a < n)
    BY <1>4, <2>1
  <2>4. CASE ~(r.a < n)
    BY <1>2, <1>3, <2>2, <2>3, <2>4
  <2>5. CASE r.a < n
    <3>1. Ends(s, n) = {n - 1}
      BY <1>2, <2>3, <2>5 DEF Ends
    <3>2. Wanted(r, n) = r.a + 1 .. (n - 1) + 1
      BY <1>2, <2>2, <2>5
    <3>3. n - 1 \in Nat /\ r.a <= n - 1 /\ n - 1 < n
      BY <1>2, <2>5
    <3> QED BY <1>2, <1>3, <2>3, <2>5, <3>1, <3>2, <3>3
  <2> QED BY <2>4, <2>5
<1>5. CASE r.kind = "from_to"
  <2>1. s = [start |-> r.a, end |-> {r.b}]
    BY <1>5
  <2>2. Wanted(r, n) = {i \in 1 .. n : i > r.a /\ i - 1 <= r.b}
    BY <1>5 DEF Wanted
  <2> HIDE DEF s
  <2>3. s.start = r.a /\ s.end = {r.b} /\ (Fits(s) <=> r.a < n /\ r.a <= r.b)
    BY <1>5, <2>1
  <2>4. CASE ~(r.a < n /\ r.a <= r.b)
    BY <1>2, <1>3, <2>2, <2>3, <2>4
  <2>5. CASE r.a < n /\ r.a <= r.b
    <3> DEFINE e == IF r.b >= n THEN n - 1 ELSE r.b
    <3>1. Ends(s, n) = {e}
      BY <1>2, <2>3, <2>5 DEF Ends
    <3>2. Wanted(r, n) = r.a + 1 .. e + 1
      BY <1>2, <2>2, <2>5
    <3>3. e \in Nat /\ r.a <= e /\ e < n
      BY <1>2, <2>5
    <3> HIDE DEF e
    <3> QED BY <1>2, <1>3, <2>3, <2>5, <3>1, <3>2, <3>3
  <2> QED BY <2>4, <2>5
<1>6. CASE r.kind = "last"
  <2> DEFINE a == IF r.a > n THEN 0 ELSE n - r.a
  <2>1. s = [start |-> a, end |-> {n - 1}]
    BY <1>6
  <2>2. Wanted(r, n) = {i \in 1 .. n : n < i + r.a}
    BY <1>6 DEF Wanted
  <2>3. a \in Nat
    BY <1>2
  <2> HIDE DEF s
  <2>4. s.start = a /\ s.end = {n - 1} /\ (Fits(s) <=> a < n /\ a <= n - 1 /\ r.a > 0)
    BY <1>6, <2>1
  <2>5. CASE r.a = 0 \/ n = 0
    BY <1>2, <1>3, <2>2, <2>4, <2>5
  <2>6. CASE r.a > 0 /\ n > 0
    <3>1. Ends(s, n) = {n - 1}
      BY <1>2, <2>3, <2>4, <2>6 DEF Ends
    <3>2. Wanted(r, n) = a + 1 .. (n - 1) + 1
      BY <1>2, <2>2, <2>6
    <3>3. n - 1 \in Nat /\ a <= n - 1 /\ n - 1 < n /\ a < n
      BY <1>2, <2>6
    <3> HIDE DEF a
    <3> QED BY <1>2, <1>3, <2>3, <2>4, <2>6, <3>1, <3>2, <3>3
  <2> QED BY <1>2, <2>5, <2>6
<1> QED BY <1>2, <1>4, <1>5, <1>6

LEMMA Interval ==
  ASSUME NEW object \in Obj, NEW r, NEW a \in Nat, NEW b \in Nat, a <= b + 1, a > 0, b <= Len(object),
         Wanted(r, Len(object)) = a .. b
  PROVE  Bytes(object, r) = SubSeq(object, a, b)
<1>1. object \in Seq(Nat \ {0}) /\ Len(object) \in Nat
  BY DEF Obj
<1> DEFINE wanted == a .. b
           rank(j) == Cardinality({l \in wanted : l <= j})
<1>2. ASSUME NEW j \in wanted PROVE rank(j) = j - a + 1
  <2>1. {l \in wanted : l <= j} = a .. j
    OBVIOUS
  <2>2. Cardinality(a .. j) = j - a + 1
    <3>1. a \in Int /\ j \in Int /\ a <= j
      OBVIOUS
    <3> QED BY <3>1, FS_Interval
  <2> QED BY <2>1, <2>2
<1>3. Cardinality(wanted) = b - a + 1
  <2>1. a \in Int /\ b \in Int /\ (IF a > b THEN 0 ELSE b - a + 1) = b - a + 1
    OBVIOUS
  <2>2. Cardinality(a .. b) = IF a > b THEN 0 ELSE b - a + 1
    BY <2>1, FS_Interval
  <2> QED BY <2>1, <2>2
<1> HIDE DEF rank
<1>4. ASSUME NEW i \in 1 .. b - a + 1 PROVE (CHOOSE j \in wanted : rank(j) = i) = i + a - 1
  <2>1. i + a - 1 \in wanted /\ rank(i + a - 1) = i
    BY <1>2
  <2>2. \A j \in wanted : rank(j) = i => j = i + a - 1
    BY <1>2
  <2> QED BY <2>1, <2>2
<1>5. Bytes(object, r) = [i \in 1 .. b - a + 1 |-> object[CHOOSE j \in wanted : rank(j) = i]]
  BY <1>3 DEF Bytes, rank
<1>6. Bytes(object, r) = [i \in 1 .. b - a + 1 |-> object[i + a - 1]]
  BY <1>4, <1>5
<1>7. SubSeq(object, a, b) = [i \in 1 .. b - a + 1 |-> object[i + a - 1]]
  <2> DEFINE n == b - a + 1
             f == [i \in 1 .. n |-> object[i + a - 1]]
  <2>1. n \in Nat /\ \A i \in 1 .. n : i + a - 1 \in 1 .. Len(object)
    BY <1>1
  <2>2. \A i \in 1 .. n : object[i + a - 1] \in Nat \ {0}
    BY <1>1, <2>1
  <2>3. f \in Seq(Nat \ {0}) /\ Len(f) = n /\ \A i \in 1 .. n : f[i] = object[i + a - 1]
    <3> HIDE DEF n
    <3> QED BY <2>1, <2>2
  <2>4. \A i \in a .. b : object[i] \in Nat \ {0}
    BY <1>1
  <2>5. /\ SubSeq(object, a, b) \in Seq(Nat \ {0})
        /\ Len(SubSeq(object, a, b)) = IF a <= b THEN b - a + 1 ELSE 0
        /\ \A i \in 1 .. b - a + 1 : SubSeq(object, a, b)[i] = object[a + i - 1]
    <3>1. a \in Int /\ b \in Int
      OBVIOUS
    <3> QED BY <2>4, <3>1, SubSeqProperties
  <2>6. Len(SubSeq(object, a, b)) = n
    BY <2>5
  <2>7. \A i \in 1 .. n : a + i - 1 = i + a - 1
    BY <2>1
  <2>8. \A i \in 1 .. n : SubSeq(object, a, b)[i] = f[i]
    <3> HIDE DEF f
    <3> QED BY <2>3, <2>5, <2>7
  <2> HIDE DEF f, n
  <2>9. SubSeq(object, a, b) = f
    BY <2>3, <2>5, <2>6, <2>8, SeqEqual
  <2> QED BY <2>9 DEF f, n
<1> QED BY <1>6, <1>7

LEMMA BytesOfRange ==
  ASSUME NEW object \in Obj, NEW r \in RangeHeader
  PROVE  LET n == Len(object) IN
         /\ r = Whole => Bytes(object, r) = object /\ Part(object, 0, n - 1) = object
         /\ r # Whole /\ Spans(r, n) = {} => Bytes(object, r) = <<>>
         /\ r # Whole /\ Spans(r, n) # {} =>
              \E s, e : /\ Spans(r, n) = {s} /\ Ends(s, n) = {e} /\ s.start < n
                        /\ Part(object, s.start, e) = Bytes(object, r) /\ Bytes(object, r) # <<>>
<1> DEFINE n == Len(object)
<1>1. object \in Seq(Nat \ {0}) /\ n \in Nat
  BY DEF Obj
<1>2. CASE r = Whole
  <2>1. Wanted(r, n) = 1 .. n
    BY <1>1, <1>2, SpanOfRange
  <2>2. Bytes(object, r) = SubSeq(object, 1, n)
    <3>1. 1 \in Nat /\ 1 <= n + 1 /\ 1 > 0 /\ n <= Len(object)
      BY <1>1
    <3> QED BY <1>1, <2>1, <3>1, Interval
  <2>3. SubSeq(object, 1, n) = object
    BY <1>1, SubSeqFull
  <2>4. Part(object, 0, n - 1) = SubSeq(object, 1, n)
    <3>1. 0 + 1 = 1 /\ (IF n - 1 < n THEN n - 1 + 1 ELSE n) = n
      BY <1>1
    <3> QED BY <3>1 DEF Part
  <2> QED BY <1>2, <2>2, <2>3, <2>4
<1>3. CASE r # Whole /\ Spans(r, n) = {}
  <2>1. Wanted(r, n) = {}
    BY <1>1, <1>3, SpanOfRange
  <2>2. Wanted(r, n) = 1 .. 0
    BY <2>1
  <2>3. Bytes(object, r) = SubSeq(object, 1, 0)
    <3>1. 1 \in Nat /\ 0 \in Nat /\ 1 <= 0 + 1 /\ 1 > 0 /\ 0 <= Len(object)
      BY <1>1
    <3> QED BY <2>2, <3>1, Interval
  <2>4. SubSeq(object, 1, 0) = <<>>
    BY SubSeqEmpty
  <2> QED BY <1>3, <2>3, <2>4
<1>4. CASE r # Whole /\ Spans(r, n) # {}
  <2>1. PICK s, e : /\ Spans(r, n) = {s} /\ Ends(s, n) = {e} /\ s.start \in Nat /\ e \in Nat
                    /\ s.start <= e /\ e < n /\ Wanted(r, n) = s.start + 1 .. e + 1
    BY <1>1, <1>4, SpanOfRange
  <2>2. PICK a \in Nat, b \in Nat : a = s.start + 1 /\ b = e + 1
    BY <2>1
  <2>3. a <= b /\ a > 0 /\ b <= n /\ s.start < n
    BY <1>1, <2>1, <2>2
  <2>4. Bytes(object, r) = SubSeq(object, a, b)
    <3>1. a <= b + 1
      BY <2>3
    <3> QED BY <2>1, <2>2, <2>3, <3>1, Interval
  <2>5. Part(object, s.start, e) = SubSeq(object, a, b)
    BY <2>1, <2>2 DEF Part
  <2>6. SubSeq(object, a, b) # <<>>
    <3>1. \A i \in a .. b : object[i] \in Nat \ {0}
      BY <1>1, <2>3
    <3>2. Len(SubSeq(object, a, b)) = b - a + 1
      BY <2>3, <3>1, SubSeqProperties
    <3> QED BY <2>3, <3>2
  <2> QED BY <1>4, <2>1, <2>3, <2>4, <2>5, <2>6
<1> QED BY <1>2, <1>3, <1>4

-----------------------------------------------------------------------------
(* What a read knows.                                                       *)

Shape(c) ==
  /\ c.pc \in {"stat", "sidecar", "fetch", "done"}
  /\ "status" \in DOMAIN c.reply
  /\ c.range \in RangeHeader /\ (c.op # "serve" => c.range = Whole)
  /\ \/ c.key \in Key /\ c.wants = <<c.key>> /\ (c.op = "image" => c.from = c.key)
     \/ /\ c.op = "image"
        /\ \E k \in Key : \E j \in Key \ {k} : c.wants = <<k, j>> /\ c.from = j /\ c.key \in {k, j}

(* The object under the key of a read, as its head tells it ...             *)
Headline(c, object) == object # Nothing /\ c.size = Len(object) /\ c.etag = object
(* ... as the handler has looked at it before it asks for the bytes ...     *)
Looked(c, object) ==
  /\ object # Nothing
  /\ IF c.range = Whole THEN c.known # object
     ELSE c.span = Spans(c.range, Len(object)) /\ c.span # {}
(* ... and as it answers.                                                   *)
Replies(c, object) ==
  IF c.op = "image" /\ object = Nothing THEN c.key = c.from /\ c.reply.status = Placeholder
  ELSE Answered(c.reply, object, c.range, c.known)
Learnt(c, object) ==
  /\ c.pc \in {"sidecar", "fetch"} => Headline(c, object)
  /\ c.pc = "fetch" => c.checked
  /\ c.checked /\ c.pc # "done" => Looked(c, object)
  /\ c.pc = "done" => Replies(c, object)

(* No write touches what the read wants, and what that holds is known.      *)
Calm(c, holds) == c.disturbed = {} /\ \A k \in ToSet(c.wants) : holds[k] # Unknown
SecondTry(c, holds) == c.key # c.wants[1] => holds[c.wants[1]] = Nothing
ReadOK(c, holds) ==
  c.op \in ReadOp => Shape(c) /\ (Calm(c, holds) => Learnt(c, holds[c.key]) /\ SecondTry(c, holds))

(* What a read keeps.                                                       *)
SameRead(c, d) ==
  /\ DOMAIN d = Fields
  /\ d.op = c.op /\ d.from = c.from /\ d.wants = c.wants /\ d.range = c.range /\ d.known = c.known
  /\ d.disturbed = c.disturbed

Reply(s, b, etag, size) == [status |-> s, bytes |-> b, etag |-> etag, total |-> size]

LEMMA RepliedFields ==
  ASSUME NEW c, DOMAIN c = Fields, NEW s, NEW b, NEW d, d = Replied(c, s, b)
  PROVE  /\ SameRead(c, d) /\ d.key = c.key /\ d.pc = "done" /\ "status" \in DOMAIN d.reply
         /\ d.reply = Reply(s, b, c.etag, c.size) /\ d.reply.status = s
BY DEF Replied, Fields, SameRead, Reply

LEMMA MissedFields ==
  ASSUME NEW c, DOMAIN c = Fields, "status" \in DOMAIN c.reply, NEW s, NEW d, d = Missed(c, s), c.op = "image"
  PROVE  /\ SameRead(c, d) /\ "status" \in DOMAIN d.reply
         /\ c.key # c.from => d.key = c.from /\ d.pc = "stat" /\ ~d.checked
         /\ c.key = c.from => d.key = c.key /\ d.pc = "done" /\ d.reply.status = Placeholder
<1>1. CASE c.key # c.from
  <2>1. PICK k : k = c.from
    OBVIOUS
  <2>2. d = [c EXCEPT !.key = k, !.pc = "stat", !.checked = FALSE]
    BY <1>1, <2>1 DEF Missed
  <2> QED BY <1>1, <2>1, <2>2 DEF Fields, SameRead
<1>2. CASE c.key = c.from
  <2>1. d = [c EXCEPT !.pc = "done", !.reply.status = Placeholder]
    BY <1>2 DEF Missed
  <2> QED BY <1>2, <2>1 DEF Fields, SameRead
<1> QED BY <1>1, <1>2

(* The head is known: the answer is, or the bytes are read, or the head is  *)
(* asked for again.                                                         *)
LEMMA HeadedFields ==
  ASSUME NEW c, DOMAIN c = Fields, NEW d, d = Headed(c)
  PROVE  \/ /\ c.checked
            /\ SameRead(c, d) /\ d.key = c.key /\ d.pc = "fetch" /\ d.size = c.size /\ d.etag = c.etag
            /\ d.checked = c.checked /\ d.span = c.span /\ d.reply = c.reply
         \/ /\ ~c.checked /\ c.range # Whole /\ Spans(c.range, c.size) = {}
            /\ d = Replied(c, 416, <<>>)
         \/ /\ ~c.checked /\ c.range = Whole /\ c.etag = c.known
            /\ d = Replied(c, 304, <<>>)
         \/ /\ ~c.checked /\ (c.range # Whole => Spans(c.range, c.size) # {})
            /\ c.range = Whole => c.etag # c.known
            /\ SameRead(c, d) /\ d.key = c.key /\ d.pc = "stat" /\ d.checked /\ d.reply = c.reply
            /\ d.span = IF c.range = Whole THEN {} ELSE Spans(c.range, c.size)
<1>1. CASE c.checked
  <2>1. d = [c EXCEPT !.pc = "fetch"]
    BY <1>1 DEF Headed
  <2> QED BY <1>1, <2>1 DEF Fields, SameRead
<1>2. CASE ~c.checked /\ c.range # Whole /\ Spans(c.range, c.size) = {}
  BY <1>2 DEF Headed
<1>3. CASE ~c.checked /\ c.range = Whole /\ c.etag = c.known
  BY <1>3 DEF Headed
<1>4. CASE ~c.checked /\ ~(c.range # Whole /\ Spans(c.range, c.size) = {}) /\ ~(c.range = Whole /\ c.etag = c.known)
  <2>1. PICK s : s = IF c.range = Whole THEN {} ELSE Spans(c.range, c.size)
    OBVIOUS
  <2>2. d = [c EXCEPT !.pc = "stat", !.checked = TRUE, !.span = s]
    BY <1>4, <2>1 DEF Headed
  <2>3. /\ SameRead(c, d) /\ d.key = c.key /\ d.pc = "stat" /\ d.checked /\ d.reply = c.reply
        /\ d.span = s
    BY <2>2 DEF Fields, SameRead
  <2> QED BY <1>4, <2>1, <2>3
<1> QED BY <1>1, <1>2, <1>3, <1>4

(* A row of the same read at the same key, or at its second one.            *)
LEMMA ShapeOf ==
  ASSUME NEW c, NEW d, Shape(c), SameRead(c, d), d.pc \in {"stat", "sidecar", "fetch", "done"},
         "status" \in DOMAIN d.reply,
         d.key = c.key \/ (c.op = "image" /\ d.key = c.from)
  PROVE  Shape(d)
BY DEF Shape, SameRead

LEMMA CalmOf ==
  ASSUME NEW c, NEW d, SameRead(c, d), NEW holds
  PROVE  Calm(d, holds) <=> Calm(c, holds)
BY DEF Calm, SameRead

(* A read that finds nothing, or fails while the key is written.            *)
LEMMA MissedOK ==
  ASSUME NEW c, DOMAIN c = Fields, c.op \in ReadOp, Shape(c), NEW holds, NEW s,
         Calm(c, holds) => s = 404 /\ holds[c.key] = Nothing /\ SecondTry(c, holds)
  PROVE  ReadOK(Missed(c, s), holds)
<1>1. PICK d : d = Missed(c, s)
  OBVIOUS
<1>2. c.op = "image" => c.from \in Key /\ c.key \in Key /\ (c.key # c.from => c.key = c.wants[1])
  BY DEF Shape
<1>3. "status" \in DOMAIN c.reply
  BY DEF Shape
<1>4. CASE c.op # "image"
  <2>1. d = Replied(c, s, <<>>)
    BY <1>1, <1>4 DEF Missed
  <2>2. /\ SameRead(c, d) /\ d.key = c.key /\ d.pc = "done" /\ "status" \in DOMAIN d.reply
        /\ d.reply.status = s
    BY <2>1, RepliedFields
  <2>3. Shape(d)
    BY <2>2, ShapeOf
  <2>4. ASSUME Calm(d, holds) PROVE Learnt(d, holds[d.key]) /\ SecondTry(d, holds)
    <3>1. Calm(c, holds)
      BY <2>2, <2>4, CalmOf
    <3>2. Replies(d, holds[d.key])
      BY <1>4, <2>2, <3>1 DEF Replies, Answered, SameRead
    <3> QED BY <2>2, <3>1, <3>2 DEF Learnt, SecondTry, SameRead
  <2> QED BY <1>1, <2>3, <2>4 DEF ReadOK
<1>5. CASE c.op = "image" /\ c.key # c.from
  <2>1. SameRead(c, d) /\ "status" \in DOMAIN d.reply /\ d.key = c.from /\ d.pc = "stat" /\ ~d.checked
    BY <1>1, <1>3, <1>5, MissedFields
  <2>2. Shape(d)
    BY <1>5, <2>1, ShapeOf
  <2>3. ASSUME Calm(d, holds) PROVE Learnt(d, holds[d.key]) /\ SecondTry(d, holds)
    <3>1. Calm(c, holds)
      BY <2>1, <2>3, CalmOf
    <3>2. SecondTry(d, holds)
      BY <1>2, <1>5, <2>1, <3>1 DEF SecondTry, SameRead
    <3> QED BY <2>1, <3>2 DEF Learnt
  <2> QED BY <1>1, <2>2, <2>3 DEF ReadOK
<1>6. CASE c.op = "image" /\ c.key = c.from
  <2>1. /\ SameRead(c, d) /\ "status" \in DOMAIN d.reply /\ d.key = c.key /\ d.pc = "done"
        /\ d.reply.status = Placeholder
    BY <1>1, <1>3, <1>6, MissedFields
  <2>2. Shape(d)
    BY <2>1, ShapeOf
  <2>3. ASSUME Calm(d, holds) PROVE Learnt(d, holds[d.key]) /\ SecondTry(d, holds)
    <3>1. Calm(c, holds)
      BY <2>1, <2>3, CalmOf
    <3>2. Replies(d, holds[d.key])
      BY <1>6, <2>1, <3>1 DEF Replies, SameRead
    <3> QED BY <2>1, <3>1, <3>2 DEF Learnt, SecondTry, SameRead
  <2> QED BY <1>1, <2>2, <2>3 DEF ReadOK
<1> QED BY <1>4, <1>5, <1>6

(* A read that has the head of the object.                                  *)
LEMMA HeadedOK ==
  ASSUME NEW c, DOMAIN c = Fields, c.op \in ReadOp, Shape(c), c.pc # "done", NEW holds,
         Calm(c, holds) => /\ holds[c.key] \in Obj /\ Headline(c, holds[c.key]) /\ SecondTry(c, holds)
                           /\ c.checked => Looked(c, holds[c.key])
  PROVE  ReadOK(Headed(c), holds)
<1>1. PICK d : d = Headed(c)
  OBVIOUS
<1>2. PICK g : g = holds[c.key]
  OBVIOUS
<1>3. c.range \in RangeHeader /\ "status" \in DOMAIN c.reply
  BY DEF Shape
<1>4. CASE /\ c.checked
           /\ SameRead(c, d) /\ d.key = c.key /\ d.pc = "fetch" /\ d.size = c.size /\ d.etag = c.etag
           /\ d.checked = c.checked /\ d.span = c.span /\ d.reply = c.reply
  <2>1. Shape(d)
    BY <1>3, <1>4, ShapeOf
  <2>2. ASSUME Calm(d, holds) PROVE Learnt(d, holds[d.key]) /\ SecondTry(d, holds)
    <3>1. Calm(c, holds)
      BY <1>4, <2>2, CalmOf
    <3> QED BY <1>4, <3>1 DEF Learnt, SecondTry, SameRead, Headline, Looked
  <2> QED BY <1>1, <2>1, <2>2 DEF ReadOK
<1>5. ASSUME NEW s, d = Replied(c, s, <<>>), Calm(c, holds) => Answered(d.reply, g, c.range, c.known) /\ g # Nothing
      PROVE  ReadOK(d, holds)
  <2>1. SameRead(c, d) /\ d.key = c.key /\ d.pc = "done" /\ "status" \in DOMAIN d.reply
    BY <1>5, RepliedFields
  <2>2. Shape(d)
    BY <2>1, ShapeOf
  <2>3. ASSUME Calm(d, holds) PROVE Learnt(d, holds[d.key]) /\ SecondTry(d, holds)
    <3>1. Calm(c, holds)
      BY <2>1, <2>3, CalmOf
    <3>2. Replies(d, holds[d.key])
      BY <1>2, <1>5, <2>1, <3>1 DEF Replies, SameRead
    <3> QED BY <2>1, <3>1, <3>2 DEF Learnt, SecondTry, SameRead
  <2> QED BY <2>2, <2>3 DEF ReadOK
<1>6. CASE ~c.checked /\ c.range # Whole /\ Spans(c.range, c.size) = {} /\ d = Replied(c, 416, <<>>)
  <2>1. d.reply.status = 416
    BY <1>6, RepliedFields
  <2>2. ASSUME Calm(c, holds) PROVE Answered(d.reply, g, c.range, c.known) /\ g # Nothing
    <3>1. g \in Obj /\ g # Nothing /\ c.size = Len(g)
      BY <1>2, <2>2 DEF Headline
    <3>2. Bytes(g, c.range) = <<>>
      BY <1>3, <1>6, <3>1, BytesOfRange
    <3> QED BY <1>6, <2>1, <3>1, <3>2 DEF Answered
  <2> QED BY <1>1, <1>5, <1>6, <2>2
<1>7. CASE ~c.checked /\ c.range = Whole /\ c.etag = c.known /\ d = Replied(c, 304, <<>>)
  <2>1. d.reply.status = 304
    BY <1>7, RepliedFields
  <2>2. ASSUME Calm(c, holds) PROVE Answered(d.reply, g, c.range, c.known) /\ g # Nothing
    BY <1>2, <1>7, <2>1, <2>2 DEF Headline, Answered
  <2> QED BY <1>1, <1>5, <1>7, <2>2
<1>8. CASE /\ ~c.checked /\ (c.range # Whole => Spans(c.range, c.size) # {})
           /\ c.range = Whole => c.etag # c.known
           /\ SameRead(c, d) /\ d.key = c.key /\ d.pc = "stat" /\ d.checked /\ d.reply = c.reply
           /\ d.span = IF c.range = Whole THEN {} ELSE Spans(c.range, c.size)
  <2>1. Shape(d)
    BY <1>3, <1>8, ShapeOf
  <2>2. ASSUME Calm(d, holds) PROVE Learnt(d, holds[d.key]) /\ SecondTry(d, holds)
    <3>1. Calm(c, holds)
      BY <1>8, <2>2, CalmOf
    <3>2. Looked(d, g)
      BY <1>2, <1>8, <3>1 DEF Looked, Headline, SameRead
    <3> QED BY <1>2, <1>8, <3>1, <3>2 DEF Learnt, SecondTry, SameRead
  <2> QED BY <1>1, <2>1, <2>2 DEF ReadOK
<1> QED BY <1>1, <1>4, <1>6, <1>7, <1>8, HeadedFields

(* A read that reads the bytes, with the head it has.                       *)
LEMMA FetchedOK ==
  ASSUME NEW c, DOMAIN c = Fields, c.op \in ReadOp, Shape(c), NEW holds, NEW there,
         Calm(c, holds) => /\ there = holds[c.key] /\ there \in Obj /\ Headline(c, there) /\ SecondTry(c, holds)
                           /\ Looked(c, there)
  PROVE  ReadOK(Fetched(c, there), holds)
<1> DEFINE d == Fetched(c, there)
<1>1. c.range \in RangeHeader
  BY DEF Shape
<1>2. CASE ~Calm(c, holds)
  <2>1. \A s : ReadOK(Missed(c, s), holds)
    BY <1>2, MissedOK
  <2>2. ASSUME NEW s, NEW b PROVE ReadOK(Replied(c, s, b), holds)
    <3>1. PICK e : e = Replied(c, s, b)
      OBVIOUS
    <3>2. SameRead(c, e) /\ e.key = c.key /\ e.pc = "done" /\ "status" \in DOMAIN e.reply
      BY <3>1, RepliedFields
    <3>3. Shape(e) /\ ~Calm(e, holds)
      BY <1>2, <3>2, ShapeOf, CalmOf
    <3> QED BY <3>1, <3>3 DEF ReadOK
  <2>3. c.op = "avatar" => c.range = Whole
    BY DEF Shape
  <2> HIDE DEF d
  <2> QED BY <2>1, <2>2, <2>3 DEF d, Fetched
<1>3. CASE Calm(c, holds)
  <2>1. there \in Obj /\ there # Nothing /\ c.size = Len(there) /\ c.etag = there /\ Looked(c, there) /\ Len(there) \in Nat
    BY <1>3 DEF Headline, Obj
  <2>2. \E s, b : /\ d = Replied(c, s, b)
                  /\ s = IF c.range = Whole THEN 200 ELSE 206
                  /\ b = Bytes(there, c.range)
                  /\ c.range # Whole => b # <<>>
    <3>1. CASE c.range = Whole
      <4>1. Bytes(there, c.range) = there /\ Part(there, 0, Len(there) - 1) = there
        BY <1>1, <2>1, <3>1, BytesOfRange
      <4>2. ~(Len(there) < c.size)
        BY <2>1
      <4>3. d = Replied(c, 200, there)
        BY <2>1, <3>1, <4>1, <4>2 DEF Fetched
      <4> QED BY <3>1, <4>1, <4>3
    <3>2. CASE c.range # Whole
      <4>1. c.span = Spans(c.range, Len(there)) /\ Spans(c.range, Len(there)) # {} /\ c.op = "serve"
        BY <2>1, <3>2 DEF Looked, Shape
      <4> DEFINE n == Len(there)
      <4>2. PICK s, e : /\ Spans(c.range, n) = {s} /\ Ends(s, n) = {e} /\ s.start < n
                        /\ Part(there, s.start, e) = Bytes(there, c.range) /\ Bytes(there, c.range) # <<>>
        BY <1>1, <2>1, <3>2, <4>1, BytesOfRange
      <4>3. /\ c.span = {s} /\ Ends(s, c.size) = {e} /\ s.start < Len(there)
                        /\ Part(there, s.start, e) = Bytes(there, c.range) /\ Bytes(there, c.range) # <<>>
        BY <2>1, <4>1, <4>2
      <4>4. (CHOOSE t \in c.span : TRUE) = s /\ (CHOOSE f \in Ends(s, c.size) : TRUE) = e
        BY <4>3
      <4>5. ~(s.start >= Len(there))
        <5>1. s.start \in Nat
          <6>1. PICK t, f : Spans(c.range, Len(there)) = {t} /\ t.start \in Nat
            BY <1>1, <2>1, <3>2, <4>1, SpanOfRange
          <6> QED BY <4>1, <4>3, <6>1
        <5> QED BY <2>1, <4>3, <5>1
      <4>6. d = Replied(c, 206, Part(there, s.start, e))
        BY <3>2, <4>1, <4>3, <4>4, <4>5 DEF Fetched
      <4> QED BY <3>2, <4>3, <4>6
    <3> QED BY <3>1, <3>2
  <2>3. PICK s, b : /\ d = Replied(c, s, b)
                    /\ s = IF c.range = Whole THEN 200 ELSE 206
                    /\ b = Bytes(there, c.range)
                    /\ c.range # Whole => b # <<>>
    BY <2>2
  <2>4. /\ SameRead(c, d) /\ d.key = c.key /\ d.pc = "done" /\ "status" \in DOMAIN d.reply
        /\ d.reply = Reply(s, b, there, Len(there))
    BY <2>1, <2>3, RepliedFields
  <2> HIDE DEF d
  <2>5. Shape(d)
    BY <2>4, ShapeOf
  <2>6. Replies(d, there)
    BY <2>1, <2>3, <2>4 DEF Replies, Answered, Looked, SameRead, Reply
  <2> QED BY <1>3, <2>4, <2>5, <2>6 DEF ReadOK, Learnt, SecondTry, SameRead, d
<1> QED BY <1>2, <1>3

-----------------------------------------------------------------------------
(* Reads and listings while others write.                                   *)

(* A write disturbs the reads and listings of its key.                      *)
Crossed ==
  \A p, q \in Proc : /\ calls[p].op \in WriteOp /\ calls[q].op \in ReadOp \cup {"list"}
                     /\ calls[p].key \in Touches(calls[q])
                     => calls[p].key \in calls[q].disturbed

ListShape(c) ==
  /\ c.pc \in {"walk", "look"} /\ c.left \subseteq Nat \ {0}
  /\ c.pc = "walk" => c.entry = 0
  /\ c.pc = "look" => c.entry \in c.left

(* A listing of objects has listed those it is past, and no other.          *)
ListOK(c, holds) ==
  c.op = "list" =>
    /\ ListShape(c) /\ c.left \subseteq Key /\ c.owed = {}
    /\ \A k \in Key \ c.disturbed :
         holds[k] # Unknown =>
           {e \in c.listed : e.key = k} =
             IF k \in c.left \/ holds[k] = Nothing THEN {} ELSE {[key |-> k, size |-> Len(holds[k])]}

(* A listing of uploads has listed those it owes, or is still to come to    *)
(* them.                                                                    *)
OwedOK(c, rows) ==
  c.op = "list_uploads" =>
    /\ ListShape(c)
    /\ \A u \in c.owed :
         /\ u \in 1 .. Len(rows) /\ rows[u].known
         /\ rows[u].open => u \in c.left \/ [upload |-> u, key |-> rows[u].key] \in c.listed

(* An upload whose id is known is a directory with its upload.json as long  *)
(* as it is open; nobody knows the id before.                               *)
Creating(p) == calls[p].op = "create_multipart" /\ calls[p].pc \in {"open", "fill"}
UploadsOK ==
  /\ \A u \in Uploads : uploads[u].open => /\ Local => uploads[u].dir
                                           /\ uploads[u].known => uploads[u].meta = "whole"
  /\ \A p \in Proc : Creating(p) => ~uploads[calls[p].upload].known
  /\ \A p, q \in Proc : p # q /\ Creating(p) /\ Creating(q) => calls[p].upload # calls[q].upload

RInv ==
  /\ Crossed /\ UploadsOK
  /\ \A p \in Proc : ReadOK(calls[p], clean) /\ ListOK(calls[p], clean) /\ OwedOK(calls[p], uploads)

UploadsKept ==
  \A u \in Uploads : /\ u \in Uploads' /\ uploads'[u].key = uploads[u].key
                     /\ uploads'[u].open => uploads[u].open
                     /\ uploads[u].known => uploads'[u].known

(* What the steps of others may do to a read or a listing.                  *)
Onlooker(c, d) ==
  /\ d.op = c.op
  /\ c.op \in ReadOp \cup ListOp =>
       /\ d.pc = c.pc /\ d.key = c.key /\ d.from = c.from /\ d.wants = c.wants /\ d.range = c.range
       /\ d.known = c.known /\ d.size = c.size /\ d.etag = c.etag /\ d.span = c.span
       /\ d.checked = c.checked /\ d.reply = c.reply
       /\ d.left = c.left /\ d.listed = c.listed /\ d.entry = c.entry /\ d.owed = c.owed
       /\ c.disturbed \subseteq d.disturbed
  /\ c.op \in ReadOp \cup {"list"} =>
       \A k \in Key : k \in Touches(c) /\ k \notin d.disturbed => clean'[k] = clean[k]

LEMMA WantsOf ==
  ASSUME NEW c, c.op \in ReadOp, Shape(c)
  PROVE  /\ Touches(c) = ToSet(c.wants) /\ ToSet(c.wants) \subseteq Key
         /\ c.key \in ToSet(c.wants) /\ c.wants[1] \in ToSet(c.wants)
<1>1. Touches(c) = ToSet(c.wants)
  BY DEF Touches, ReadOp
<1>2. CASE c.key \in Key /\ c.wants = <<c.key>>
  <2>1. ToSet(c.wants) = {c.key} /\ c.wants[1] = c.key
    BY <1>2 DEF ToSet
  <2> QED BY <1>1, <1>2, <2>1
<1>3. CASE \E k \in Key : \E j \in Key \ {k} : c.wants = <<k, j>> /\ c.from = j /\ c.key \in {k, j}
  <2>1. PICK k \in Key, j \in Key : c.wants = <<k, j>> /\ c.key \in {k, j}
    BY <1>3
  <2>2. ToSet(c.wants) = {k, j} /\ c.wants[1] = k
    BY <2>1 DEF ToSet
  <2> QED BY <1>1, <2>1, <2>2
<1> QED BY <1>2, <1>3 DEF Shape

LEMMA OnlookerKeeps ==
  ASSUME NEW c, NEW d, Onlooker(c, d), UploadsKept, ReadOK(c, clean), ListOK(c, clean), OwedOK(c, uploads)
  PROVE  ReadOK(d, clean') /\ ListOK(d, clean') /\ OwedOK(d, uploads')
<1>1. ReadOK(d, clean')
  <2> SUFFICES ASSUME c.op \in ReadOp, d.op = c.op PROVE ReadOK(d, clean')
    BY DEF ReadOK, Onlooker
  <2>1. Shape(c)
    BY DEF ReadOK
  <2>2. Shape(d)
    BY <2>1 DEF Shape, Onlooker
  <2>3. ASSUME Calm(d, clean') PROVE Learnt(d, clean'[d.key]) /\ SecondTry(d, clean')
    <3>1. \A k \in ToSet(c.wants) : clean'[k] = clean[k]
      BY <2>1, <2>3, WantsOf DEF Calm, Onlooker
    <3>2. Calm(c, clean)
      BY <2>3, <3>1 DEF Calm, Onlooker
    <3>3. Learnt(c, clean[c.key]) /\ SecondTry(c, clean)
      BY <3>2 DEF ReadOK
    <3>4. clean'[d.key] = clean[c.key] /\ clean'[c.wants[1]] = clean[c.wants[1]]
      BY <2>1, <3>1, WantsOf DEF Onlooker
    <3>5. SecondTry(d, clean')
      BY <3>3, <3>4 DEF SecondTry, Onlooker
    <3> DEFINE g == clean[c.key]
    <3> HIDE DEF g
    <3>6. Learnt(d, g)
      BY <3>3 DEF g, Learnt, Headline, Looked, Replies, Onlooker
    <3> QED BY <3>4, <3>5, <3>6 DEF g
  <2> QED BY <2>2, <2>3 DEF ReadOK
<1>2. ListOK(d, clean')
  <2> SUFFICES ASSUME c.op = "list", d.op = c.op PROVE ListOK(d, clean')
    BY DEF ListOK, Onlooker
  <2>1. Touches(c) = Key
    BY DEF Touches, ReadOp
  <2>2. ListShape(d) /\ d.left \subseteq Key /\ d.owed = {}
    BY DEF ListOK, ListShape, Onlooker, ListOp
  <2>3. ASSUME NEW k \in Key \ d.disturbed, clean'[k] # Unknown
        PROVE  {e \in d.listed : e.key = k} =
                 IF k \in d.left \/ clean'[k] = Nothing THEN {} ELSE {[key |-> k, size |-> Len(clean'[k])]}
    <3>1. k \in Key \ c.disturbed /\ clean'[k] = clean[k] /\ d.listed = c.listed /\ d.left = c.left
      BY <2>1, <2>3 DEF Onlooker, ListOp
    <3>2. {e \in c.listed : e.key = k} =
            IF k \in c.left \/ clean[k] = Nothing THEN {} ELSE {[key |-> k, size |-> Len(clean[k])]}
      BY <2>3, <3>1 DEF ListOK
    <3> QED BY <3>1, <3>2
  <2> QED BY <2>2, <2>3 DEF ListOK
<1>3. OwedOK(d, uploads')
  <2> SUFFICES ASSUME c.op = "list_uploads", d.op = c.op PROVE OwedOK(d, uploads')
    BY DEF OwedOK, Onlooker
  <2>1. /\ ListShape(d) /\ d.owed = c.owed /\ d.left = c.left /\ d.listed = c.listed
    BY DEF OwedOK, ListShape, Onlooker, ListOp
  <2>2. ASSUME NEW u \in d.owed
        PROVE  /\ u \in 1 .. Len(uploads') /\ uploads'[u].known
               /\ uploads'[u].open => u \in d.left \/ [upload |-> u, key |-> uploads'[u].key] \in d.listed
    <3>1. /\ u \in 1 .. Len(uploads) /\ uploads[u].known
          /\ uploads[u].open => u \in c.left \/ [upload |-> u, key |-> uploads[u].key] \in c.listed
      BY <2>1 DEF OwedOK
    <3>2. /\ u \in Uploads' /\ uploads'[u].key = uploads[u].key
          /\ uploads'[u].open => uploads[u].open
          /\ uploads[u].known => uploads'[u].known
      BY <3>1 DEF UploadsKept, Uploads
    <3> QED BY <2>1, <3>1, <3>2 DEF Uploads
  <2> QED BY <2>1, <2>2 DEF OwedOK
<1> QED BY <1>1, <1>2, <1>3

LEMMA Unread ==
  ASSUME NEW c, c.op \notin ReadOp \cup ListOp, NEW holds, NEW rows
  PROVE  ReadOK(c, holds) /\ ListOK(c, holds) /\ OwedOK(c, rows)
BY DEF ReadOK, ListOK, OwedOK, ReadOp, ListOp

LEMMA IdleReader == Idle.op \notin ReadOp \cup ListOp /\ Idle.op \notin WriteOp /\ Idle.op # "create_multipart"
BY IdleRow DEF ReadOp, ListOp, WriteOp

LEMMA OpsDiffer ==
  /\ \A op \in WriteOp \cup UploadOp : op \notin ReadOp \cup ListOp
  /\ \A op \in ReadOp \cup ListOp : op \notin WriteOp /\ op # "create_multipart"
  /\ "create_multipart" \notin WriteOp
BY DEF WriteOp, UploadOp, ReadOp, ListOp

(* A step of a call that reads nothing, or the end of a call.               *)
Aside(p) ==
  /\ \A q \in Proc \ {p} :
       \/ calls'[q] = calls[q]
       \/ /\ calls[q].op \notin ReadOp \cup ListOp /\ calls[q].op # "create_multipart"
          /\ calls'[q].op = calls[q].op /\ calls'[q].key = calls[q].key
  /\ \/ calls'[p] = Idle
     \/ calls'[p].op = calls[p].op /\ calls'[p].key = calls[p].key /\ calls[p].op \in WriteOp \cup UploadOp
  /\ \A k \in Key : clean'[k] = clean[k] \/ (calls[p].op \in WriteOp /\ calls[p].key = k)

LEMMA AsideKeeps ==
  ASSUME RInv, NEW p \in Proc, Aside(p), UploadsKept, UploadsOK'
  PROVE  RInv'
<1>1. calls'[p].op \notin ReadOp \cup ListOp
  BY IdleReader, OpsDiffer DEF Aside
<1>2. ASSUME NEW w \in Proc, calls'[w].op \in WriteOp
      PROVE  calls[w].op \in WriteOp /\ calls'[w].key = calls[w].key
  BY <1>2, IdleReader DEF Aside
<1>3. ASSUME NEW q \in Proc, calls'[q].op \in ReadOp \cup ListOp
      PROVE  q # p /\ calls'[q] = calls[q]
  BY <1>1, <1>3 DEF Aside
<1>4. Crossed'
  <2> SUFFICES ASSUME NEW w \in Proc, NEW q \in Proc, calls'[w].op \in WriteOp,
                      calls'[q].op \in ReadOp \cup {"list"}, calls'[w].key \in Touches(calls'[q])
               PROVE  calls'[w].key \in calls'[q].disturbed
    BY DEF Crossed, Touches
  <2>1. calls'[q] = calls[q]
    BY <1>3 DEF ListOp
  <2> QED BY <1>2, <2>1 DEF RInv, Crossed
<1>5. ASSUME NEW q \in Proc
      PROVE  ReadOK(calls'[q], clean') /\ ListOK(calls'[q], clean') /\ OwedOK(calls'[q], uploads')
  <2>1. CASE calls'[q].op \notin ReadOp \cup ListOp
    BY <2>1, Unread
  <2>2. CASE calls'[q].op \in ReadOp \cup ListOp
    <3>1. q # p /\ calls'[q] = calls[q]
      BY <1>3, <2>2
    <3> DEFINE c == calls[q]
    <3>2. ASSUME c.op \in ReadOp \cup {"list"}, NEW k \in Key, k \in Touches(c), k \notin c.disturbed
          PROVE  clean'[k] = clean[k]
      <4>1. ~(calls[p].op \in WriteOp /\ calls[p].key = k)
        BY <3>2 DEF RInv, Crossed
      <4> QED BY <4>1 DEF Aside
    <3>3. ReadOK(c, clean) /\ ListOK(c, clean) /\ OwedOK(c, uploads)
      BY DEF RInv
    <3> HIDE DEF c
    <3>4. Onlooker(c, c)
      BY <3>2 DEF Onlooker
    <3>5. ReadOK(c, clean') /\ ListOK(c, clean') /\ OwedOK(c, uploads')
      BY <3>3, <3>4, OnlookerKeeps
    <3> QED BY <3>1, <3>5 DEF c
  <2> QED BY <2>1, <2>2
<1> QED BY <1>4, <1>5 DEF RInv, ReadOK, ListOK, OwedOK

-----------------------------------------------------------------------------
(* The steps of writes.                                                     *)

(* A call ends, or a write goes on; only that call moves.                   *)
Moves(p) ==
  /\ \A q \in Proc \ {p} : calls'[q] = calls[q]
  /\ \/ calls'[p] = Idle
     \/ calls'[p].op = calls[p].op /\ calls'[p].key = calls[p].key /\ calls[p].op \in WriteOp

(* What is known of a key changes at most as the write of it ends.          *)
Known(p) ==
  clean' = clean \/ (calls[p].op \in WriteOp /\ \E v : clean' = [clean EXCEPT ![calls[p].key] = v])

LEMMA UploadsStay ==
  ASSUME UploadsOK, NEW p \in Proc, Aside(p), UNCHANGED <<workload, uploads>>,
         calls'[p] = Idle \/ calls[p].op \in WriteOp
  PROVE  UploadsOK' /\ UploadsKept
<1>1. \A q \in Proc : Creating(q)' => Creating(q) /\ calls'[q].upload = calls[q].upload
  BY IdleReader, OpsDiffer DEF Aside, Creating
<1> QED BY <1>1 DEF UploadsOK, UploadsKept, Uploads, Local

LEMMA MoveKeeps ==
  ASSUME IInv, RInv, NEW p \in Proc, Moves(p), Known(p), UNCHANGED <<workload, uploads>>
  PROVE  RInv'
<1>1. Aside(p)
  BY DEF Moves, Known, Aside, IInv, Types
<1>2. UploadsOK' /\ UploadsKept
  BY <1>1, UploadsStay DEF RInv, Moves
<1> QED BY <1>1, <1>2, AsideKeeps

LEMMA RowOfCall ==
  ASSUME IInv, NEW p \in Proc
  PROVE  DOMAIN calls = Proc /\ DOMAIN calls[p] = Fields
BY DEF IInv, Types, RowInv

LEMMA EndKeeps ==
  ASSUME IInv, RInv, NEW p \in Proc, calls' = [calls EXCEPT ![p] = Idle], UNCHANGED <<workload, uploads, clean>>
  PROVE  RInv'
<1>1. Moves(p)
  BY RowOfCall DEF Moves
<1> QED BY <1>1, MoveKeeps DEF Known

LEMMA GoKeeps ==
  ASSUME IInv, RInv, NEW p \in Proc, NEW pc, Go(p, pc), calls[p].op \in WriteOp, UNCHANGED <<workload, uploads, clean>>
  PROVE  RInv'
<1>1. Moves(p)
  BY RowOfCall DEF Moves, Go, Fields
<1> QED BY <1>1, MoveKeeps DEF Known

LEMMA AnswerKeeps ==
  ASSUME IInv, RInv, NEW p \in Proc, NEW v, Answer(p, v), calls[p].op \in WriteOp, UNCHANGED <<workload, uploads>>
  PROVE  RInv'
<1>1. Moves(p) /\ Known(p)
  BY RowOfCall DEF Moves, Known, Answer
<1> QED BY <1>1, MoveKeeps

LEMMA PlainSteps ==
  ASSUME IInv, RInv, NEW p \in Proc,
         \/ OpenTmp(p) \/ CopyToTmp(p) \/ CheckPart(p) \/ AppendPart(p) \/ Assembled(p) \/ Describe(p)
         \/ OpenSide(p) \/ WriteSide(p) \/ RemoveFile(p) \/ RemoveSide(p) \/ FillTmp(p)
  PROVE  RInv'
<1>1. DOMAIN calls = Proc /\ DOMAIN calls[p] = Fields
  BY RowOfCall
<1>2. CASE OpenTmp(p)
  <2>1. Moves(p)
    BY <1>1, <1>2 DEF OpenTmp, In, Moves, Fields
  <2> QED BY <1>2, <2>1, MoveKeeps DEF Known, OpenTmp, disk
<1>3. CASE CopyToTmp(p)
  <2>1. Moves(p)
    <3>1. CASE files[calls[p].from] # Nothing
      BY <1>1, <1>3, <3>1 DEF CopyToTmp, At, Moves, Fields, WriteOp
    <3>2. CASE files[calls[p].from] = Nothing
      BY <1>1, <1>3, <3>2 DEF CopyToTmp, Fail, Moves
    <3> QED BY <3>1, <3>2
  <2> QED BY <1>3, <2>1, MoveKeeps DEF Known, CopyToTmp
<1>4. CASE CheckPart(p)
  <2>1. Go(p, "append") \/ calls' = [calls EXCEPT ![p] = Idle]
    BY <1>4 DEF CheckPart, Fail
  <2> QED BY <1>4, <2>1, GoKeeps, EndKeeps DEF CheckPart, At, WriteOp
<1>5. CASE AppendPart(p)
  <2>1. Moves(p)
    <3>1. CASE Stored(p) # NoPart
      <4>1. PICK t, n : calls' = [calls EXCEPT ![p].tmp = t, ![p].part = n, ![p].pc = "fill"]
        BY <1>5, <3>1 DEF AppendPart
      <4> QED BY <1>1, <1>5, <4>1 DEF AppendPart, At, Moves, Fields, WriteOp
    <3>2. CASE Stored(p) = NoPart
      BY <1>1, <1>5, <3>2 DEF AppendPart, Fail, Moves
    <3> QED BY <3>1, <3>2
  <2> QED BY <1>5, <2>1, MoveKeeps DEF Known, AppendPart
<1>6. CASE Assembled(p)
  BY <1>6, GoKeeps DEF Assembled, At, WriteOp, disk
<1>7. CASE Describe(p)
  <2>1. Moves(p)
    <3>1. CASE files[calls[p].key] # Nothing
      BY <1>1, <1>7, <3>1 DEF Describe, In, Moves, Fields
    <3>2. CASE files[calls[p].key] = Nothing
      BY <1>1, <1>7, <3>2 DEF Describe, Fail, Moves
    <3> QED BY <3>1, <3>2
  <2> QED BY <1>7, <2>1, MoveKeeps DEF Known, Describe
<1>8. CASE OpenSide(p)
  BY <1>8, GoKeeps DEF OpenSide, In
<1>9. CASE WriteSide(p)
  <2>1. (Go(p, "drop") /\ UNCHANGED clean) \/ Answer(p, calls[p].data)
    BY <1>9 DEF WriteSide
  <2> QED BY <1>9, <2>1, GoKeeps, AnswerKeeps DEF WriteSide, In
<1>10. CASE RemoveFile(p)
  BY <1>10, GoKeeps DEF RemoveFile, At, WriteOp
<1>11. CASE RemoveSide(p)
  BY <1>11, AnswerKeeps DEF RemoveSide, At, WriteOp
<1>12. CASE FillTmp(p)
  <2>1. Moves(p)
    <3>1. CASE Len(calls[p].tmp) = Len(calls[p].data)
      BY <1>1, <1>12, <3>1 DEF FillTmp, In, Moves, Fields
    <3>2. CASE Len(calls[p].tmp) # Len(calls[p].data)
      <4>1. PICK t : calls' = [calls EXCEPT ![p].tmp = t]
        BY <1>12, <3>2 DEF FillTmp
      <4> QED BY <1>1, <1>12, <4>1 DEF FillTmp, In, Moves, Fields
    <3> QED BY <3>1, <3>2
  <2> QED BY <1>12, <2>1, MoveKeeps DEF Known, FillTmp, disk
<1> QED BY <1>2, <1>3, <1>4, <1>5, <1>6, <1>7, <1>8, <1>9, <1>10, <1>11, <1>12

LEMMA GoesKeeps ==
  ASSUME IInv, RInv, NEW p \in Proc, NEW pc, Goes(p, pc), calls[p].op \in WriteOp, UNCHANGED <<workload, uploads, clean>>
  PROVE  RInv'
<1>1. Go(p, pc) \/ calls' = [calls EXCEPT ![p] = Idle]
  BY DEF Goes, AnswerLost
<1> QED BY <1>1, GoKeeps, EndKeeps

LEMMA S3Keeps ==
  ASSUME IInv, RInv, NEW p \in Proc,
         \/ StatSource(p) \/ SendWhole(p) \/ CopyWhole(p) \/ CreateOwn(p) \/ SendParts(p) \/ CopyPart(p)
         \/ AssembleOwn(p) \/ AssembleRefused(p) \/ HeadWritten(p) \/ AbortOwn(p)
         \/ RemoveObject(p) \/ RequestFails(p)
  PROVE  RInv'
<1>1. DOMAIN calls = Proc /\ DOMAIN calls[p] = Fields
  BY RowOfCall
<1>2. CASE StatSource(p)
  <2>1. Moves(p)
    BY <1>1, <1>2 DEF StatSource, At, Moves, Fields, WriteOp
  <2> QED BY <1>2, <2>1, MoveKeeps DEF Known, StatSource, disk
<1>3. CASE SendWhole(p)
  <2>1. Goes(p, "head") /\ calls[p].op \in WriteOp
    BY <1>3 DEF SendWhole, In, WriteOp
  <2> QED BY <1>3, <2>1, GoesKeeps DEF SendWhole
<1>4. CASE CopyWhole(p)
  <2>1. Moves(p)
    <3>1. CASE calls' = [calls EXCEPT ![p] = Idle]
      BY <1>1, <3>1 DEF Moves
    <3>2. CASE calls' = [calls EXCEPT ![p].pc = "head", ![p].data = files[calls[p].from]]
      BY <1>1, <1>4, <3>2 DEF CopyWhole, At, Moves, Fields, WriteOp
    <3> QED BY <1>4, <3>1, <3>2 DEF CopyWhole, AnswerLost
  <2> QED BY <1>4, <2>1, MoveKeeps DEF Known, CopyWhole
<1>5. CASE CreateOwn(p)
  BY <1>5, GoKeeps DEF CreateOwn, In, WriteOp, disk
<1>6. CASE SendParts(p)
  BY <1>6, GoKeeps DEF SendParts, At, WriteOp, disk
<1>7. CASE CopyPart(p)
  <2>1. Moves(p)
    <3>1. \/ calls' = [calls EXCEPT ![p].pc = "assemble"]
          \/ calls' = [calls EXCEPT ![p].pc = "abort"]
          \/ \E v, n : calls' = [calls EXCEPT ![p].data = v, ![p].part = n]
      <4> DEFINE i == calls[p].part
                 v == [calls[p].data EXCEPT ![i] = files[calls[p].from][i]]
      <4>1. \/ calls' = [calls EXCEPT ![p].pc = "assemble"]
            \/ calls' = [calls EXCEPT ![p].pc = "abort"]
            \/ calls' = [calls EXCEPT ![p].data = v, ![p].part = i + 1]
        BY <1>7 DEF CopyPart
      <4> HIDE DEF v
      <4> QED BY <4>1
    <3>2. calls[p].op \in WriteOp
      BY <1>7 DEF CopyPart, At, WriteOp
    <3> QED BY <1>1, <3>1, <3>2 DEF Moves, Fields
  <2> QED BY <1>7, <2>1, MoveKeeps DEF Known, CopyPart, disk
<1>8. CASE AssembleOwn(p)
  <2>1. Goes(p, "head") /\ calls[p].op \in WriteOp
    BY <1>8 DEF AssembleOwn, In, WriteOp
  <2> QED BY <1>8, <2>1, GoesKeeps DEF AssembleOwn
<1>9. CASE AssembleRefused(p)
  BY <1>9, EndKeeps DEF AssembleRefused, disk
<1>10. CASE HeadWritten(p)
  <2>1. (calls' = [calls EXCEPT ![p] = Idle] /\ UNCHANGED clean) \/ Answer(p, calls[p].data)
    BY <1>10 DEF HeadWritten
  <2> QED BY <1>10, <2>1, EndKeeps, AnswerKeeps DEF HeadWritten, In, disk
<1>11. CASE AbortOwn(p)
  BY <1>11, EndKeeps DEF AbortOwn, disk
<1>12. CASE RemoveObject(p)
  <2>1. (calls' = [calls EXCEPT ![p] = Idle] /\ UNCHANGED clean) \/ Answer(p, Nothing)
    BY <1>12 DEF RemoveObject, AnswerLost
  <2> QED BY <1>12, <2>1, EndKeeps, AnswerKeeps DEF RemoveObject, At, WriteOp
<1>13. CASE RequestFails(p)
  <2>1. (Go(p, "abort") /\ Aborts(p)) \/ calls' = [calls EXCEPT ![p] = Idle]
    BY <1>13 DEF RequestFails, Fail
  <2>2. Aborts(p) => calls[p].op \in WriteOp
    BY DEF Aborts, In, At, WriteOp
  <2> QED BY <1>13, <2>1, <2>2, GoKeeps, EndKeeps DEF RequestFails
<1> QED BY <1>2, <1>3, <1>4, <1>5, <1>6, <1>7, <1>8, <1>9, <1>10, <1>11, <1>12, <1>13

(* Answers that are given, entries that vanish and parts that are lost.     *)
LEMMA Endings ==
  ASSUME IInv, RInv, NEW p \in Proc, LosePart(p) \/ Deliver(p) \/ TmpVanishes(p)
  PROVE  RInv'
BY EndKeeps DEF LosePart, Deliver, TmpVanishes, disk

LEMMA CrashKeeps ==
  ASSUME IInv, RInv, Crash
  PROVE  RInv'
<1>1. UNCHANGED <<workload, uploads, clean>> /\ \A q \in Proc : calls'[q] = Idle
  BY DEF Crash
<1>2. UploadsOK'
  BY <1>1, IdleReader DEF RInv, UploadsOK, Uploads, Local, Creating
<1>3. \A q \in Proc : ReadOK(calls'[q], clean') /\ ListOK(calls'[q], clean') /\ OwedOK(calls'[q], uploads')
  BY <1>1, IdleReader, Unread
<1>4. Crossed'
  BY <1>1, IdleReader DEF Crossed
<1> QED BY <1>2, <1>3, <1>4 DEF RInv, ReadOK, ListOK, OwedOK

-----------------------------------------------------------------------------
(* Uploads.                                                                 *)

LEMMA RowsOfUploads ==
  ASSUME IInv
  PROVE  /\ Len(uploads) \in Nat
         /\ \A u \in Uploads : DOMAIN uploads[u] = {"key", "open", "dir", "fate", "known", "meta", "parts", "acks"}
         /\ DOMAIN uploads = Uploads
<1>1. uploads \in Seq(UploadRow)
  BY DEF IInv, Types
<1>2. \A r \in UploadRow : DOMAIN r = {"key", "open", "dir", "fate", "known", "meta", "parts", "acks"}
  BY DEF UploadRow
<1> QED BY <1>1, <1>2 DEF Uploads

(* One upload changes.                                                      *)
LEMMA OneUpload ==
  ASSUME IInv, NEW u \in Uploads, NEW r, uploads' = [uploads EXCEPT ![u] = r], r.key = uploads[u].key,
         r.open => uploads[u].open, uploads[u].known => r.known
  PROVE  /\ Len(uploads') = Len(uploads) /\ Uploads' = Uploads /\ uploads'[u] = r
         /\ \A v \in Uploads \ {u} : uploads'[v] = uploads[v]
         /\ UploadsKept
<1>1. uploads \in Seq(UploadRow) /\ DOMAIN uploads = 1 .. Len(uploads)
  BY DEF IInv, Types
<1>2. Len(uploads') = Len(uploads)
  BY <1>1
<1>3. uploads'[u] = r /\ \A v \in Uploads \ {u} : uploads'[v] = uploads[v]
  BY <1>1 DEF Uploads
<1>4. Uploads' = Uploads
  BY <1>2 DEF Uploads
<1> QED BY <1>2, <1>3, <1>4 DEF UploadsKept

(* ... whose metadata and directory are as they should be, and that no call *)
(* is creating.                                                             *)
LEMMA UploadStays ==
  ASSUME IInv, UploadsOK, NEW p \in Proc, Aside(p), workload' = workload,
         calls'[p] = Idle \/ calls[p].op # "create_multipart",
         NEW u \in Uploads, NEW r, uploads' = [uploads EXCEPT ![u] = r], r.key = uploads[u].key,
         r.open => uploads[u].open, r.known <=> uploads[u].known,
         r.open => (r.dir <=> uploads[u].dir) \/ r.dir, r.open => r.meta = uploads[u].meta
  PROVE  UploadsOK' /\ UploadsKept
<1>1. /\ Uploads' = Uploads /\ uploads'[u] = r /\ UploadsKept
      /\ \A v \in Uploads \ {u} : uploads'[v] = uploads[v]
  BY OneUpload
<1>2. \A q \in Proc : Creating(q)' => Creating(q) /\ calls'[q].upload = calls[q].upload
  BY IdleReader, OpsDiffer DEF Aside, Creating
<1>3. \A q \in Proc : Creating(q) => calls[q].upload \in Uploads
  BY DEF Creating, IInv, RowInv, UploadOK
<1>4. ASSUME NEW v \in Uploads, uploads'[v].open
      PROVE  /\ Local => uploads'[v].dir
             /\ uploads'[v].known => uploads'[v].meta = "whole"
  BY <1>1, <1>4 DEF UploadsOK
<1>5. \A q \in Proc : Creating(q)' => ~uploads'[calls'[q].upload].known
  BY <1>1, <1>2, <1>3 DEF UploadsOK
<1> QED BY <1>1, <1>2, <1>4, <1>5 DEF UploadsOK, Local

LEMMA UploadStep ==
  ASSUME IInv, RInv, NEW p \in Proc, Aside(p), workload' = workload,
         calls'[p] = Idle \/ calls[p].op # "create_multipart",
         NEW u \in Uploads, NEW r, uploads' = [uploads EXCEPT ![u] = r], r.key = uploads[u].key,
         r.open => uploads[u].open, r.known <=> uploads[u].known,
         r.open => (r.dir <=> uploads[u].dir) \/ r.dir, r.open => r.meta = uploads[u].meta
  PROVE  RInv'
<1>1. UploadsOK' /\ UploadsKept
  BY UploadStays DEF RInv
<1> QED BY <1>1, AsideKeeps

LEMMA ClosedRow ==
  ASSUME IInv, NEW u \in Uploads, NEW f
  PROVE  LET r == [Closed(u) EXCEPT !.fate = f] IN
         /\ r.key = uploads[u].key /\ ~r.open /\ (r.known <=> uploads[u].known)
         /\ Closed(u).key = uploads[u].key /\ ~Closed(u).open /\ (Closed(u).known <=> uploads[u].known)
<1>1. DOMAIN uploads[u] = {"key", "open", "dir", "fate", "known", "meta", "parts", "acks"}
  BY RowsOfUploads
<1>2. PICK c : c = uploads[u]
  OBVIOUS
<1>3. PICK i : i = [j \in PartNo |-> NoPart]
  OBVIOUS
<1>4. PICK b : b = [c EXCEPT !.open = FALSE, !.dir = FALSE, !.meta = "none", !.parts = i]
  OBVIOUS
<1>5. Closed(u) = b
  BY <1>2, <1>3, <1>4 DEF Closed
<1>6. /\ DOMAIN b = DOMAIN c /\ b.key = c.key /\ ~b.open /\ (b.known <=> c.known)
  BY <1>1, <1>2, <1>4
<1>7. [b EXCEPT !.fate = f].key = b.key /\ ([b EXCEPT !.fate = f].open <=> b.open) /\ ([b EXCEPT !.fate = f].known <=> b.known)
  BY <1>1, <1>2, <1>6
<1> QED BY <1>2, <1>5, <1>6, <1>7

LEMMA FieldKept ==
  ASSUME IInv, NEW u \in Uploads, NEW v
  PROVE  /\ LET r == [uploads[u] EXCEPT !.fate = v] IN
            /\ r.key = uploads[u].key /\ (r.open <=> uploads[u].open) /\ (r.known <=> uploads[u].known)
            /\ (r.dir <=> uploads[u].dir) /\ r.meta = uploads[u].meta
         /\ LET r == [uploads[u] EXCEPT !.dir = TRUE] IN
            /\ r.key = uploads[u].key /\ (r.open <=> uploads[u].open) /\ (r.known <=> uploads[u].known)
            /\ r.dir /\ r.meta = uploads[u].meta
<1>1. DOMAIN uploads[u] = {"key", "open", "dir", "fate", "known", "meta", "parts", "acks"}
  BY RowsOfUploads
<1> QED BY <1>1

LEMMA RenameKeeps ==
  ASSUME IInv, RInv, NEW p \in Proc, Rename(p)
  PROVE  RInv'
<1>1. DOMAIN calls = Proc /\ DOMAIN calls[p] = Fields
  BY RowOfCall
<1>2. Moves(p) /\ calls[p].op \in WriteOp
  <2>1. PICK t : calls' = [calls EXCEPT ![p].pc = "describe", ![p].data = t, ![p].tmp = Nothing]
    BY DEF Rename
  <2> QED BY <1>1, <2>1 DEF Rename, In, Moves, Fields
<1>3. CASE calls[p].op = "complete"
  <2> DEFINE u == calls[p].upload
             r == [uploads[u] EXCEPT !.fate = "assembled"]
  <2>1. u \in Uploads
    BY <1>3 DEF IInv, RowInv, CompleteOK
  <2>2. uploads' = [uploads EXCEPT ![u] = r]
    BY <1>3 DEF Rename
  <2>3. /\ r.key = uploads[u].key /\ (r.open <=> uploads[u].open) /\ (r.known <=> uploads[u].known)
        /\ (r.dir <=> uploads[u].dir) /\ r.meta = uploads[u].meta
    BY <2>1, FieldKept
  <2>4. Aside(p) /\ workload' = workload
    BY <1>2 DEF Rename, Aside, Moves
  <2>5. calls[p].op # "create_multipart"
    BY <1>3
  <2> HIDE DEF u, r
  <2> QED BY <2>1, <2>2, <2>3, <2>4, <2>5, UploadStep
<1>4. CASE calls[p].op # "complete"
  BY <1>2, <1>4, MoveKeeps DEF Rename, Known
<1> QED BY <1>3, <1>4

LEMMA AssembleKeeps ==
  ASSUME IInv, RInv, NEW p \in Proc, Assemble(p)
  PROVE  RInv'
<1>1. DOMAIN calls = Proc /\ DOMAIN calls[p] = Fields /\ calls[p].op = "complete"
  BY RowOfCall DEF Assemble, At
<1> DEFINE u == calls[p].upload
           r == [Closed(u) EXCEPT !.fate = "assembled"]
<1>2. u \in Uploads
  BY <1>1 DEF IInv, RowInv, CompleteOK
<1>3. uploads' = [uploads EXCEPT ![u] = r] /\ workload' = workload /\ clean' = clean
  BY DEF Assemble
<1>4. r.key = uploads[u].key /\ ~r.open /\ (r.known <=> uploads[u].known)
  BY <1>2, ClosedRow
<1>5. Aside(p)
  <2>1. Go(p, "head") \/ calls' = [calls EXCEPT ![p] = Idle]
    BY DEF Assemble, Goes, AnswerLost
  <2> QED BY <1>1, <1>3, <2>1 DEF Go, Aside, Fields, WriteOp
<1>6. calls[p].op # "create_multipart"
  BY <1>1
<1> HIDE DEF u, r
<1> QED BY <1>2, <1>3, <1>4, <1>5, <1>6, UploadStep

(* remove_dir_all: parts that are being uploaded are lost.                  *)
LEMMA WithoutDirAside ==
  ASSUME IInv, NEW p \in Proc, NEW u, calls' = [WithoutDir(u) EXCEPT ![p] = Idle],
         clean' = clean \/ (calls[p].op \in WriteOp /\ \E v : clean' = [clean EXCEPT ![calls[p].key] = v])
  PROVE  Aside(p) /\ calls'[p] = Idle
<1>1. calls'[p] = Idle
  BY DEF WithoutDir
<1>2. ASSUME NEW q \in Proc \ {p}
      PROVE  \/ calls'[q] = calls[q]
             \/ /\ calls[q].op \notin ReadOp \cup ListOp /\ calls[q].op # "create_multipart"
                /\ calls'[q].op = calls[q].op /\ calls'[q].key = calls[q].key
  <2> DEFINE c == calls[q]
  <2>1. DOMAIN c = Fields
    BY RowOfCall
  <2>2. calls'[q] = c \/ (c.op = "upload_part" /\ calls'[q] = [c EXCEPT !.pc = "lost"])
    BY DEF WithoutDir, At
  <2> HIDE DEF c
  <2>3. CASE c.op = "upload_part" /\ calls'[q] = [c EXCEPT !.pc = "lost"]
    <3>1. calls'[q].op = c.op /\ calls'[q].key = c.key
      BY <2>1, <2>3 DEF Fields
    <3>2. c.op \notin ReadOp \cup ListOp /\ c.op # "create_multipart"
      BY <2>3 DEF ReadOp, ListOp
    <3> QED BY <3>1, <3>2 DEF c
  <2> QED BY <2>2, <2>3 DEF c
<1>3. \A k \in Key : clean'[k] = clean[k] \/ (calls[p].op \in WriteOp /\ calls[p].key = k)
  BY DEF IInv, Types
<1> QED BY <1>1, <1>2, <1>3 DEF Aside

LEMMA AbortKeeps ==
  ASSUME IInv, RInv, NEW p \in Proc, Abort(p)
  PROVE  RInv'
<1> DEFINE u == calls[p].upload
<1>1. u \in Uploads
  BY DEF IInv, RowInv, UploadOK, Abort, At
<1>2. PICK f : uploads' = [uploads EXCEPT ![u] = [Closed(u) EXCEPT !.fate = f]]
  BY DEF Abort
<1> DEFINE r == [Closed(u) EXCEPT !.fate = f]
<1>3. uploads' = [uploads EXCEPT ![u] = r] /\ workload' = workload
  BY <1>2 DEF Abort
<1>4. r.key = uploads[u].key /\ ~r.open /\ (r.known <=> uploads[u].known)
  BY <1>1, ClosedRow
<1>5. Aside(p) /\ calls'[p] = Idle
  BY WithoutDirAside DEF Abort
<1> HIDE DEF u, r
<1> QED BY <1>1, <1>3, <1>4, <1>5, UploadStep

LEMMA DropDirKeeps ==
  ASSUME IInv, RInv, NEW p \in Proc, DropDir(p)
  PROVE  RInv'
<1> DEFINE u == calls[p].upload
           r == Closed(u)
<1>1. u \in Uploads /\ calls[p].op \in WriteOp
  BY DEF IInv, RowInv, CompleteOK, DropDir, At, WriteOp
<1>2. uploads' = [uploads EXCEPT ![u] = r] /\ workload' = workload
  BY DEF DropDir
<1>3. r.key = uploads[u].key /\ ~r.open /\ (r.known <=> uploads[u].known)
  BY <1>1, ClosedRow
<1>4. Aside(p) /\ calls'[p] = Idle
  BY <1>1, WithoutDirAside DEF DropDir
<1> HIDE DEF u, r
<1> QED BY <1>1, <1>2, <1>3, <1>4, UploadStep

LEMMA StorePartKeeps ==
  ASSUME IInv, RInv, NEW p \in Proc, StorePart(p)
  PROVE  RInv'
<1>1. PICK u, i, n : u = calls[p].upload /\ i = calls[p].part /\ n = calls[p].id
  OBVIOUS
<1>2. PICK y : y = uploads[u]
  OBVIOUS
<1>3. PICK a, b : a = [y.parts EXCEPT ![i] = n] /\ b = [y.acks EXCEPT ![i] = @ \cup {n}]
  OBVIOUS
<1>4. PICK r : r = [y EXCEPT !.parts = a, !.acks = b]
  OBVIOUS
<1>5. /\ calls[p].op = "upload_part" /\ UNCHANGED <<workload, clean>>
      /\ uploads' = [uploads EXCEPT ![u].parts[i] = n, ![u].acks[i] = @ \cup {n}]
      /\ calls' = [q \in Proc |-> IF q = p THEN Idle
                                  ELSE IF calls[q].op = "complete" /\ calls[q].upload = u
                                    THEN [calls[q] EXCEPT !.again = @ \cup {<<i, n>>}] ELSE calls[q]]
  BY <1>1 DEF StorePart, At
<1>6. u \in Uploads
  BY <1>1, <1>5 DEF IInv, RowInv, UploadOK
<1>7. uploads' = [uploads EXCEPT ![u] = r]
  BY <1>2, <1>3, <1>4, <1>5
<1>8. DOMAIN y = {"key", "open", "dir", "fate", "known", "meta", "parts", "acks"}
  BY <1>2, <1>6, RowsOfUploads
<1>9. /\ r.key = y.key /\ (r.open <=> y.open) /\ (r.known <=> y.known)
      /\ (r.dir <=> y.dir) /\ r.meta = y.meta
  BY <1>4, <1>8
<1>10. ASSUME NEW q \in Proc \ {p}
       PROVE  \/ calls'[q] = calls[q]
              \/ /\ calls[q].op \notin ReadOp \cup ListOp /\ calls[q].op # "create_multipart"
                 /\ calls'[q].op = calls[q].op /\ calls'[q].key = calls[q].key
  <2> DEFINE c == calls[q]
  <2>1. DOMAIN c = Fields
    BY RowOfCall
  <2>2. calls'[q] = c \/ (c.op = "complete" /\ calls'[q] = [c EXCEPT !.again = @ \cup {<<i, n>>}])
    BY <1>5
  <2> HIDE DEF c
  <2>3. CASE c.op = "complete" /\ calls'[q] = [c EXCEPT !.again = @ \cup {<<i, n>>}]
    <3>1. calls'[q].op = c.op /\ calls'[q].key = c.key
      BY <2>1, <2>3 DEF Fields
    <3>2. c.op \notin ReadOp \cup ListOp /\ c.op # "create_multipart"
      BY <2>3 DEF ReadOp, ListOp
    <3> QED BY <3>1, <3>2 DEF c
  <2> QED BY <2>2, <2>3 DEF c
<1>11. Aside(p) /\ calls'[p] = Idle
  BY <1>5, <1>10 DEF Aside
<1> QED BY <1>2, <1>5, <1>6, <1>7, <1>9, <1>11, UploadStep

LEMMA OpenPartKeeps ==
  ASSUME IInv, RInv, NEW p \in Proc, OpenPart(p)
  PROVE  RInv'
<1> DEFINE u == calls[p].upload
           r == [uploads[u] EXCEPT !.dir = TRUE]
<1>1. DOMAIN calls = Proc /\ DOMAIN calls[p] = Fields /\ calls[p].op = "upload_part"
  BY RowOfCall DEF OpenPart, At
<1>2. u \in Uploads
  BY <1>1 DEF IInv, RowInv, UploadOK
<1>3. uploads' = [uploads EXCEPT ![u] = r] /\ workload' = workload /\ clean' = clean
  BY DEF OpenPart
<1>4. /\ r.key = uploads[u].key /\ (r.open <=> uploads[u].open) /\ (r.known <=> uploads[u].known)
      /\ r.dir /\ r.meta = uploads[u].meta
  BY <1>2, FieldKept
<1>5. Aside(p)
  BY <1>1, <1>3 DEF OpenPart, Go, Aside, Fields, UploadOp
<1>6. calls[p].op # "create_multipart"
  BY <1>1
<1> HIDE DEF u, r
<1> QED BY <1>2, <1>3, <1>4, <1>5, <1>6, UploadStep

(* A call that creates an upload.                                           *)
LEMMA CreatorAside ==
  ASSUME IInv, NEW p \in Proc, NEW r, calls' = [calls EXCEPT ![p] = r], calls[p].op = "create_multipart",
         r = Idle \/ (r.op = calls[p].op /\ r.key = calls[p].key), clean' = clean
  PROVE  Aside(p) /\ calls'[p] = r /\ \A q \in Proc \ {p} : calls'[q] = calls[q]
BY RowOfCall DEF Aside, UploadOp

LEMMA CreatorsUploads ==
  ASSUME IInv, NEW q \in Proc, Creating(q)
  PROVE  calls[q].upload \in Uploads
BY DEF Creating, IInv, RowInv, UploadOK

LEMMA OpenMetaKeeps ==
  ASSUME IInv, RInv, NEW p \in Proc, OpenMeta(p)
  PROVE  RInv'
<1> DEFINE u == calls[p].upload
           r == [uploads[u] EXCEPT !.meta = "torn"]
           d == [calls[p] EXCEPT !.pc = "fill"]
<1>1. DOMAIN calls[p] = Fields /\ Creating(p) /\ calls[p].op = "create_multipart"
  BY RowOfCall DEF OpenMeta, At, Creating
<1>2. u \in Uploads
  BY <1>1, CreatorsUploads
<1>3. uploads' = [uploads EXCEPT ![u] = r] /\ workload' = workload /\ clean' = clean /\ calls' = [calls EXCEPT ![p] = d]
  BY DEF OpenMeta, Go
<1>4. /\ r.key = uploads[u].key /\ (r.open <=> uploads[u].open) /\ (r.known <=> uploads[u].known)
      /\ (r.dir <=> uploads[u].dir)
  BY <1>2, RowsOfUploads
<1>5. d.op = calls[p].op /\ d.key = calls[p].key /\ d.upload = u /\ d.pc = "fill"
  BY <1>1 DEF Fields
<1> HIDE DEF d, r
<1>6. Aside(p) /\ calls'[p] = d /\ \A q \in Proc \ {p} : calls'[q] = calls[q]
  BY <1>1, <1>3, <1>5, CreatorAside
<1>7. /\ Uploads' = Uploads /\ uploads'[u] = r /\ \A v \in Uploads \ {u} : uploads'[v] = uploads[v]
      /\ UploadsKept
  BY <1>2, <1>3, <1>4, OneUpload
<1>8. ~uploads[u].known
  BY <1>1 DEF RInv, UploadsOK
<1>9. \A q \in Proc : Creating(q)' => Creating(q) /\ calls'[q].upload = calls[q].upload
  BY <1>1, <1>5, <1>6 DEF Creating
<1>10. \A q \in Proc : Creating(q) => calls[q].upload \in Uploads
  BY CreatorsUploads
<1> HIDE DEF u
<1>11. ASSUME NEW v \in Uploads, uploads'[v].open
       PROVE  /\ Local => uploads'[v].dir
              /\ uploads'[v].known => uploads'[v].meta = "whole"
  BY <1>4, <1>7, <1>8, <1>11 DEF RInv, UploadsOK
<1>12. \A v \in Uploads : uploads'[v].known <=> uploads[v].known
  BY <1>4, <1>7
<1>13. UploadsOK'
  BY <1>3, <1>7, <1>9, <1>10, <1>11, <1>12 DEF RInv, UploadsOK, Local
<1> QED BY <1>6, <1>7, <1>13, AsideKeeps

LEMMA WriteMetaKeeps ==
  ASSUME IInv, RInv, NEW p \in Proc, WriteMeta(p)
  PROVE  RInv'
<1> DEFINE u == calls[p].upload
           r == [uploads[u] EXCEPT !.meta = "whole", !.known = TRUE]
<1>1. Creating(p) /\ calls[p].op = "create_multipart"
  BY DEF WriteMeta, At, Creating
<1>2. u \in Uploads
  BY <1>1, CreatorsUploads
<1>3. uploads' = [uploads EXCEPT ![u] = r] /\ workload' = workload /\ clean' = clean /\ calls' = [calls EXCEPT ![p] = Idle]
  BY DEF WriteMeta
<1>4. /\ r.key = uploads[u].key /\ (r.open <=> uploads[u].open) /\ r.known
      /\ (r.dir <=> uploads[u].dir) /\ r.meta = "whole"
  BY <1>2, RowsOfUploads
<1> HIDE DEF r
<1>5. Aside(p) /\ calls'[p] = Idle /\ \A q \in Proc \ {p} : calls'[q] = calls[q]
  BY <1>1, <1>3, CreatorAside
<1>6. /\ Uploads' = Uploads /\ uploads'[u] = r /\ \A v \in Uploads \ {u} : uploads'[v] = uploads[v]
      /\ UploadsKept
  BY <1>2, <1>3, <1>4, OneUpload
<1>7. \A q \in Proc : Creating(q)' => q # p /\ Creating(q) /\ calls'[q].upload = calls[q].upload
  BY <1>5, IdleReader DEF Creating
<1>8. \A q \in Proc \ {p} : Creating(q) => calls[q].upload \in Uploads \ {u}
  BY <1>1, CreatorsUploads DEF RInv, UploadsOK
<1> HIDE DEF u
<1>9. ASSUME NEW v \in Uploads, uploads'[v].open
      PROVE  /\ Local => uploads'[v].dir
             /\ uploads'[v].known => uploads'[v].meta = "whole"
  BY <1>4, <1>6, <1>9 DEF RInv, UploadsOK
<1>10. UploadsOK'
  BY <1>3, <1>6, <1>7, <1>8, <1>9 DEF RInv, UploadsOK, Local
<1> QED BY <1>5, <1>6, <1>10, AsideKeeps

LEMMA NewUploadKeeps ==
  ASSUME IInv, RInv, NEW p \in Proc, CreateUpload(p) \/ MakeDir(p)
  PROVE  RInv'
<1> DEFINE c == calls[p]
           n == Len(uploads) + 1
<1>1. PICK r : r = IF MakeDir(p) THEN [c EXCEPT !.pc = "open", !.upload = n] ELSE Idle
  OBVIOUS
<1>2. PICK b \in BOOLEAN :
        /\ uploads' = Append(uploads, [key |-> c.key, open |-> TRUE, dir |-> Local, fate |-> "open",
                                       known |-> b, meta |-> IF Local THEN "none" ELSE "whole",
                                       parts |-> [i \in PartNo |-> NoPart], acks |-> [i \in PartNo |-> {}]])
        /\ MakeDir(p) => Local /\ ~b
        /\ ~MakeDir(p) => ~Local
  BY DEF CreateUpload, MakeDir, NewUpload
<1>3. PICK x : x = [key |-> c.key, open |-> TRUE, dir |-> Local, fate |-> "open",
                    known |-> b, meta |-> IF Local THEN "none" ELSE "whole",
                    parts |-> [i \in PartNo |-> NoPart], acks |-> [i \in PartNo |-> {}]]
  OBVIOUS
<1>4. /\ c.op = "create_multipart" /\ UNCHANGED <<workload, clean>> /\ DOMAIN c = Fields
      /\ calls' = [calls EXCEPT ![p] = r] /\ uploads' = Append(uploads, x)
  BY <1>1, <1>2, <1>3, RowOfCall DEF CreateUpload, MakeDir, At, AnswerLost
<1>5. /\ Local => x.dir
      /\ x.known => x.meta = "whole"
      /\ MakeDir(p) => ~x.known
  <2>1. x.dir = Local /\ x.known = b /\ x.meta = IF Local THEN "none" ELSE "whole"
    BY <1>3, Zenon
  <2> QED BY <1>2, <2>1
<1>6. uploads \in Seq(UploadRow) /\ Len(uploads) \in Nat
  BY DEF IInv, Types
<1>7. /\ Len(uploads') = n /\ uploads'[n] = x
      /\ \A v \in 1 .. Len(uploads) : uploads'[v] = uploads[v]
  <2>1. PICK S : S = UploadRow \cup {x}
    OBVIOUS
  <2>2. uploads \in Seq(S) /\ x \in S
    BY <1>6, <2>1
  <2> QED BY <1>4, <2>2, AppendProperties
<1>8. n \notin Uploads /\ n \in Uploads' /\ Uploads' = Uploads \cup {n} /\ \A v \in Uploads : uploads'[v] = uploads[v]
  BY <1>6, <1>7 DEF Uploads
<1>9. UploadsKept
  BY <1>8 DEF UploadsKept
<1>10. r = Idle \/ (r.op = c.op /\ r.key = c.key /\ r.upload = n /\ MakeDir(p))
  BY <1>1, <1>4 DEF Fields
<1>11. Aside(p) /\ calls'[p] = r /\ \A q \in Proc \ {p} : calls'[q] = calls[q]
  BY <1>4, <1>10, CreatorAside
<1> HIDE DEF c, n
<1>12. \A q \in Proc : Creating(q)' =>
         IF q = p THEN calls'[q].upload = n /\ ~x.known
         ELSE Creating(q) /\ calls'[q].upload = calls[q].upload
  BY <1>5, <1>10, <1>11, IdleReader DEF Creating
<1>13. \A q \in Proc : Creating(q) => calls[q].upload \in Uploads
  BY CreatorsUploads
<1>14. ASSUME NEW v \in Uploads', uploads'[v].open
       PROVE  /\ Local => uploads'[v].dir
              /\ uploads'[v].known => uploads'[v].meta = "whole"
  BY <1>5, <1>7, <1>8, <1>14 DEF RInv, UploadsOK
<1>15. \A q \in Proc : Creating(q)' => ~uploads'[calls'[q].upload].known
  BY <1>7, <1>8, <1>12, <1>13 DEF RInv, UploadsOK
<1>16. \A q1, q2 \in Proc : q1 # q2 /\ Creating(q1)' /\ Creating(q2)' => calls'[q1].upload # calls'[q2].upload
  BY <1>8, <1>12, <1>13 DEF RInv, UploadsOK
<1>17. UploadsOK'
  BY <1>4, <1>14, <1>15, <1>16 DEF UploadsOK, Local
<1> QED BY <1>9, <1>11, <1>17, AsideKeeps

-----------------------------------------------------------------------------
(* Reads and listings, from their beginning to their answer.                *)

(* A call as it begins, with whatever disturbs it already.                  *)
Starts(d, r) ==
  /\ DOMAIN r = Fields
  /\ r.op = d.op /\ r.pc = d.pc /\ r.key = d.key /\ r.from = d.from /\ r.wants = d.wants
  /\ r.range = d.range /\ r.known = d.known /\ r.size = d.size /\ r.etag = d.etag /\ r.span = d.span
  /\ r.checked = d.checked /\ r.reply = d.reply
  /\ r.left = d.left /\ r.listed = d.listed /\ r.entry = d.entry /\ r.owed = d.owed

LEMMA BeginKeeps ==
  ASSUME IInv, RInv, NEW p \in Proc, NEW d, Begin(p, d), DOMAIN d = Fields,
         d.op = "create_multipart" => d.pc = "create",
         \A r : Starts(d, r) => ReadOK(r, clean) /\ ListOK(r, clean) /\ OwedOK(r, uploads)
  PROVE  RInv'
<1>1. PICK D : D = Touches(d) \cap {calls[w].key : w \in {q \in Proc : calls[q].op \in WriteOp}}
  OBVIOUS
<1>2. PICK r : r = [d EXCEPT !.id = begun + 1, !.disturbed = D]
  OBVIOUS
<1>3. /\ UNCHANGED <<workload, uploads>>
      /\ calls' = [q \in Proc |-> IF q = p THEN r
                                  ELSE IF d.op \in WriteOp /\ d.key \in Touches(calls[q])
                                    THEN [calls[q] EXCEPT !.disturbed = @ \cup {d.key}] ELSE calls[q]]
      /\ clean' = IF d.op \in WriteOp THEN [clean EXCEPT ![d.key] = Unknown] ELSE clean
  BY <1>1, <1>2 DEF Begin, disk
<1>4. Starts(d, r) /\ r.disturbed = D
  BY <1>2 DEF Fields, Starts
<1>5. calls'[p] = r /\ r.op = d.op /\ r.pc = d.pc /\ r.key = d.key /\ Touches(r) = Touches(d)
  BY <1>3, <1>4 DEF Starts, Touches
<1>6. ASSUME NEW q \in Proc \ {p}
      PROVE  LET c == calls[q] IN
             /\ calls'[q].op = c.op /\ calls'[q].pc = c.pc /\ calls'[q].key = c.key
             /\ calls'[q].upload = c.upload /\ Touches(calls'[q]) = Touches(c)
             /\ c.disturbed \subseteq calls'[q].disturbed
             /\ d.op \in WriteOp /\ d.key \in Touches(c) => d.key \in calls'[q].disturbed
             /\ Onlooker(c, calls'[q])
  <2> DEFINE c == calls[q]
  <2>1. DOMAIN c = Fields
    BY RowOfCall
  <2>2. calls'[q] = IF d.op \in WriteOp /\ d.key \in Touches(c) THEN [c EXCEPT !.disturbed = c.disturbed \cup {d.key}] ELSE c
    BY <1>3
  <2>3. \A k \in Key : clean'[k] = clean[k] \/ (d.op \in WriteOp /\ k = d.key)
    BY <1>3 DEF IInv, Types
  <2> HIDE DEF c
  <2>4. PICK e : e = calls'[q]
    OBVIOUS
  <2>5. CASE d.op \in WriteOp /\ d.key \in Touches(c)
    <3>1. PICK E : E = c.disturbed \cup {d.key}
      OBVIOUS
    <3>2. e = [c EXCEPT !.disturbed = E]
      BY <2>2, <2>4, <2>5, <3>1
    <3>3. /\ e.op = c.op /\ e.pc = c.pc /\ e.key = c.key /\ e.from = c.from /\ e.wants = c.wants
          /\ e.range = c.range /\ e.known = c.known /\ e.size = c.size /\ e.etag = c.etag
          /\ e.span = c.span /\ e.checked = c.checked /\ e.reply = c.reply
          /\ e.left = c.left /\ e.listed = c.listed /\ e.entry = c.entry /\ e.owed = c.owed
          /\ e.upload = c.upload /\ e.disturbed = E
      BY <2>1, <3>2 DEF Fields
    <3>4. Touches(e) = Touches(c)
      BY <3>3 DEF Touches
    <3>5. Onlooker(c, e)
      BY <2>3, <3>1, <3>3 DEF Onlooker
    <3> QED BY <2>4, <3>1, <3>3, <3>4, <3>5 DEF c
  <2>6. CASE ~(d.op \in WriteOp /\ d.key \in Touches(c))
    <3>1. e = c
      BY <2>2, <2>4, <2>6
    <3>2. Onlooker(c, c)
      BY <2>3, <2>6 DEF Onlooker
    <3> QED BY <2>4, <2>6, <3>1, <3>2 DEF c
  <2> QED BY <2>5, <2>6
<1>7. Crossed'
  <2> SUFFICES ASSUME NEW w \in Proc, NEW q \in Proc, calls'[w].op \in WriteOp,
                      calls'[q].op \in ReadOp \cup {"list"}, calls'[w].key \in Touches(calls'[q])
               PROVE  calls'[w].key \in calls'[q].disturbed
    BY DEF Crossed, Touches
  <2>1. calls'[q].op \notin WriteOp
    BY OpsDiffer DEF ListOp
  <2>2. CASE w # p /\ q # p
    BY <1>6, <2>2 DEF RInv, Crossed
  <2>3. CASE w = p /\ q # p
    BY <1>5, <1>6, <2>3
  <2>4. CASE w # p /\ q = p
    <3>1. calls[w].op \in WriteOp /\ calls'[w].key = calls[w].key
      BY <1>6, <2>4
    <3>2. calls[w].key \in D
      BY <1>1, <1>5, <2>4, <3>1
    <3> QED BY <1>4, <1>5, <2>4, <3>1, <3>2
  <2> QED BY <2>1, <2>2, <2>3, <2>4
<1>8. UploadsKept
  BY <1>3 DEF UploadsKept, Uploads
<1>9. UploadsOK'
  <2>1. \A q \in Proc : Creating(q)' => q # p /\ Creating(q) /\ calls'[q].upload = calls[q].upload
    BY <1>5, <1>6 DEF Creating
  <2> QED BY <1>3, <2>1 DEF RInv, UploadsOK, Uploads, Local
<1>10. ASSUME NEW q \in Proc
       PROVE  ReadOK(calls'[q], clean') /\ ListOK(calls'[q], clean') /\ OwedOK(calls'[q], uploads')
  <2>1. CASE q = p
    <3>1. CASE d.op \in WriteOp
      <4>1. r.op \notin ReadOp \cup ListOp
        BY <1>5, <3>1, OpsDiffer
      <4>2. ReadOK(r, clean') /\ ListOK(r, clean') /\ OwedOK(r, uploads')
        BY <4>1, Unread
      <4> QED BY <1>5, <2>1, <4>2 DEF ReadOK, ListOK, OwedOK
    <3>2. CASE d.op \notin WriteOp
      <4>1. ReadOK(r, clean) /\ ListOK(r, clean) /\ OwedOK(r, uploads)
        BY <1>4
      <4> QED BY <1>3, <1>5, <2>1, <3>2, <4>1
    <3> QED BY <3>1, <3>2
  <2>2. CASE q # p
    <3>1. PICK c, e : c = calls[q] /\ e = calls'[q]
      OBVIOUS
    <3>2. ReadOK(c, clean) /\ ListOK(c, clean) /\ OwedOK(c, uploads) /\ Onlooker(c, e)
      BY <1>6, <2>2, <3>1 DEF RInv
    <3>3. ReadOK(e, clean') /\ ListOK(e, clean') /\ OwedOK(e, uploads')
      BY <1>8, <3>2, OnlookerKeeps
    <3> QED BY <3>1, <3>3
  <2> QED BY <2>1, <2>2
<1> QED BY <1>7, <1>9, <1>10 DEF RInv, ReadOK, ListOK, OwedOK

LEMMA BeginAsides ==
  ASSUME IInv, RInv, NEW p \in Proc,
         \/ BeginPut(p) \/ BeginCopy(p) \/ BeginDelete(p) \/ BeginCreate(p) \/ BeginPart(p)
         \/ BeginAbort(p) \/ BeginComplete(p)
  PROVE  RInv'
<1>1. PICK d : /\ Begin(p, d) /\ DOMAIN d = Fields /\ d.op \in WriteOp \cup UploadOp
               /\ d.op = "create_multipart" => d.pc = "create"
  <2>1. ASSUME NEW op, NEW pc, NEW k, NEW x, NEW y, NEW z
        PROVE  LET a == [Idle EXCEPT !.op = op, !.pc = pc, !.key = k, !.data = x]
                   b == [Idle EXCEPT !.op = op, !.pc = pc, !.key = k, !.from = x]
                   c == [Idle EXCEPT !.op = op, !.pc = pc, !.key = k]
                   e == [Idle EXCEPT !.op = op, !.pc = pc, !.upload = x, !.part = y]
                   f == [Idle EXCEPT !.op = op, !.pc = pc, !.upload = x]
                   g == [Idle EXCEPT !.op = op, !.pc = pc, !.upload = x, !.key = k, !.acked = y, !.data = z]
               IN /\ DOMAIN a = Fields /\ a.op = op /\ DOMAIN b = Fields /\ b.op = op
                  /\ DOMAIN c = Fields /\ c.op = op /\ c.pc = pc /\ DOMAIN e = Fields /\ e.op = op
                  /\ DOMAIN f = Fields /\ f.op = op /\ DOMAIN g = Fields /\ g.op = op
    BY IdleRow DEF Fields
  <2>2. CASE BeginPut(p)
    <3>0. PICK k \in workload.keys, op \in {"put", "put_file"}, n \in workload.sizes :
            Begin(p, [Idle EXCEPT !.op = op, !.pc = First(op), !.key = k, !.data = [i \in 1 .. n |-> begun + 1]])
      BY <2>2 DEF BeginPut
    <3>1. PICK x, pc : /\ x = [i \in 1 .. n |-> begun + 1] /\ pc = First(op)
                       /\ Begin(p, [Idle EXCEPT !.op = op, !.pc = pc, !.key = k, !.data = x])
      BY <3>0
    <3>2. PICK d : d = [Idle EXCEPT !.op = op, !.pc = pc, !.key = k, !.data = x]
      OBVIOUS
    <3>3. DOMAIN d = Fields /\ d.op = op
      BY <2>1, <3>2
    <3> QED BY <3>1, <3>2, <3>3 DEF WriteOp
  <2>3. CASE BeginCopy(p)
    <3>1. PICK pc, k, x : Begin(p, [Idle EXCEPT !.op = "copy", !.pc = pc, !.key = k, !.from = x])
      BY <2>3 DEF BeginCopy
    <3>2. PICK d : d = [Idle EXCEPT !.op = "copy", !.pc = pc, !.key = k, !.from = x]
      OBVIOUS
    <3>3. DOMAIN d = Fields /\ d.op = "copy"
      BY <2>1, <3>2
    <3> QED BY <3>1, <3>2, <3>3 DEF WriteOp
  <2>4. CASE BeginDelete(p) \/ BeginCreate(p)
    <3>1. PICK op, pc, k : /\ op \in {"delete", "create_multipart"} /\ (op = "create_multipart" => pc = "create")
                           /\ Begin(p, [Idle EXCEPT !.op = op, !.pc = pc, !.key = k])
      BY <2>4 DEF BeginDelete, BeginCreate
    <3>2. PICK d : d = [Idle EXCEPT !.op = op, !.pc = pc, !.key = k]
      OBVIOUS
    <3>3. DOMAIN d = Fields /\ d.op = op /\ d.pc = pc
      BY <2>1, <3>2
    <3> QED BY <3>1, <3>2, <3>3 DEF WriteOp, UploadOp
  <2>5. CASE BeginPart(p)
    <3>1. PICK pc, x, y : Begin(p, [Idle EXCEPT !.op = "upload_part", !.pc = pc, !.upload = x, !.part = y])
      BY <2>5 DEF BeginPart
    <3>2. PICK d : d = [Idle EXCEPT !.op = "upload_part", !.pc = pc, !.upload = x, !.part = y]
      OBVIOUS
    <3>3. DOMAIN d = Fields /\ d.op = "upload_part"
      BY <2>1, <3>2
    <3> QED BY <3>1, <3>2, <3>3 DEF UploadOp
  <2>6. CASE BeginAbort(p)
    <3>1. PICK x : Begin(p, [Idle EXCEPT !.op = "abort", !.pc = "remove", !.upload = x])
      BY <2>6 DEF BeginAbort
    <3>2. PICK d : d = [Idle EXCEPT !.op = "abort", !.pc = "remove", !.upload = x]
      OBVIOUS
    <3>3. DOMAIN d = Fields /\ d.op = "abort"
      BY <2>1, <3>2
    <3> QED BY <3>1, <3>2, <3>3 DEF UploadOp
  <2>7. CASE BeginComplete(p)
    <3>1. PICK pc, x, k, y : Begin(p, [Idle EXCEPT !.op = "complete", !.pc = pc, !.upload = x,
                                                   !.key = k, !.acked = y, !.data = y])
      BY <2>7 DEF BeginComplete
    <3>2. PICK d : d = [Idle EXCEPT !.op = "complete", !.pc = pc, !.upload = x,
                                                   !.key = k, !.acked = y, !.data = y]
      OBVIOUS
    <3>3. DOMAIN d = Fields /\ d.op = "complete"
      BY <2>1, <3>2
    <3> QED BY <3>1, <3>2, <3>3 DEF WriteOp
  <2> QED BY <2>2, <2>3, <2>4, <2>5, <2>6, <2>7
<1>2. ASSUME NEW r, Starts(d, r) PROVE ReadOK(r, clean) /\ ListOK(r, clean) /\ OwedOK(r, uploads)
  <2>1. r.op \notin ReadOp \cup ListOp
    BY <1>1, <1>2, OpsDiffer DEF Starts
  <2> QED BY <2>1, Unread
<1> QED BY <1>1, <1>2, BeginKeeps

LEMMA IdleRead ==
  /\ "status" \in DOMAIN Idle.reply /\ Idle.range = Whole /\ ~Idle.checked
  /\ Idle.listed = {} /\ Idle.entry = 0 /\ Idle.owed = {}
<1>1. Idle.reply = NoReply /\ Idle.range = Whole /\ ~Idle.checked /\ Idle.listed = {} /\ Idle.entry = 0 /\ Idle.owed = {}
  BY DEF Idle
<1> QED BY <1>1 DEF NoReply

(* A read that begins has its first key and no head yet.                    *)
LEMMA FirstTry ==
  ASSUME NEW d, NEW r, Starts(d, r), d.pc = "stat", ~d.checked, "status" \in DOMAIN d.reply,
         d.range \in RangeHeader, d.op # "serve" => d.range = Whole,
         d.op \in ReadOp, d.key \in Key,
         \/ d.wants = <<d.key>> /\ (d.op = "image" => d.from = d.key)
         \/ d.op = "image" /\ d.from \in Key \ {d.key} /\ d.wants = <<d.key, d.from>>,
         NEW holds
  PROVE  ReadOK(r, holds)
<1>1. Shape(r)
  BY DEF Shape, Starts
<1>2. r.key = r.wants[1] /\ r.pc = "stat" /\ ~r.checked
  BY DEF Starts
<1> QED BY <1>1, <1>2 DEF ReadOK, Learnt, SecondTry

LEMMA BeginReadKeeps ==
  ASSUME IInv, RInv, NEW p \in Proc, BeginServe(p) \/ BeginImage(p)
  PROVE  RInv'
<1>1. PICK d : /\ Begin(p, d) /\ DOMAIN d = Fields /\ d.pc = "stat" /\ ~d.checked /\ "status" \in DOMAIN d.reply
               /\ d.range \in RangeHeader /\ (d.op # "serve" => d.range = Whole)
               /\ d.op \in ReadOp /\ d.key \in Key
               /\ \/ d.wants = <<d.key>> /\ (d.op = "image" => d.from = d.key)
                  \/ d.op = "image" /\ d.from \in Key \ {d.key} /\ d.wants = <<d.key, d.from>>
  <2>1. CASE BeginServe(p)
    <3>1. PICK k \in Key, g \in workload.ranges, op \in {"serve", "avatar"} :
            \E e \in {Nothing, files[k]} :
              /\ g # Whole => e = Nothing /\ op = "serve"
              /\ Begin(p, [Idle EXCEPT !.op = op, !.pc = "stat", !.key = k, !.wants = <<k>>, !.range = g, !.known = e])
      BY <2>1 DEF BeginServe
    <3>2. PICK e, w : /\ w = <<k>> /\ (g # Whole => op = "serve")
                      /\ Begin(p, [Idle EXCEPT !.op = op, !.pc = "stat", !.key = k, !.wants = w, !.range = g, !.known = e])
      BY <3>1
    <3>3. PICK d : d = [Idle EXCEPT !.op = op, !.pc = "stat", !.key = k, !.wants = w, !.range = g, !.known = e]
      OBVIOUS
    <3>4. /\ DOMAIN d = Fields /\ d.op = op /\ d.pc = "stat" /\ d.key = k /\ d.wants = w /\ d.range = g
          /\ d.checked = Idle.checked /\ d.reply = Idle.reply
      BY <3>3, IdleRow DEF Fields
    <3>5. g \in RangeHeader
      BY StoreAssumption DEF IInv, Types
    <3> QED BY <3>2, <3>3, <3>4, <3>5, IdleRead DEF ReadOp
  <2>2. CASE BeginImage(p)
    <3>1. PICK k \in Key, j \in Key : \E e \in {Nothing, files[k], files[j]} :
            Begin(p, [Idle EXCEPT !.op = "image", !.pc = "stat", !.key = k, !.from = j,
                                  !.wants = IF k = j THEN <<k>> ELSE <<k, j>>, !.known = e])
      BY <2>2 DEF BeginImage
    <3>2. PICK e, w : /\ w = IF k = j THEN <<k>> ELSE <<k, j>>
                      /\ Begin(p, [Idle EXCEPT !.op = "image", !.pc = "stat", !.key = k, !.from = j, !.wants = w, !.known = e])
      BY <3>1
    <3>3. PICK d : d = [Idle EXCEPT !.op = "image", !.pc = "stat", !.key = k, !.from = j, !.wants = w, !.known = e]
      OBVIOUS
    <3>4. /\ DOMAIN d = Fields /\ d.op = "image" /\ d.pc = "stat" /\ d.key = k /\ d.from = j /\ d.wants = w
          /\ d.range = Idle.range /\ d.checked = Idle.checked /\ d.reply = Idle.reply
      BY <3>3, IdleRow DEF Fields
    <3>5. \/ w = <<k>> /\ j = k
          \/ j \in Key \ {k} /\ w = <<k, j>>
      BY <3>2
    <3>6. d.range \in RangeHeader /\ ~d.checked /\ "status" \in DOMAIN d.reply /\ d.range = Whole
      BY <3>4, IdleRead DEF RangeHeader
    <3> QED BY <3>2, <3>3, <3>4, <3>5, <3>6 DEF ReadOp
  <2> QED BY <2>1, <2>2
<1>2. ASSUME NEW r, Starts(d, r) PROVE ReadOK(r, clean) /\ ListOK(r, clean) /\ OwedOK(r, uploads)
  <2>1. ReadOK(r, clean)
    BY <1>1, <1>2, FirstTry
  <2>2. r.op \in ReadOp
    BY <1>1, <1>2 DEF Starts
  <2> QED BY <2>1, <2>2 DEF ListOK, OwedOK, ReadOp
<1>3. d.op # "create_multipart"
  BY <1>1 DEF ReadOp
<1> QED BY <1>1, <1>2, <1>3, BeginKeeps

LEMMA BeginListKeeps ==
  ASSUME IInv, RInv, NEW p \in Proc, BeginList(p)
  PROVE  RInv'
<1>1. PICK v, o, d, l :
        /\ v = 1 .. Len(uploads) + 1 /\ o = {u \in Uploads : uploads[u].known /\ uploads[u].open}
        /\ d = [Idle EXCEPT !.op = "list", !.pc = "walk", !.left = Key]
        /\ l = [Idle EXCEPT !.op = "list_uploads", !.pc = "walk", !.left = v, !.owed = o]
  OBVIOUS
<1>2. /\ DOMAIN d = Fields /\ d.op = "list" /\ d.pc = "walk" /\ d.left = Key /\ d.listed = {} /\ d.entry = 0 /\ d.owed = {}
      /\ DOMAIN l = Fields /\ l.op = "list_uploads" /\ l.pc = "walk" /\ l.left = v /\ l.listed = {} /\ l.entry = 0
      /\ l.owed = o
  BY <1>1, IdleRow, IdleRead DEF Fields
<1>3. Len(uploads) \in Nat /\ Key \subseteq Nat \ {0}
  BY StoreAssumption DEF IInv, Types, Key
<1>4. CASE Begin(p, d)
  <2>1. ASSUME NEW r, Starts(d, r) PROVE ReadOK(r, clean) /\ ListOK(r, clean) /\ OwedOK(r, uploads)
    <3>1. /\ r.op = "list" /\ r.pc = "walk" /\ r.left = Key /\ r.listed = {} /\ r.entry = 0 /\ r.owed = {}
      BY <1>2, <2>1 DEF Starts
    <3>2. ListOK(r, clean)
      BY <1>3, <3>1 DEF ListOK, ListShape
    <3> QED BY <3>1, <3>2 DEF ReadOK, OwedOK, ReadOp
  <2> QED BY <1>2, <1>4, <2>1, BeginKeeps
<1>5. CASE Begin(p, l)
  <2>1. ASSUME NEW r, Starts(l, r) PROVE ReadOK(r, clean) /\ ListOK(r, clean) /\ OwedOK(r, uploads)
    <3>1. /\ r.op = "list_uploads" /\ r.pc = "walk" /\ r.left = v /\ r.listed = {} /\ r.entry = 0 /\ r.owed = o
      BY <1>2, <2>1 DEF Starts
    <3>2. OwedOK(r, uploads)
      BY <1>1, <1>3, <3>1 DEF OwedOK, ListShape, Uploads
    <3> QED BY <3>1, <3>2 DEF ReadOK, ListOK, ReadOp
  <2> QED BY <1>2, <1>5, <2>1, BeginKeeps
<1> QED BY <1>1, <1>4, <1>5 DEF BeginList

(* A read or a listing goes on.                                             *)
LEMMA GoesOn ==
  ASSUME IInv, RInv, NEW p \in Proc, NEW r, calls' = [calls EXCEPT ![p] = r],
         calls[p].op \in ReadOp \cup ListOp,
         r.op = calls[p].op, r.wants = calls[p].wants, r.disturbed = calls[p].disturbed,
         UNCHANGED <<workload, uploads, clean>>,
         ReadOK(r, clean), ListOK(r, clean), OwedOK(r, uploads)
  PROVE  RInv'
<1> DEFINE c == calls[p]
<1>1. calls'[p] = r /\ \A q \in Proc \ {p} : calls'[q] = calls[q]
  BY RowOfCall
<1>2. r.op \notin WriteOp /\ r.op # "create_multipart"
  BY OpsDiffer
<1>3. c.op \in ReadOp \cup {"list"} => Touches(r) = Touches(c)
  BY DEF Touches, ReadOp
<1> HIDE DEF c
<1>4. r.op = c.op /\ r.disturbed = c.disturbed
  BY DEF c
<1>5. Crossed'
  <2> SUFFICES ASSUME NEW w \in Proc, NEW q \in Proc, calls'[w].op \in WriteOp,
                      calls'[q].op \in ReadOp \cup {"list"}, calls'[w].key \in Touches(calls'[q])
               PROVE  calls'[w].key \in calls'[q].disturbed
    BY DEF Crossed, Touches
  <2>1. calls'[w] = calls[w]
    BY <1>1, <1>2
  <2>2. CASE q = p
    <3>1. calls[w].key \in Touches(c) /\ c.op \in ReadOp \cup {"list"}
      BY <1>1, <1>3, <1>4, <2>1, <2>2
    <3>2. calls[w].key \in c.disturbed
      BY <2>1, <3>1 DEF RInv, Crossed, c
    <3> QED BY <1>1, <1>4, <2>1, <2>2, <3>2
  <2>3. CASE q # p
    BY <1>1, <2>1, <2>3 DEF RInv, Crossed
  <2> QED BY <2>2, <2>3
<1>6. \A q \in Proc : Creating(q)' => Creating(q) /\ calls'[q] = calls[q]
  BY <1>1, <1>2 DEF Creating
<1>7. UploadsOK'
  BY <1>6 DEF RInv, UploadsOK, Uploads, Local
<1>8. ASSUME NEW q \in Proc
      PROVE  ReadOK(calls'[q], clean') /\ ListOK(calls'[q], clean') /\ OwedOK(calls'[q], uploads')
  BY <1>1 DEF RInv
<1> QED BY <1>5, <1>7, <1>8 DEF RInv, ReadOK, ListOK, OwedOK

LEMMA ReadGoesOn ==
  ASSUME IInv, RInv, NEW p \in Proc, NEW r, calls' = [calls EXCEPT ![p] = r],
         calls[p].op \in ReadOp, SameRead(calls[p], r), ReadOK(r, clean),
         UNCHANGED <<workload, disk, clean>>
  PROVE  RInv'
<1>1. ListOK(r, clean) /\ OwedOK(r, uploads)
  BY DEF ListOK, OwedOK, SameRead, ReadOp
<1> QED BY <1>1, GoesOn DEF SameRead, disk

LEMMA SameReads ==
  ASSUME NEW c, DOMAIN c = Fields, Shape(c)
  PROVE  /\ \A s : SameRead(c, Missed(c, s))
         /\ SameRead(c, Headed(c))
         /\ c.op \in ReadOp => \A there : SameRead(c, Fetched(c, there))
<1>1. \A s, b : SameRead(c, Replied(c, s, b))
  BY RepliedFields
<1>2. ASSUME NEW s PROVE SameRead(c, Missed(c, s))
  <2>1. CASE c.op = "image"
    BY <2>1, MissedFields DEF Shape
  <2>2. CASE c.op # "image"
    BY <1>1, <2>2 DEF Missed
  <2> QED BY <2>1, <2>2
<1>3. SameRead(c, Headed(c))
  BY <1>1, HeadedFields
<1>4. ASSUME c.op \in ReadOp, NEW there PROVE SameRead(c, Fetched(c, there))
  <2>1. c.op = "avatar" => c.range = Whole
    BY DEF Shape
  <2> QED BY <1>1, <1>2, <2>1 DEF Fetched
<1> QED BY <1>2, <1>3, <1>4

(* What a read that nothing disturbs finds.                                 *)
LEMMA CalmFinds ==
  ASSUME IInv, NEW c, c.op \in ReadOp, Shape(c), Calm(c, clean)
  PROVE  /\ c.key \in Key /\ files[c.key] = clean[c.key]
         /\ files[c.key] # Nothing => files[c.key] \in Obj
         /\ Local /\ files[c.key] # Nothing => sides[c.key] = [etag |-> files[c.key], of |-> files[c.key]]
<1>1. c.key \in Key /\ clean[c.key] # Unknown
  BY WantsOf DEF Calm
<1> QED BY <1>1 DEF IInv, AcknowledgedWritesStick, Types, File

LEMMA SidesDiffer ==
  /\ Torn # NoSide
  /\ \A g : g # Nothing => [etag |-> g, of |-> g] # Torn /\ [etag |-> g, of |-> g] # NoSide
<1>1. Torn.of = <<>> /\ NoSide.of = <<0>> /\ Torn.etag = Nothing /\ NoSide.etag = Nothing
  BY DEF Torn, NoSide, Nothing
<1>2. Len(<<>>) = 0 /\ Len(<<0>>) = 1
  OBVIOUS
<1>3. Torn # NoSide
  BY <1>1, <1>2
<1>4. ASSUME NEW g, g # Nothing PROVE [etag |-> g, of |-> g] # Torn /\ [etag |-> g, of |-> g] # NoSide
  <2>1. PICK s : s = [etag |-> g, of |-> g]
    OBVIOUS
  <2>2. s.etag = g
    BY <2>1
  <2> QED BY <1>1, <1>4, <2>1, <2>2
<1> QED BY <1>3, <1>4

LEMMA StatKeeps ==
  ASSUME IInv, RInv, NEW p \in Proc, Stat(p)
  PROVE  RInv'
<1>1. PICK c : c = calls[p]
  OBVIOUS
<1>2. PICK there : there = files[c.key]
  OBVIOUS
<1>3. PICK seen : seen = [c EXCEPT !.size = Len(there), !.etag = there]
  OBVIOUS
<1>4. PICK r : r = CASE there = Nothing -> Missed(c, 404)
                     [] there # Nothing /\ Local -> [seen EXCEPT !.pc = "sidecar"]
                     [] OTHER -> Headed(seen)
  OBVIOUS
<1>5. /\ c.op \in ReadOp /\ c.pc = "stat" /\ DOMAIN c = Fields /\ ReadOK(c, clean)
      /\ calls' = [calls EXCEPT ![p] = r] /\ UNCHANGED <<workload, disk, clean>>
  <2>1. c.op \in ReadOp /\ c.pc = "stat" /\ UNCHANGED <<workload, disk, clean>>
    BY <1>1 DEF Stat, In
  <2>2. DOMAIN c = Fields /\ ReadOK(c, clean)
    BY <1>1, RowOfCall DEF RInv
  <2>3. calls' = [calls EXCEPT ![p] = r]
    BY <1>1, <1>2, <1>3, <1>4, Zenon DEF Stat
  <2> QED BY <2>1, <2>2, <2>3
<1>6. /\ Shape(c)
      /\ Calm(c, clean) => Learnt(c, clean[c.key]) /\ SecondTry(c, clean)
  BY <1>5 DEF ReadOK
<1>7. Calm(c, clean) => /\ there = clean[c.key] /\ (there # Nothing => there \in Obj)
                        /\ c.checked => Looked(c, there)
  BY <1>2, <1>5, <1>6, CalmFinds DEF Learnt
<1>8. CASE there = Nothing
  <2>1. r = Missed(c, 404)
    BY <1>4, <1>8
  <2>2. ReadOK(Missed(c, 404), clean)
    BY <1>5, <1>6, <1>7, <1>8, MissedOK
  <2>3. SameRead(c, r)
    BY <1>5, <1>6, <2>1, SameReads
  <2> QED BY <1>1, <1>5, <2>1, <2>2, <2>3, ReadGoesOn
<1>9. CASE there # Nothing /\ Local
  <2>1. r = [seen EXCEPT !.pc = "sidecar"]
    BY <1>4, <1>9
  <2>2. /\ SameRead(c, r) /\ r.pc = "sidecar" /\ r.key = c.key /\ r.size = Len(there) /\ r.etag = there
        /\ r.checked = c.checked /\ r.span = c.span /\ r.reply = c.reply
    BY <1>3, <1>5, <2>1 DEF SameRead, Fields
  <2>3. Shape(r)
    <3>1. "status" \in DOMAIN c.reply
      BY <1>6 DEF Shape
    <3> QED BY <1>6, <2>2, <3>1, ShapeOf
  <2>4. ASSUME Calm(r, clean) PROVE Learnt(r, clean[r.key]) /\ SecondTry(r, clean)
    <3>1. Calm(c, clean)
      BY <2>2, <2>4, CalmOf
    <3>2. Headline(r, there)
      BY <1>9, <2>2 DEF Headline
    <3>3. r.checked => Looked(r, there)
      BY <1>7, <2>2, <3>1 DEF Looked, SameRead
    <3> QED BY <1>6, <1>7, <2>2, <3>1, <3>2, <3>3 DEF Learnt, SecondTry, SameRead
  <2>5. ReadOK(r, clean)
    BY <2>3, <2>4 DEF ReadOK
  <2> QED BY <1>1, <1>5, <2>2, <2>5, ReadGoesOn
<1>10. CASE there # Nothing /\ ~Local
  <2>1. r = Headed(seen)
    BY <1>4, <1>10
  <2>2. /\ SameRead(c, seen) /\ seen.pc = "stat" /\ seen.key = c.key /\ seen.size = Len(there) /\ seen.etag = there
        /\ seen.checked = c.checked /\ seen.span = c.span /\ seen.reply = c.reply
    BY <1>3, <1>5 DEF SameRead, Fields
  <2>3. Shape(seen)
    <3>1. "status" \in DOMAIN c.reply
      BY <1>6 DEF Shape
    <3> QED BY <1>6, <2>2, <3>1, ShapeOf
  <2>4. ASSUME Calm(seen, clean)
        PROVE  /\ clean[seen.key] \in Obj /\ Headline(seen, clean[seen.key]) /\ SecondTry(seen, clean)
               /\ seen.checked => Looked(seen, clean[seen.key])
    <3>1. Calm(c, clean)
      BY <2>2, <2>4, CalmOf
    <3>2. Headline(seen, there)
      BY <1>10, <2>2 DEF Headline
    <3>3. seen.checked => Looked(seen, there)
      BY <1>7, <2>2, <3>1 DEF Looked, SameRead
    <3> QED BY <1>6, <1>7, <1>10, <2>2, <3>1, <3>2, <3>3 DEF SecondTry, SameRead
  <2>5. seen.op \in ReadOp /\ DOMAIN seen = Fields
    BY <1>5, <2>2 DEF SameRead
  <2>6. ReadOK(Headed(seen), clean)
    BY <2>2, <2>3, <2>4, <2>5, HeadedOK
  <2>7. SameRead(c, r)
    <3>1. SameRead(seen, r)
      BY <2>1, <2>3, <2>5, SameReads
    <3> QED BY <2>2, <3>1 DEF SameRead
  <2> QED BY <1>1, <1>5, <2>1, <2>6, <2>7, ReadGoesOn
<1> QED BY <1>8, <1>9, <1>10

LEMMA ReadSideKeeps ==
  ASSUME IInv, RInv, NEW p \in Proc, ReadSide(p)
  PROVE  RInv'
<1>1. PICK c : c = calls[p]
  OBVIOUS
<1>2. PICK side : side = sides[c.key]
  OBVIOUS
<1>3. PICK seen : seen = [c EXCEPT !.etag = side.etag]
  OBVIOUS
<1>4. PICK r : r = CASE side = Torn -> Missed(c, 500)
                     [] side = NoSide -> Headed(c)
                     [] OTHER -> Headed(seen)
  OBVIOUS
<1>5. /\ c.op \in ReadOp /\ c.pc = "sidecar" /\ Local /\ DOMAIN c = Fields /\ ReadOK(c, clean)
      /\ calls' = [calls EXCEPT ![p] = r] /\ UNCHANGED <<workload, disk, clean>>
  <2>1. c.op \in ReadOp /\ c.pc = "sidecar" /\ Local /\ UNCHANGED <<workload, disk, clean>>
    BY <1>1 DEF ReadSide, In
  <2>2. DOMAIN c = Fields /\ ReadOK(c, clean)
    BY <1>1, RowOfCall DEF RInv
  <2>3. calls' = [calls EXCEPT ![p] = r]
    BY <1>1, <1>2, <1>3, <1>4, Zenon DEF ReadSide
  <2> QED BY <2>1, <2>2, <2>3
<1>6. /\ Shape(c)
      /\ Calm(c, clean) => Learnt(c, clean[c.key]) /\ SecondTry(c, clean)
  BY <1>5 DEF ReadOK
<1>7. ASSUME Calm(c, clean)
      PROVE  LET g == clean[c.key] IN
             /\ side = [etag |-> g, of |-> g] /\ g \in Obj /\ Headline(c, g)
             /\ c.checked => Looked(c, g)
  <2>1. Headline(c, clean[c.key]) /\ (c.checked => Looked(c, clean[c.key]))
    BY <1>5, <1>6, <1>7 DEF Learnt
  <2>2. files[c.key] = clean[c.key] /\ clean[c.key] # Nothing
    BY <1>5, <1>6, <1>7, <2>1, CalmFinds DEF Headline
  <2> QED BY <1>2, <1>5, <1>6, <1>7, <2>1, <2>2, CalmFinds
<1>8. CASE side = Torn
  <2>1. r = Missed(c, 500)
    BY <1>4, <1>8, SidesDiffer
  <2>2. ~Calm(c, clean)
    BY <1>7, <1>8, SidesDiffer DEF Headline
  <2>3. ReadOK(Missed(c, 500), clean)
    BY <1>5, <1>6, <2>2, MissedOK
  <2>4. SameRead(c, r)
    BY <1>5, <1>6, <2>1, SameReads
  <2> QED BY <1>1, <1>5, <2>1, <2>3, <2>4, ReadGoesOn
<1>9. CASE side = NoSide
  <2>1. r = Headed(c)
    BY <1>4, <1>9, SidesDiffer
  <2>2. ~Calm(c, clean)
    BY <1>7, <1>9, SidesDiffer DEF Headline
  <2>3. ReadOK(Headed(c), clean)
    BY <1>5, <1>6, <2>2, HeadedOK
  <2>4. SameRead(c, r)
    BY <1>5, <1>6, <2>1, SameReads
  <2> QED BY <1>1, <1>5, <2>1, <2>3, <2>4, ReadGoesOn
<1>10. CASE side # Torn /\ side # NoSide
  <2>1. r = Headed(seen)
    BY <1>4, <1>10
  <2>2. /\ SameRead(c, seen) /\ seen.pc = "sidecar" /\ seen.key = c.key /\ seen.size = c.size /\ seen.etag = side.etag
        /\ seen.checked = c.checked /\ seen.span = c.span /\ seen.reply = c.reply
    BY <1>3, <1>5 DEF SameRead, Fields
  <2>3. Shape(seen)
    <3>1. "status" \in DOMAIN c.reply
      BY <1>6 DEF Shape
    <3> QED BY <1>6, <2>2, <3>1, ShapeOf
  <2>4. ASSUME Calm(seen, clean)
        PROVE  /\ clean[seen.key] \in Obj /\ Headline(seen, clean[seen.key]) /\ SecondTry(seen, clean)
               /\ seen.checked => Looked(seen, clean[seen.key])
    <3>1. Calm(c, clean)
      BY <2>2, <2>4, CalmOf
    <3>2. PICK g : g = clean[c.key]
      OBVIOUS
    <3>3. side.etag = g /\ g \in Obj /\ Headline(c, g) /\ (c.checked => Looked(c, g))
      BY <1>7, <3>1, <3>2
    <3>4. Headline(seen, g) /\ (seen.checked => Looked(seen, g))
      BY <2>2, <3>3 DEF Headline, Looked, SameRead
    <3> QED BY <1>6, <2>2, <3>1, <3>2, <3>3, <3>4 DEF SecondTry, SameRead
  <2>5. seen.op \in ReadOp /\ DOMAIN seen = Fields
    BY <1>5, <2>2 DEF SameRead
  <2>6. ReadOK(Headed(seen), clean)
    BY <2>2, <2>3, <2>4, <2>5, HeadedOK
  <2>7. SameRead(c, r)
    <3>1. SameRead(seen, r)
      BY <2>1, <2>3, <2>5, SameReads
    <3> QED BY <2>2, <3>1 DEF SameRead
  <2> QED BY <1>1, <1>5, <2>1, <2>6, <2>7, ReadGoesOn
<1> QED BY <1>8, <1>9, <1>10

LEMMA FetchKeeps ==
  ASSUME IInv, RInv, NEW p \in Proc, Fetch(p)
  PROVE  RInv'
<1>1. PICK c : c = calls[p]
  OBVIOUS
<1>2. PICK there : there = files[c.key]
  OBVIOUS
<1> DEFINE gone == Missed(c, IF Local THEN 404 ELSE 500)
<1>3. PICK r : r = IF there = Nothing THEN gone ELSE Fetched(c, there)
  OBVIOUS
<1>4. /\ c.op \in ReadOp /\ c.pc = "fetch" /\ DOMAIN c = Fields /\ ReadOK(c, clean)
      /\ calls' = [calls EXCEPT ![p] = r] /\ UNCHANGED <<workload, disk, clean>>
  <2>1. c.op \in ReadOp /\ c.pc = "fetch" /\ UNCHANGED <<workload, disk, clean>>
    BY <1>1 DEF Fetch, In
  <2>2. DOMAIN c = Fields /\ ReadOK(c, clean)
    BY <1>1, RowOfCall DEF RInv
  <2>3. calls' = [calls EXCEPT ![p] = r]
    BY <1>1, <1>2, <1>3, Zenon DEF Fetch
  <2> QED BY <2>1, <2>2, <2>3
<1>5. Shape(c)
  BY <1>4 DEF ReadOK
<1>6. Calm(c, clean) => /\ there = clean[c.key] /\ there \in Obj /\ Headline(c, there) /\ SecondTry(c, clean)
                        /\ Looked(c, there)
  <2> HAVE Calm(c, clean)
  <2>1. Learnt(c, clean[c.key]) /\ SecondTry(c, clean)
    BY <1>4 DEF ReadOK
  <2>2. Headline(c, clean[c.key]) /\ Looked(c, clean[c.key])
    BY <1>4, <2>1 DEF Learnt
  <2> QED BY <1>2, <1>4, <1>5, <2>1, <2>2, CalmFinds DEF Headline
<1>7. CASE there = Nothing
  <2>1. ~Calm(c, clean)
    BY <1>6, <1>7 DEF Headline
  <2>2. ReadOK(gone, clean)
    BY <1>4, <1>5, <2>1, MissedOK
  <2>3. r = gone /\ SameRead(c, r)
    BY <1>3, <1>4, <1>5, <1>7, SameReads
  <2> QED BY <1>1, <1>4, <2>2, <2>3, ReadGoesOn
<1>8. CASE there # Nothing
  <2>1. ReadOK(Fetched(c, there), clean)
    BY <1>4, <1>5, <1>6, FetchedOK
  <2>2. r = Fetched(c, there) /\ SameRead(c, r)
    BY <1>3, <1>4, <1>5, <1>8, SameReads
  <2> QED BY <1>1, <1>4, <2>1, <2>2, ReadGoesOn
<1> QED BY <1>7, <1>8

(* A listing has passed some of its entries and listed what they hold.      *)
LEMMA EntryOfObject ==
  ASSUME NEW k \in Key
  PROVE  /\ \A e \in ObjectAt(k) : e.key = k
         /\ ObjectAt(k) = IF files[k] = Nothing THEN {} ELSE {[key |-> k, size |-> Len(files[k])]}
BY DEF ObjectAt

LEMMA EntryOfUpload ==
  ASSUME UploadsOK, NEW u \in Uploads, uploads[u].known, uploads[u].open
  PROVE  UploadAt(u) = {[upload |-> u, key |-> uploads[u].key]}
<1>1. uploads[u].meta = "whole" /\ (Local => uploads[u].dir)
  BY DEF UploadsOK
<1> QED BY <1>1 DEF UploadAt

LEMMA PassedOK ==
  ASSUME IInv, RInv, NEW c, c.op \in ListOp, ListOK(c, clean), OwedOK(c, uploads),
         NEW page, page \subseteq c.left,
         NEW r, r.op = c.op, r.pc = "walk", r.entry = 0, r.left = c.left \ page,
         r.listed = c.listed \cup UNION {EntryAt(c, i) : i \in page},
         r.owed = c.owed, r.disturbed = c.disturbed
  PROVE  ReadOK(r, clean) /\ ListOK(r, clean) /\ OwedOK(r, uploads)
<1>1. ListShape(c)
  BY DEF ListOK, OwedOK, ListOp
<1>2. ListShape(r)
  BY <1>1 DEF ListShape
<1>3. ReadOK(r, clean)
  BY DEF ReadOK, ReadOp, ListOp
<1>4. CASE c.op = "list"
  <2>1. c.left \subseteq Key /\ c.owed = {}
    BY <1>4 DEF ListOK
  <2>2. r.listed = c.listed \cup UNION {ObjectAt(i) : i \in page}
    BY <1>4 DEF EntryAt
  <2>3. ASSUME NEW k \in Key \ r.disturbed, clean[k] # Unknown
        PROVE  {e \in r.listed : e.key = k} =
                 IF k \in r.left \/ clean[k] = Nothing THEN {} ELSE {[key |-> k, size |-> Len(clean[k])]}
    <3>1. files[k] = clean[k]
      BY <2>3 DEF IInv, AcknowledgedWritesStick
    <3>2. {e \in c.listed : e.key = k} =
            IF k \in c.left \/ clean[k] = Nothing THEN {} ELSE {[key |-> k, size |-> Len(clean[k])]}
      BY <1>4, <2>3 DEF ListOK
    <3>3. \A i \in page : \A e \in ObjectAt(i) : e.key = i
      BY <2>1, EntryOfObject
    <3>4. CASE k \in page
      <4>1. {e \in r.listed : e.key = k} = {e \in c.listed : e.key = k} \cup ObjectAt(k)
        BY <2>2, <3>3, <3>4
      <4>2. ObjectAt(k) = IF clean[k] = Nothing THEN {} ELSE {[key |-> k, size |-> Len(clean[k])]}
        BY <3>1, EntryOfObject
      <4>3. k \in c.left /\ k \notin r.left
        BY <3>4
      <4> DEFINE x == [key |-> k, size |-> Len(clean[k])]
      <4> HIDE DEF x
      <4> QED BY <3>2, <4>1, <4>2, <4>3 DEF x
    <3>5. CASE k \notin page
      <4>1. {e \in r.listed : e.key = k} = {e \in c.listed : e.key = k}
        BY <2>2, <3>3, <3>5
      <4>2. k \in c.left <=> k \in r.left
        BY <3>5
      <4> QED BY <3>2, <4>1, <4>2
    <3> QED BY <3>4, <3>5
  <2>4. ListOK(r, clean)
    BY <1>2, <2>1, <2>3 DEF ListOK
  <2> QED BY <1>3, <1>4, <2>4 DEF OwedOK
<1>5. CASE c.op = "list_uploads"
  <2>1. r.listed = c.listed \cup UNION {UploadAt(i) : i \in page}
    BY <1>5 DEF EntryAt
  <2>2. ASSUME NEW u \in r.owed
        PROVE  /\ u \in 1 .. Len(uploads) /\ uploads[u].known
               /\ uploads[u].open => u \in r.left \/ [upload |-> u, key |-> uploads[u].key] \in r.listed
    <3>1. /\ u \in 1 .. Len(uploads) /\ uploads[u].known
          /\ uploads[u].open => u \in c.left \/ [upload |-> u, key |-> uploads[u].key] \in c.listed
      BY <1>5, <2>2 DEF OwedOK
    <3> DEFINE x == [upload |-> u, key |-> uploads[u].key]
    <3>2. uploads[u].open => UploadAt(u) = {x}
      BY <3>1, EntryOfUpload DEF RInv, Uploads
    <3>3. uploads[u].open => u \in c.left \/ x \in c.listed
      BY <3>1
    <3> HIDE DEF x
    <3>4. uploads[u].open => u \in r.left \/ x \in r.listed
      BY <2>1, <3>2, <3>3
    <3> QED BY <3>1, <3>4 DEF x
  <2>3. OwedOK(r, uploads)
    BY <1>2, <2>2 DEF OwedOK
  <2> QED BY <1>3, <1>5, <2>3 DEF ListOK
<1> QED BY <1>4, <1>5 DEF ListOp

LEMMA ReadEntryKeeps ==
  ASSUME IInv, RInv, NEW p \in Proc, ReadEntry(p)
  PROVE  RInv'
<1>1. PICK c : c = calls[p]
  OBVIOUS
<1>2. /\ c.op \in ListOp /\ c.pc = "walk" /\ DOMAIN c = Fields /\ UNCHANGED <<workload, uploads, clean>>
      /\ ReadOK(c, clean) /\ ListOK(c, clean) /\ OwedOK(c, uploads)
  BY <1>1, RowOfCall DEF ReadEntry, In, disk, RInv
<1>3. PICK i \in c.left :
        calls' = IF EntryAt(c, i) = {} THEN [calls EXCEPT ![p].left = @ \ {i}]
                 ELSE [calls EXCEPT ![p].entry = i, ![p].pc = "look"]
  BY <1>1 DEF ReadEntry
<1>4. CASE EntryAt(c, i) = {}
  <2>1. PICK L : L = c.left \ {i}
    OBVIOUS
  <2>2. PICK r : r = [c EXCEPT !.left = L]
    OBVIOUS
  <2>3. calls' = [calls EXCEPT ![p] = r]
    BY <1>1, <1>3, <1>4, <2>1, <2>2
  <2>4. /\ r.op = c.op /\ r.pc = "walk" /\ r.entry = c.entry /\ r.left = c.left \ {i} /\ r.listed = c.listed
        /\ r.owed = c.owed /\ r.disturbed = c.disturbed /\ r.wants = c.wants
    BY <1>2, <2>1, <2>2 DEF Fields
  <2>5. c.entry = 0
    BY <1>2 DEF ListOK, OwedOK, ListShape, ListOp
  <2>6. UNION {EntryAt(c, j) : j \in {i}} = {}
    BY <1>4
  <2>7. ReadOK(r, clean) /\ ListOK(r, clean) /\ OwedOK(r, uploads)
    <3>1. PICK page : page = {i}
      OBVIOUS
    <3> QED BY <1>2, <2>4, <2>5, <2>6, <3>1, PassedOK
  <2> QED BY <1>1, <1>2, <2>3, <2>4, <2>7, GoesOn
<1>5. CASE EntryAt(c, i) # {}
  <2>1. PICK r : r = [c EXCEPT !.entry = i, !.pc = "look"]
    OBVIOUS
  <2>2. calls' = [calls EXCEPT ![p] = r]
    BY <1>1, <1>3, <1>5, <2>1
  <2>3. /\ r.op = c.op /\ r.pc = "look" /\ r.entry = i /\ r.left = c.left /\ r.listed = c.listed
        /\ r.owed = c.owed /\ r.disturbed = c.disturbed /\ r.wants = c.wants
    BY <1>2, <2>1 DEF Fields
  <2>4. ReadOK(r, clean)
    BY <1>2, <2>3 DEF ReadOK, ReadOp, ListOp
  <2>5. ListOK(r, clean)
    BY <1>2, <2>3 DEF ListOK, ListShape
  <2>6. OwedOK(r, uploads)
    BY <1>2, <2>3 DEF OwedOK, ListShape
  <2> QED BY <1>1, <1>2, <2>2, <2>3, <2>4, <2>5, <2>6, GoesOn
<1> QED BY <1>4, <1>5

LEMMA LookAtEntryKeeps ==
  ASSUME IInv, RInv, NEW p \in Proc, LookAtEntry(p)
  PROVE  RInv'
<1>1. PICK c : c = calls[p]
  OBVIOUS
<1>2. PICK i, entries : i = c.entry /\ entries = EntryAt(c, i)
  OBVIOUS
<1>3. /\ c.op \in ListOp /\ c.pc = "look" /\ DOMAIN c = Fields /\ UNCHANGED <<workload, uploads, clean>>
      /\ ReadOK(c, clean) /\ ListOK(c, clean) /\ OwedOK(c, uploads)
  BY <1>1, RowOfCall DEF LookAtEntry, In, disk, RInv
<1>4. i \in c.left
  BY <1>2, <1>3 DEF ListOK, OwedOK, ListShape, ListOp
<1>5. PICK E, L : E = c.listed \cup entries /\ L = c.left \ {i}
  OBVIOUS
<1>6. PICK r : r = [c EXCEPT !.listed = E, !.left = L, !.entry = 0, !.pc = "walk"]
  OBVIOUS
<1>7. calls' = [calls EXCEPT ![p] = Idle] \/ calls' = [calls EXCEPT ![p] = r]
  BY <1>1, <1>2, <1>5, <1>6 DEF LookAtEntry, Listed
<1>8. /\ r.op = c.op /\ r.pc = "walk" /\ r.entry = 0 /\ r.left = c.left \ {i} /\ r.listed = c.listed \cup entries
      /\ r.owed = c.owed /\ r.disturbed = c.disturbed /\ r.wants = c.wants
  BY <1>3, <1>5, <1>6 DEF Fields
<1>9. ReadOK(r, clean) /\ ListOK(r, clean) /\ OwedOK(r, uploads)
  <2>1. PICK page : page = {i}
    OBVIOUS
  <2>2. UNION {EntryAt(c, j) : j \in page} = entries
    BY <1>2, <2>1
  <2> QED BY <1>3, <1>4, <1>8, <2>1, <2>2, PassedOK
<1>10. CASE calls' = [calls EXCEPT ![p] = r]
  BY <1>1, <1>3, <1>8, <1>9, <1>10, GoesOn
<1> QED BY <1>3, <1>7, <1>10, EndKeeps

LEMMA ListPageKeeps ==
  ASSUME IInv, RInv, NEW p \in Proc, ListPage(p)
  PROVE  RInv'
<1> DEFINE c == calls[p]
<1>1. c = calls[p]
  OBVIOUS
<1>2. /\ c.op \in ListOp /\ c.pc = "walk" /\ DOMAIN c = Fields /\ UNCHANGED <<workload, uploads, clean>>
      /\ ReadOK(c, clean) /\ ListOK(c, clean) /\ OwedOK(c, uploads)
  BY <1>1, RowOfCall DEF ListPage, In, disk, RInv
<1>3. PICK n \in c.left :
        LET page == {i \in c.left : i <= n}
            seen == Listed(p, UNION {EntryAt(c, i) : i \in page})
        IN calls' = [calls EXCEPT ![p] = [seen EXCEPT !.left = @ \ page]]
  BY Zenon DEF ListPage
<1> HIDE DEF c
<1>4. PICK page, E, L, M, seen :
        /\ page = {i \in c.left : i <= n}
        /\ E = c.listed \cup UNION {EntryAt(c, i) : i \in page} /\ L = c.left \ {c.entry}
        /\ M = L \ page
        /\ seen = [c EXCEPT !.listed = E, !.left = L, !.entry = 0, !.pc = "walk"]
  OBVIOUS
<1>5. /\ DOMAIN seen = Fields /\ seen.left = L
      /\ seen.op = c.op /\ seen.pc = "walk" /\ seen.entry = 0 /\ seen.listed = E
      /\ seen.owed = c.owed /\ seen.disturbed = c.disturbed /\ seen.wants = c.wants
  BY <1>2, <1>4 DEF Fields
<1>6. PICK r : r = [seen EXCEPT !.left = M]
  OBVIOUS
<1>7. calls' = [calls EXCEPT ![p] = r]
  <2>1. seen = Listed(p, UNION {EntryAt(c, i) : i \in page})
    BY <1>1, <1>4 DEF Listed
  <2>2. calls' = [calls EXCEPT ![p] = [seen EXCEPT !.left = seen.left \ page]]
    BY <1>3, <1>4, <2>1
  <2> QED BY <1>4, <1>5, <1>6, <2>2
<1>8. c.left \ page = M
  <2>1. c.left \subseteq Nat \ {0} /\ c.entry = 0
    BY <1>2 DEF ListOK, OwedOK, ListShape, ListOp
  <2> QED BY <1>4, <2>1
<1>9. /\ r.op = c.op /\ r.pc = "walk" /\ r.entry = 0 /\ r.left = c.left \ page /\ r.listed = E
      /\ r.owed = c.owed /\ r.disturbed = c.disturbed /\ r.wants = c.wants
  BY <1>5, <1>6, <1>8 DEF Fields
<1>10. ReadOK(r, clean) /\ ListOK(r, clean) /\ OwedOK(r, uploads)
  <2>1. page \subseteq c.left
    BY <1>4
  <2> QED BY <1>2, <1>4, <1>9, <2>1, PassedOK
<1> QED BY <1>1, <1>2, <1>7, <1>9, <1>10, GoesOn

(* At the start nothing is read or listed.                                  *)
LEMMA ReadsInitially ==
  ASSUME Init PROVE RInv
<1>1. \A p \in Proc : calls[p] = Idle
  BY DEF Init
<1>2. uploads = <<>> /\ Uploads = {}
  BY DEF Init, Uploads
<1>3. Crossed /\ UploadsOK
  BY <1>1, <1>2, IdleReader DEF Crossed, UploadsOK, Creating
<1>4. \A p \in Proc : ReadOK(calls[p], clean) /\ ListOK(calls[p], clean) /\ OwedOK(calls[p], uploads)
  BY <1>1, IdleReader, Unread
<1> QED BY <1>3, <1>4 DEF RInv

LEMMA ReadsStep ==
  ASSUME IInv, RInv, Next
  PROVE  RInv'
<1>1. ASSUME NEW p \in Proc, Write(p) PROVE RInv'
  BY <1>1, BeginAsides, PlainSteps, RenameKeeps DEF Write
<1>2. ASSUME NEW p \in Proc, Multipart(p) PROVE RInv'
  BY <1>2, BeginAsides, NewUploadKeeps, OpenMetaKeeps, WriteMetaKeeps, OpenPartKeeps, StorePartKeeps, Endings,
     AbortKeeps, PlainSteps, DropDirKeeps DEF Multipart
<1>3. ASSUME NEW p \in Proc, S3(p) PROVE RInv'
  BY <1>3, S3Keeps, AssembleKeeps DEF S3
<1>4. ASSUME NEW p \in Proc, Read(p) PROVE RInv'
  BY <1>4, BeginReadKeeps, StatKeeps, ReadSideKeeps, FetchKeeps, Endings DEF Read
<1>5. ASSUME NEW p \in Proc, List(p) PROVE RInv'
  BY <1>5, BeginListKeeps, ReadEntryKeeps, LookAtEntryKeeps, Endings, ListPageKeeps DEF List
<1> QED BY <1>1, <1>2, <1>3, <1>4, <1>5, CrashKeeps DEF Next

LEMMA ReadsStutter ==
  ASSUME RInv, UNCHANGED vars
  PROVE  RInv'
<1>1. calls' = calls /\ clean' = clean /\ uploads' = uploads /\ workload' = workload
  BY DEF vars
<1>2. Crossed' /\ UploadsOK'
  BY <1>1 DEF RInv, Crossed, UploadsOK, Uploads, Creating, Local
<1>3. \A p \in Proc : ReadOK(calls'[p], clean') /\ ListOK(calls'[p], clean') /\ OwedOK(calls'[p], uploads')
  BY <1>1 DEF RInv
<1> QED BY <1>2, <1>3 DEF RInv, ReadOK, ListOK, OwedOK

(* The first of one key or of two that holds something.                     *)
LEMMA FirstOfKeys ==
  ASSUME NEW S, NEW first, first = CHOOSE i \in S : \A j \in S : i <= j
  PROVE  /\ S = {1} => first = 1
         /\ S = {2} => first = 2
         /\ S = {1, 2} => first = 1
<1>1. ASSUME NEW a \in {1, 2}, a \in S, \A i \in S : a <= i /\ i \in {1, 2} PROVE first = a
  <2>1. first \in S /\ \A j \in S : first <= j
    BY <1>1
  <2> QED BY <1>1, <2>1
<1> QED BY <1>1

LEMMA SoundRead ==
  ASSUME NEW c, ReadOK(c, clean)
  PROVE  ReadIsSound(c)
<1> SUFFICES ASSUME c.op \in ReadOp, c.pc = "done", c.disturbed = {}, \A k \in ToSet(c.wants) : clean[k] # Unknown
             PROVE  LET there == {i \in DOMAIN c.wants : clean[c.wants[i]] # Nothing}
                        first == CHOOSE i \in there : \A j \in there : i <= j
                    IN IF c.op = "image" /\ there = {} THEN c.reply.status = Placeholder
                       ELSE Answered(c.reply, clean[IF there = {} THEN c.key ELSE c.wants[first]], c.range, c.known)
  BY DEF ReadIsSound
<1> DEFINE there == {i \in DOMAIN c.wants : clean[c.wants[i]] # Nothing}
           first == CHOOSE i \in there : \A j \in there : i <= j
<1>1. Shape(c) /\ Replies(c, clean[c.key]) /\ SecondTry(c, clean)
  BY DEF ReadOK, Calm, Learnt
<1>2. CASE c.key \in Key /\ c.wants = <<c.key>>
  <2>1. DOMAIN c.wants = {1} /\ c.wants[1] = c.key
    BY <1>2
  <2>2. CASE clean[c.key] = Nothing
    <3>1. there = {}
      BY <2>1, <2>2
    <3> QED BY <1>1, <2>2, <3>1 DEF Replies
  <2>3. CASE clean[c.key] # Nothing
    <3>1. there = {1}
      BY <2>1, <2>3
    <3>2. first = 1
      BY <3>1, FirstOfKeys
    <3> HIDE DEF first
    <3> QED BY <1>1, <2>1, <2>3, <3>1, <3>2 DEF Replies
  <2> QED BY <2>2, <2>3
<1>3. CASE c.op = "image" /\ \E k \in Key : \E j \in Key \ {k} : c.wants = <<k, j>> /\ c.from = j /\ c.key \in {k, j}
  <2>1. PICK k \in Key, j \in Key : j # k /\ c.wants = <<k, j>> /\ c.from = j /\ c.key \in {k, j}
    BY <1>3
  <2>2. DOMAIN c.wants = {1, 2} /\ c.wants[1] = k /\ c.wants[2] = j
    BY <2>1
  <2>3. CASE c.key = k
    <3>1. clean[k] # Nothing /\ Answered(c.reply, clean[k], c.range, c.known)
      BY <1>1, <1>3, <2>1, <2>3 DEF Replies
    <3>2. there = {1} \/ there = {1, 2}
      BY <2>2, <3>1
    <3>3. first = 1 /\ there # {}
      BY <3>2, FirstOfKeys
    <3> HIDE DEF first, there
    <3> QED BY <2>2, <3>1, <3>3 DEF first, there
  <2>4. CASE c.key = j
    <3>1. clean[k] = Nothing
      BY <1>1, <2>1, <2>2, <2>4 DEF SecondTry
    <3>2. CASE clean[j] = Nothing
      <4>1. there = {}
        BY <2>2, <3>1, <3>2
      <4> QED BY <1>1, <1>3, <2>4, <3>2, <4>1 DEF Replies
    <3>3. CASE clean[j] # Nothing
      <4>1. there = {2}
        BY <2>2, <3>1, <3>3
      <4>2. first = 2
        BY <4>1, FirstOfKeys
      <4> HIDE DEF first
      <4> QED BY <1>1, <2>2, <2>4, <3>3, <4>1, <4>2 DEF Replies
    <3> QED BY <3>2, <3>3
  <2> QED BY <2>1, <2>3, <2>4
<1> QED BY <1>1, <1>2, <1>3 DEF Shape

LEMMA SoundList ==
  ASSUME NEW c, ListOK(c, clean), OwedOK(c, uploads)
  PROVE  ListIsSound(c)
<1> SUFFICES ASSUME c.op \in ListOp, Done(c) PROVE ListIsSound(c)
  BY DEF ListIsSound
<1>1. c.left = {}
  BY DEF Done, ListOK, OwedOK, ListShape, ListOp
<1>2. CASE c.op = "list"
  BY <1>1, <1>2 DEF ListIsSound, ListOK
<1>3. CASE c.op = "list_uploads"
  BY <1>1, <1>3 DEF ListIsSound, OwedOK
<1> QED BY <1>2, <1>3 DEF ListOp

-----------------------------------------------------------------------------
(* The theorems.                                                            *)

LEMMA Initially == Init => IInv
<1> SUFFICES ASSUME Init PROVE IInv
  OBVIOUS
<1>1. workload \in Workloads /\ begun \in Nat
  BY StoreAssumption DEF Init
<1>2. files \in [Key -> File]
  <2>1. \A k \in Key : <<k, k>> \in Obj
    BY DEF Obj, Key
  <2> QED BY <2>1 DEF Init, File
<1>3. uploads \in Seq(UploadRow) /\ uploads = <<>>
  BY DEF Init
<1>4. DOMAIN sides = Key /\ DOMAIN clean = Key /\ DOMAIN calls = Proc
  BY <1>2 DEF Init
<1>5. \A p \in Proc : calls[p] = Idle
  BY DEF Init
<1>6. \A p \in Proc : RowInv(calls[p])
  BY <1>5, IdleRow
<1>7. Uploads = {}
  BY <1>3 DEF Uploads
<1>8. PartsOutliveCompletion
  BY <1>7 DEF PartsOutliveCompletion
<1>9. Idle.op \notin WriteOp
  BY IdleAfter
<1>10. WritesCross
  BY <1>5, <1>9 DEF WritesCross
<1>11. OnlyTheDisk
  BY DEF Init, OnlyTheDisk
<1>12. AcknowledgedWritesStick
  <2>1. \A k \in Key : files[k] = IF k \in workload.stored THEN <<k, k>> ELSE Nothing
    BY DEF Init
  <2>2. \A k \in Key : <<k, k>> # Nothing
    BY DEF Nothing
  <2> QED BY <2>1, <2>2 DEF Init, AcknowledgedWritesStick
<1> QED BY <1>1, <1>2, <1>3, <1>4, <1>6, <1>8, <1>10, <1>11, <1>12 DEF IInv, Types

(* Every step of the store keeps the invariant and is a step of the map.    *)
LEMMA Step ==
  ASSUME IInv, Next
  PROVE  IInv' /\ Atomic
<1>1. CASE Crash
  BY <1>1, CrashStep
<1>2. ASSUME NEW p \in Proc, Write(p) PROVE IInv' /\ Atomic
  BY <1>2, BeginPutStep, BeginCopyStep, OpenTmpStep, FillTmpStep, CopyToTmpStep, RenameStep, DescribeStep,
     OpenSideStep, WriteSideStep, BeginDeleteStep, RemoveFileStep, RemoveSideStep DEF Write
<1>3. ASSUME NEW p \in Proc, Multipart(p) PROVE IInv' /\ Atomic
  BY <1>3, BeginCreateStep, NewUploadSteps, OpenMetaStep, WriteMetaStep, BeginPartStep, OpenPartStep,
     StorePartStep, Refusals, BeginAbortStep, AbortStep, BeginCompleteStep, CheckPartStep, AppendPartStep,
     AssembledStep, DropDirStep DEF Multipart
<1>4. ASSUME NEW p \in Proc, S3(p) PROVE IInv' /\ Atomic
  BY <1>4, StatSourceStep, SentStep, CopyWholeStep, OwnUploadSteps, CopyPartStep, AssembleStep, Refusals,
     HeadWrittenStep, RemoveObjectStep, RequestFailsStep DEF S3
<1>5. ASSUME NEW p \in Proc, Read(p) PROVE IInv' /\ Atomic
  BY <1>5, BeginReads, Reads, Refusals DEF Read
<1>6. ASSUME NEW p \in Proc, List(p) PROVE IInv' /\ Atomic
  BY <1>6, BeginReads, Lists DEF List
<1> QED BY <1>1, <1>2, <1>3, <1>4, <1>5, <1>6 DEF Next

LEMMA Stutter ==
  ASSUME IInv, UNCHANGED vars
  PROVE  IInv' /\ UNCHANGED <<files, OfferMap>>
<1>1. UNCHANGED <<workload, files, sides, uploads, calls, begun, clean>>
  BY DEF vars, disk
<1>2. Types' /\ PartsOutliveCompletion' /\ WritesCross' /\ OnlyTheDisk' /\ AcknowledgedWritesStick'
  BY <1>1 DEF IInv, Types, PartsOutliveCompletion, Uploads, WritesCross, OnlyTheDisk, AcknowledgedWritesStick, Local
<1>3. ASSUME NEW p \in Proc PROVE RowInv(calls[p])'
  <2>1. RowInv(calls[p])
    BY DEF IInv
  <2> QED BY <1>1, <2>1
          DEF RowInv, PutOK, CopyOK, CompleteOK, DeleteOK, UploadOK, FateOK, ExactOK, AloneOK, Uploads
<1>4. OfferMap' = OfferMap
  BY <1>1, OffersAfter
<1> QED BY <1>1, <1>2, <1>3, <1>4 DEF IInv

(* What a call has in hand, an upload and a key is, is always in order.     *)
THEOREM StoreInvariant == Spec => []IInv
<1>1. IInv /\ [Next]_vars => IInv'
  BY Step, Stutter
<1> QED BY <1>1, Initially, PTL DEF Spec

(* Every part that was acknowledged is still stored as long as its upload    *)
(* is neither assembled nor aborted: however completions, further uploads   *)
(* of parts, aborts and crashes interleave, a failed completion can be tried *)
(* again.                                                                   *)
THEOREM PartsOutlive == Spec => []PartsOutliveCompletion
<1>1. IInv => PartsOutliveCompletion
  BY DEF IInv
<1> QED BY <1>1, StoreInvariant, PTL

(* Once a write or a deletion has been answered, the key holds what was     *)
(* answered, and its sidecar says so, until another write of it begins.     *)
THEOREM WritesStick == Spec => []AcknowledgedWritesStick
<1>1. IInv => AcknowledgedWritesStick
  BY DEF IInv
<1> QED BY <1>1, StoreInvariant, PTL

(* On either backend the objects of the store are the map that callers see: *)
(* each call changes one key in one step, to what it was asked to store.    *)
THEOREM StoreImplementsMap == Spec => StoreIsAtomic
<1>1. Init => Map!Init
  <2> SUFFICES ASSUME Init PROVE Map!Init
    OBVIOUS
  <2>1. files \in [Key -> File]
    BY Initially DEF IInv, Types
  <2>2. \A p \in Proc : OfferOf(calls[p]) = {}
    BY IdleAfter DEF Init
  <2>3. OfferMap = [p \in Proc |-> {}]
    BY <2>2, OffersAfter
  <2> QED BY <2>1, <2>3 DEF Map!Init, OfferMap, File, Obj
<1>2. IInv /\ [Next]_vars => [Map!Next]_<<files, OfferMap>>
  BY Step, Stutter DEF Atomic
<1>3. Init /\ []IInv /\ [][Next]_vars => Map!Init /\ [][Map!Next]_<<files, OfferMap>>
  BY <1>1, <1>2, PTL
<1>4. Map!Init /\ [][Map!Next]_<<files, OfferMap>> => StoreIsAtomic
  BY PTL DEF StoreIsAtomic, Map!Spec, OfferMap
<1> QED BY <1>3, <1>4, StoreInvariant, PTL DEF Spec

(* A completion publishes the parts that its caller named, in their order;  *)
(* on the disk one that is uploaded again meanwhile may take its place.     *)
THEOREM CompletionsAreExact == Spec => CompletionIsExact
<1> DEFINE A == \A p \in Proc :
                  (Rename(p) \/ Assemble(p)) /\ calls[p].op = "complete" =>
                    LET acked == calls[p].acked
                        published == files'[calls[p].key]
                    IN /\ Len(published) = Len(acked)
                       /\ \A i \in 1 .. Len(acked) :
                            published[i] = acked[i] \/ (Local /\ <<i, published[i]>> \in calls[p].again)
<1>1. ASSUME IInv, Next PROVE A
  <2> TAKE p \in Proc
  <2> DEFINE c == calls[p]
             published == files'[c.key]
  <2> SUFFICES ASSUME Rename(p) \/ Assemble(p), c.op = "complete"
               PROVE  /\ Len(published) = Len(c.acked)
                      /\ \A i \in 1 .. Len(c.acked) :
                           published[i] = c.acked[i] \/ (Local /\ <<i, published[i]>> \in c.again)
    OBVIOUS
  <2>1. RowInv(c)
    BY <1>1 DEF IInv
  <2>2. c.key \in Key /\ c.acked \in Obj
    BY <2>1 DEF RowInv, CompleteOK
  <2>3. CASE Rename(p)
    <3>1. c.pc = "rename" /\ published = c.tmp /\ Local
      BY <1>1, <2>2, <2>3 DEF Rename, In, IInv, Types
    <3>2. /\ c.tmp \in Obj /\ Len(c.tmp) + 1 = Len(c.acked) + 1
          /\ \A i \in 1 .. Len(c.tmp) : Named(c, i, c.tmp[i])
      BY <2>1, <3>1 DEF RowInv, CompleteOK, ExactOK
    <3>3. Len(c.tmp) = Len(c.acked)
      BY <2>2, <3>2 DEF Obj
    <3> QED BY <3>1, <3>2, <3>3 DEF Named
  <2>4. CASE Assemble(p)
    BY <1>1, <2>2, <2>4 DEF Assemble, IInv, Types
  <2> QED BY <2>3, <2>4
<1>2. IInv /\ [Next]_vars => [A]_vars
  BY <1>1
<1>3. []IInv /\ [][Next]_vars => [][A]_vars
  BY <1>2, PTL
<1> QED BY <1>3, StoreInvariant, PTL DEF Spec, CompletionIsExact

(* What a read has learnt of an object that no write touches is true of it, *)
(* and a listing has listed what it is past: it is so at every step.        *)
THEOREM StoreReads == Spec => []RInv
<1>1. Init => RInv
  BY ReadsInitially
<1>2. IInv /\ RInv /\ [Next]_vars => RInv'
  BY ReadsStep, ReadsStutter
<1>3. Spec => []IInv
  BY StoreInvariant
<1> QED BY <1>1, <1>2, <1>3, PTL DEF Spec

(* A read of an object that no write touches meanwhile answers what its     *)
(* request asked for, whatever the range and the size and whichever of its  *)
(* keys holds something, and a listing leaves nothing out that was there    *)
(* all along.                                                               *)
THEOREM ReadsAlwaysSound == Spec => []ReadsAreSound
<1>1. RInv => ReadsAreSound
  <2> SUFFICES ASSUME RInv, NEW p \in Proc PROVE ReadIsSound(calls[p]) /\ ListIsSound(calls[p])
    BY DEF ReadsAreSound
  <2>1. PICK c : c = calls[p]
    OBVIOUS
  <2>2. ReadOK(c, clean) /\ ListOK(c, clean) /\ OwedOK(c, uploads)
    BY <2>1 DEF RInv
  <2> QED BY <2>1, <2>2, SoundRead, SoundList
<1> QED BY <1>1, StoreReads, PTL
=============================================================================
