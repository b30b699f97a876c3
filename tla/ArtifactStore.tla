---------------------------- MODULE ArtifactStore ----------------------------
(***************************************************************************)
(* The content-addressed store of the documents on one POSIX filesystem,   *)
(* and those who use it: issuance attempts publish the bytes they rendered *)
(* and commit a manifest naming them; an operator's repair renders them    *)
(* again and publishes them; the verifier reads every committed document.  *)
(*                                                                         *)
(* A client goes through its file system calls one at a time.  Any of them *)
(* may fail, the process may die between any two, the power may fail, and  *)
(* files may be damaged or deleted by something else.  After a power       *)
(* failure what was not synced may be missing: the data of a file until    *)
(* its fsync, an entry of a directory until the fsync of that directory.   *)
(*                                                                         *)
(* Document ids are random: Quotes stands for the documents in the order   *)
(* of their ids, which says nothing of the order they are committed in.    *)
(***************************************************************************)
EXTENDS Integers, FiniteSets

CONSTANTS
    Bytes,        \* rendered documents; each is its own hash and address
    LegacyKey,    \* where the documents migrated from V1 are
    Quotes,       \* 1..n, by document id
    Legacy,       \* those migrated from V1
    Rendered,     \* what issuing each of the others may render
    Clients,      \* attempts, repairs and verifications under way
    Inner, Top,   \* directories <bb> and <aa> of each address
    TopsAtStart,  \* directories <aa> that are there, and on disk, at first
    Damages,      \* what outside damage leaves at an address
    BatchSize,    \* of the verifier
    NoManifest, NoBytes

Keys == Bytes \cup {LegacyKey}
Tops == {Top[b] : b \in Bytes}
Inners == {Inner[b] : b \in Bytes}

(* A row of quote_documents: the address and the hash of the document,     *)
(* whether its length is recorded, and whether it was migrated from V1.    *)
ManifestRecord ==
    [key : Keys, bytes : Bytes, length : BOOLEAN, legacy : BOOLEAN]

ASSUME ConstantsAssumption ==
    /\ LegacyKey \notin Bytes /\ NoBytes \notin Bytes
    /\ IsFiniteSet(Quotes) /\ Quotes \subseteq Nat \ {0} /\ Legacy \subseteq Quotes
    /\ NoManifest \notin ManifestRecord
    /\ \A q \in Quotes \ Legacy : Rendered[q] \subseteq Bytes
    /\ \A a, b \in Bytes : Inner[a] = Inner[b] => Top[a] = Top[b]
    /\ Tops \cap Inners = {} /\ (Tops \cup Inners) \cap Keys = {}
    /\ TopsAtStart \subseteq Tops
    /\ Damages \subseteq {"absent", "altered", "truncated", "unreadable"}
    /\ BatchSize \in Nat \ {0}

VARIABLES
    file,       \* what each address holds
    made,       \* directories there are
    durable,    \* directories and addresses whose entry is on disk
    manifest,   \* quote_documents, by quote
    client,     \* attempts, repairs and verifications under way
    promised    \* history: addresses confirmed, not damaged from outside since
                \* their publication began

vars == <<file, made, durable, manifest, client, promised>>
disk == <<file, made, durable>>

-----------------------------------------------------------------------------
IdleClient ==
    [kind |-> "none", stage |-> "idle", quote |-> 0, bytes |-> NoBytes,
     temp |-> "none", cursor |-> 0, rows |-> {}, full |-> TRUE,
     checked |-> {}, started |-> {}, disturbed |-> FALSE]

Committed == {q \in Quotes : manifest[q] # NoManifest}

IssuedManifest(b) == [key |-> b, bytes |-> b, length |-> TRUE, legacy |-> FALSE]
LegacyManifest(b) == [key |-> LegacyKey, bytes |-> b, length |-> FALSE, legacy |-> TRUE]

Init ==
    /\ file = [k \in Keys |-> IF k = LegacyKey THEN "intact" ELSE "absent"]
    /\ made = TopsAtStart
    /\ durable = TopsAtStart \cup {LegacyKey}
    /\ \E b \in Bytes :
          manifest = [q \in Quotes |-> IF q \in Legacy THEN LegacyManifest(b) ELSE NoManifest]
    /\ client = [c \in Clients |-> IdleClient]
    /\ promised = {}

At(c, stage) == client[c].stage = stage
Become(c, next) == client' = [client EXCEPT ![c] = next]
Goes(c, stage) == Become(c, [client[c] EXCEPT !.stage = stage])

(* readVerified: one descriptor, and what it read is what is served.  The  *)
(* key of an issued document is its address by the schema.                 *)
ReadStatus(m) ==
    CASE file[m.key] = "absent" -> "MISSING"
      [] file[m.key] = "unreadable" -> "READ_FAILED"
      [] file[m.key] = "truncated" /\ m.length -> "LENGTH_MISMATCH"
      [] file[m.key] \in {"truncated", "altered"} -> "HASH_MISMATCH"
      [] file[m.key] \in {"cached", "intact"} -> "OK"

-----------------------------------------------------------------------------
(* publish.  A client keeps its temp file, under a name of its own, from   *)
(* here until the link; "cached" is complete but not synced.               *)

StartsPublishing(c, kind, q, b) ==
    Become(c, [IdleClient EXCEPT !.kind = kind, !.stage = "writing", !.quote = q,
                                 !.bytes = b, !.temp = "partial"])

(* An attempt has rendered the quote's document.                           *)
PublishRendered(c, q, b) ==
    /\ At(c, "idle")
    /\ q \notin Legacy /\ b \in Rendered[q]
    /\ StartsPublishing(c, "attempt", q, b)
    /\ UNCHANGED <<disk, manifest, promised>>

(* Mutant: the temp file is not synced.                                    *)
WriteCached(c) ==
    /\ At(c, "writing")
    /\ Become(c, [client[c] EXCEPT !.stage = "written",
                      !.temp = IF client[c].temp = "none" THEN "none" ELSE "cached"])
    /\ UNCHANGED <<disk, manifest, promised>>

WriteDurably(c) ==
    /\ At(c, "writing")
    /\ Become(c, [client[c] EXCEPT !.stage = "written",
                      !.temp = IF client[c].temp = "none" THEN "none" ELSE "synced"])
    /\ UNCHANGED <<disk, manifest, promised>>

MakeDirectories(c) ==
    /\ At(c, "written")
    /\ made' = made \cup {Top[client[c].bytes], Inner[client[c].bytes]}
    /\ Goes(c, "directed")
    /\ UNCHANGED <<file, durable, manifest, promised>>

(* link: never replaces a file; the temp file is removed afterwards.       *)
Link(c) ==
    LET b == client[c].bytes IN
    /\ At(c, "directed")
    /\ client[c].temp # "none"
    /\ file[b] = "absent"
    /\ file' = [file EXCEPT ![b] = IF client[c].temp = "synced" THEN "intact" ELSE client[c].temp]
    /\ Become(c, [client[c] EXCEPT !.stage = "linked", !.temp = "none"])
    /\ UNCHANGED <<made, durable, manifest, promised>>

LinkFindsFile(c) ==
    /\ At(c, "directed")
    /\ client[c].temp # "none"
    /\ file[client[c].bytes] # "absent"
    /\ Goes(c, "exists")
    /\ UNCHANGED <<disk, manifest, promised>>

(* The temp sweep of some process took the temp file of a client that was  *)
(* slower than its maximum age.                                            *)
LinkFindsNoTemp(c) ==
    /\ At(c, "directed")
    /\ client[c].temp = "none"
    /\ Goes(c, "failed")
    /\ UNCHANGED <<disk, manifest, promised>>

Holds(b) == file[b] \in {"cached", "intact"}

(* What reading back an address a client counts on leads to.               *)
AfterReading(b, next) ==
    IF Holds(b) THEN next
    ELSE IF file[b] \in {"absent", "unreadable"} THEN "failed" ELSE "conflict"

(* An existing file must hold exactly these bytes.                         *)
CompareExisting(c) ==
    /\ At(c, "exists")
    /\ Become(c, [client[c] EXCEPT !.temp = "none",
                      !.stage = AfterReading(client[c].bytes, "linked")])
    /\ UNCHANGED <<disk, manifest, promised>>

(* Mutant: only the directory of the file is synced.                       *)
SyncInner(c) ==
    LET b == client[c].bytes IN
    /\ At(c, "linked")
    /\ durable' = durable \cup {k \in Bytes : Inner[k] = Inner[b] /\ file[k] # "absent"}
    /\ Goes(c, "entered")
    /\ UNCHANGED <<file, made, manifest, promised>>

(* fsync of the file's directory and of the directory that one is in.      *)
SyncDirectories(c) ==
    LET b == client[c].bytes IN
    /\ At(c, "linked")
    /\ durable' = durable
          \cup {k \in Bytes : Inner[k] = Inner[b] /\ file[k] # "absent"}
          \cup {Inner[k] : k \in {k \in Bytes : Top[k] = Top[b] /\ Inner[k] \in made}}
    /\ Goes(c, "entered")
    /\ UNCHANGED <<file, made, manifest, promised>>

(* The bytes at the final address are read again before anybody relies on  *)
(* them.                                                                   *)
VerifyPublished(c) ==
    LET b == client[c].bytes IN
    /\ At(c, "entered")
    /\ Goes(c, AfterReading(b, "published"))
    /\ promised' = IF Holds(b) /\ ~client[c].disturbed THEN promised \cup {b} ELSE promised
    /\ UNCHANGED <<disk, manifest>>

(* A file system call fails; the temp file is removed as far as possible.  *)
CallFails(c) ==
    /\ client[c].stage \in {"writing", "written", "directed", "exists", "linked", "entered"}
    /\ Become(c, [client[c] EXCEPT !.stage = "failed", !.temp = "none"])
    /\ UNCHANGED <<disk, manifest, promised>>

(* sweepTemp, after a probe: nothing but temp files, of any age here as a  *)
(* client may be as slow as it likes.                                      *)
SweepTemp(c) ==
    /\ client[c].temp # "none"
    /\ Become(c, [client[c] EXCEPT !.temp = "none"])
    /\ UNCHANGED <<disk, manifest, promised>>

(* Mutant: the manifest names what was linked, verified or not.            *)
CommitLinked(c) ==
    LET q == client[c].quote IN
    /\ client[c].kind = "attempt"
    /\ client[c].stage \in {"linked", "published"}
    /\ manifest' = IF manifest[q] = NoManifest
                   THEN [manifest EXCEPT ![q] = IssuedManifest(client[c].bytes)] ELSE manifest
    /\ Become(c, IdleClient)
    /\ UNCHANGED <<disk, promised>>

(* The fenced commit: one manifest for a quote.                            *)
CommitManifest(c) ==
    LET q == client[c].quote IN
    /\ client[c].kind = "attempt" /\ At(c, "published")
    /\ manifest' = IF manifest[q] = NoManifest
                   THEN [manifest EXCEPT ![q] = IssuedManifest(client[c].bytes)] ELSE manifest
    /\ Become(c, IdleClient)
    /\ UNCHANGED <<disk, promised>>

-----------------------------------------------------------------------------
(* documents:repair.                                                       *)

(* The manifest, which never changes, and what it names: nothing to do, or *)
(* refused, or worth a render.                                             *)
BeginRepair(c, q) ==
    /\ At(c, "idle")
    /\ Become(c, [IdleClient EXCEPT !.kind = "repair", !.quote = q, !.stage =
          IF manifest[q] = NoManifest \/ manifest[q].legacy THEN "refused"
          ELSE IF ReadStatus(manifest[q]) = "OK" THEN "intact" ELSE "rendering"])
    /\ UNCHANGED <<disk, manifest, promised>>

(* Another version of the renderer, a snapshot that does not hash to what  *)
(* was issued, a failure to render; or a dry run, that ends here.          *)
RepairEnds(c) ==
    /\ At(c, "rendering")
    /\ Goes(c, "refused")
    /\ UNCHANGED <<disk, manifest, promised>>

(* Only the exact recorded bytes are published.                            *)
PublishCandidate(c, b) ==
    /\ At(c, "rendering")
    /\ IF b = manifest[client[c].quote].bytes
       THEN StartsPublishing(c, "repair", client[c].quote, b)
       ELSE Goes(c, "refused")
    /\ UNCHANGED <<disk, manifest, promised>>

(* "repaired" or "already_restored" only after a verified read.            *)
VerifyRepair(c) ==
    /\ client[c].kind = "repair" /\ At(c, "published")
    /\ Goes(c, IF ReadStatus(manifest[client[c].quote]) = "OK" THEN "intact" ELSE "refused")
    /\ UNCHANGED <<disk, manifest, promised>>

-----------------------------------------------------------------------------
(* verifyDocumentArtifacts.                                                *)

BeginVerification(c) ==
    /\ At(c, "idle")
    /\ Become(c, [IdleClient EXCEPT !.kind = "verifier", !.stage = "scanning", !.started = Committed])
    /\ UNCHANGED <<disk, manifest, promised>>

(* The committed documents after an id, as many as a batch holds.          *)
Batch(after) ==
    LET later == {q \in Committed : q > after} IN
    {q \in later : Cardinality({p \in later : p < q}) < BatchSize}

Last(rows) == CHOOSE q \in rows : \A p \in rows : p <= q
First(rows) == CHOOSE q \in rows : \A p \in rows : q <= p

FetchBatch(c) ==
    LET rows == Batch(client[c].cursor) IN
    /\ At(c, "scanning") /\ client[c].rows = {} /\ client[c].full
    /\ Become(c, [client[c] EXCEPT !.rows = rows, !.full = Cardinality(rows) = BatchSize,
          !.cursor = IF rows = {} THEN client[c].cursor ELSE Last(rows)])
    /\ UNCHANGED <<disk, manifest, promised>>

(* A legacy document of which the length was never recorded gets it, once. *)
CheckRow(c) ==
    LET q == First(client[c].rows) IN
    /\ At(c, "scanning") /\ client[c].rows # {}
    /\ Become(c, [client[c] EXCEPT !.rows = client[c].rows \ {q}, !.checked = client[c].checked \cup {q}])
    /\ manifest' = IF ReadStatus(manifest[q]) = "OK" /\ manifest[q].legacy
                   THEN [manifest EXCEPT ![q].length = TRUE] ELSE manifest
    /\ UNCHANGED <<disk, promised>>

(* Mutant: a verification ends with its first batch.                       *)
EndsAfterBatch(c) ==
    /\ At(c, "scanning") /\ client[c].rows = {} /\ client[c].cursor # 0
    /\ Goes(c, "complete")
    /\ UNCHANGED <<disk, manifest, promised>>

EndVerification(c) ==
    /\ At(c, "scanning") /\ client[c].rows = {} /\ ~client[c].full
    /\ Goes(c, "complete")
    /\ UNCHANGED <<disk, manifest, promised>>

-----------------------------------------------------------------------------
(* A client has its answer, gives up between two batches, or its process   *)
(* dies; what it left in the temp directory is swept some day.             *)
EndClient(c) ==
    /\ ~At(c, "idle")
    /\ Become(c, IdleClient)
    /\ UNCHANGED <<disk, manifest, promised>>

(* Something else than the service deletes or damages a file.              *)
Damage(k, damage) ==
    /\ file[k] # "absent" /\ file[k] # damage
    /\ file' = [file EXCEPT ![k] = damage]
    /\ durable' = IF damage = "absent" THEN durable \ {k} ELSE durable
    /\ promised' = promised \ {k}
    /\ client' = [c \in Clients |-> [client[c] EXCEPT !.disturbed = @ \/ client[c].bytes = k]]
    /\ UNCHANGED <<made, manifest>>

Entries == made \cup {k \in Keys : file[k] # "absent"}

(* A directory goes with all that is below it.                             *)
GoneWith(lost) ==
    lost \cup {Inner[b] : b \in {b \in Bytes : Top[b] \in lost}}
         \cup {b \in Bytes : Inner[b] \in lost \/ Top[b] \in lost}

PowerFails ==
    \E lost \in SUBSET (Entries \ durable) :
        /\ made' = made \ GoneWith(lost)
        /\ file' = [k \in Keys |->
              IF k \in GoneWith(lost) THEN "absent"
              ELSE IF file[k] = "cached" THEN "truncated" ELSE file[k]]
        /\ durable' = Entries \ GoneWith(lost)
        /\ client' = [c \in Clients |-> IdleClient]
        /\ UNCHANGED <<manifest, promised>>

-----------------------------------------------------------------------------
Publish(c) ==
    \/ \E q \in Quotes : \E b \in Bytes : PublishRendered(c, q, b)
    \/ WriteDurably(c)
    \/ MakeDirectories(c)
    \/ Link(c)
    \/ LinkFindsFile(c)
    \/ LinkFindsNoTemp(c)
    \/ CompareExisting(c)
    \/ SyncDirectories(c)
    \/ VerifyPublished(c)
    \/ CallFails(c)
    \/ SweepTemp(c)
    \/ CommitManifest(c)

Repair(c) ==
    \/ \E q \in Quotes : BeginRepair(c, q)
    \/ RepairEnds(c)
    \/ \E b \in Bytes : PublishCandidate(c, b)
    \/ VerifyRepair(c)

Verify(c) == BeginVerification(c) \/ FetchBatch(c) \/ CheckRow(c) \/ EndVerification(c)

Next ==
    \/ \E c \in Clients : Publish(c) \/ Repair(c) \/ Verify(c) \/ EndClient(c)
    \/ \E k \in Keys, damage \in Damages : Damage(k, damage)
    \/ PowerFails

Spec == Init /\ [][Next]_vars
-----------------------------------------------------------------------------
(* Properties.                                                             *)

(* Every variable keeps its type, and no file is without its directories.  *)
TypeOK ==
    /\ file \in [Keys -> {"absent", "intact", "altered", "truncated", "unreadable"}]
    /\ made \subseteq Tops \cup Inners
    /\ durable \subseteq Entries
    /\ manifest \in [Quotes -> ManifestRecord \cup {NoManifest}]
    /\ \A b \in Bytes : file[b] # "absent" => {Top[b], Inner[b]} \subseteq made
    /\ \A c \in Clients :
          /\ client[c].temp \in {"none", "partial", "synced"}
          /\ client[c].rows \subseteq Quotes /\ client[c].checked \subseteq Quotes

(* "A manifest can only ever name bytes that exist": whatever crashed,     *)
(* raced or lost its power, a committed document reads as what was         *)
(* recorded, unless its file was damaged from outside after the service    *)
(* had confirmed it.                                                       *)
ManifestsNameBytesThatExist ==
    \A q \in Committed : manifest[q].key \in promised => ReadStatus(manifest[q]) = "OK"

(* A verification that reports itself complete has looked at every         *)
(* document that was committed when it began, although documents are       *)
(* committed before and behind its cursor meanwhile.                       *)
VerificationMissesNothing ==
    \A c \in Clients : At(c, "complete") => client[c].started \subseteq client[c].checked

Condition(k) ==
    IF file[k] = "absent" THEN "absent" ELSE IF Holds(k) THEN "intact" ELSE "damaged"

WriteOnce == INSTANCE WriteOnceStore WITH
    file <- [k \in Keys |-> Condition(k)],
    pledge <- [c \in Clients |-> IF At(c, "published") THEN {client[c].bytes} ELSE {}],
    reply <- [c \in Clients |-> IF At(c, "intact") THEN "intact" ELSE "none"],
    named <- {manifest[q].key : q \in Committed}

(* Publications, repairs and sweeps together implement a write-once store. *)
ImplementsWriteOnce == WriteOnce!Spec
=============================================================================
