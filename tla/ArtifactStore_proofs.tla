------------------------- MODULE ArtifactStore_proofs -------------------------
(***************************************************************************)
(* Proofs about ArtifactStore, for every set of documents, addresses,      *)
(* directories, clients and batch size, and any damage from outside.       *)
(*                                                                         *)
(* What is promised rests on the directories <aa> being there from the     *)
(* start: nobody syncs the directory they are in.  The results that need   *)
(* this say so; the run MC_ArtifactsFresh shows that they do need it.      *)
(***************************************************************************)
EXTENDS ArtifactStore, FiniteSetTheorems, WellFoundedInduction, TLAPS

Publishing == {"writing", "written", "directed", "exists", "linked", "entered", "published"}
Stages == Publishing \cup {"idle", "failed", "conflict", "refused", "intact", "rendering",
                           "scanning", "complete"}

ClientRecord ==
    [kind : {"none", "attempt", "repair", "verifier"}, stage : Stages, quote : Nat,
     bytes : Bytes \cup {NoBytes}, temp : {"none", "partial", "synced"},
     cursor : Nat, rows : SUBSET Quotes, full : BOOLEAN,
     checked : SUBSET Quotes, started : SUBSET Quotes, disturbed : BOOLEAN]

Typed ==
    /\ file \in [Keys -> {"absent", "intact", "altered", "truncated", "unreadable"}]
    /\ made \subseteq Tops \cup Inners
    /\ manifest \in [Quotes -> ManifestRecord \cup {NoManifest}]
    /\ client \in [Clients -> ClientRecord]

(* The disk has no entry without its directories.                          *)
DiskHolds ==
    /\ durable \subseteq Entries
    /\ TopsAtStart \subseteq durable
    /\ \A b \in Bytes : file[b] # "absent" => {Top[b], Inner[b]} \subseteq made

(* A verification accounts for what was committed when it began: looked    *)
(* at, at hand, or still before its cursor.                                *)
VerifierHolds(x) ==
    /\ x.started \cup x.rows \subseteq Committed
    /\ \A q \in x.started : q \in x.checked \cup x.rows \/ (x.full /\ x.cursor < q)
    /\ x.stage = "complete" => x.rows = {} /\ ~x.full

(* What a client knows of the disk while nothing damages its address.      *)
ClientHolds(c) ==
    LET x == client[c] IN
    /\ x.stage \in Publishing \cup {"rendering"} => x.quote \in Quotes
    /\ x.stage \in Publishing => x.bytes \in Bytes
    /\ x.stage \in {"written", "directed", "exists"} => x.temp # "partial"
    /\ x.stage = "directed" => {Top[x.bytes], Inner[x.bytes]} \subseteq made
    /\ x.stage \in {"linked", "entered", "published"} /\ ~x.disturbed => file[x.bytes] = "intact"
    /\ x.stage \in {"entered", "published"} /\ ~x.disturbed =>
          {x.bytes, Inner[x.bytes]} \subseteq durable
    /\ x.stage = "rendering" => x.kind = "repair"
    /\ x.kind = "repair" /\ x.stage \in Publishing \cup {"rendering"} => x.quote \in Committed
    /\ x.stage \in {"scanning", "complete"} => VerifierHolds(x)

ClientsHold == \A c \in Clients : ClientHolds(c)

IInv == Typed /\ DiskHolds /\ ClientsHold

-----------------------------------------------------------------------------
(* Sets of document ids.                                                   *)

Below == {p \in Nat \X Nat : p[1] < p[2]}

(* A set of natural numbers has a least one, and a finite one a greatest.  *)
LEMMA Least ==
    ASSUME NEW T, T \subseteq Nat, T # {}
    PROVE  \E x \in T : \A y \in T : x <= y
  <1>1. IsWellFoundedOn(Below, Nat)
    BY NatLessThanWellFounded, Zenon DEF OpToRel, Below
  <1>2. PICK x \in T : \A y \in T : ~(<<y, x>> \in Below)
    BY <1>1, WFMin
  <1>3. \A y \in T : y < x => <<y, x>> \in Below
    BY DEF Below
  <1>4. \A y \in T : ~(y < x)
    BY <1>2, <1>3
  <1> QED BY <1>2, <1>4

LEMMA Greatest ==
    ASSUME NEW T, IsFiniteSet(T), T \subseteq Nat, T # {}
    PROVE  \E x \in T : \A y \in T : y <= x
  <1> DEFINE Lacks(S) == S \subseteq Nat /\ IsFiniteSet(S) /\ S # {}
                         /\ ~\E x \in S : \A y \in S : y <= x
             sizes == {Cardinality(S) : S \in {S \in SUBSET Nat : Lacks(S)}}
  <1> SUFFICES ASSUME Lacks(T) PROVE FALSE
    OBVIOUS
  <1>1. sizes \subseteq Nat /\ sizes # {}
    BY FS_CardinalityType
  <1>2. PICK n \in sizes : \A m \in sizes : n <= m
    <2> HIDE DEF sizes
    <2> QED BY <1>1, Least
  <1>3. PICK S \in SUBSET Nat : Lacks(S) /\ Cardinality(S) = n
    BY <1>2
  <1>4. PICK e \in S : TRUE
    BY <1>3
  <1>5. IsFiniteSet(S \ {e}) /\ Cardinality(S \ {e}) = n - 1 /\ n \in Nat
    BY <1>3, <1>4, FS_RemoveElement, FS_CardinalityType
  <1>6. ~Lacks(S \ {e})
    <2>1. Lacks(S \ {e}) => n - 1 \in sizes
      BY <1>5
    <2> QED BY <1>2, <1>5, <2>1
  <1>7. CASE S \ {e} = {}
    BY <1>3, <1>4, <1>7
  <1>8. CASE S \ {e} # {}
    <2>1. PICK x \in S \ {e} : \A y \in S \ {e} : y <= x
      BY <1>5, <1>6, <1>8
    <2>2. CASE e <= x
      BY <1>3, <2>1, <2>2
    <2>3. CASE ~(e <= x)
      <3>1. \A y \in S : y <= e
        BY <1>4, <2>1, <2>3
      <3> QED BY <1>3, <1>4, <3>1
    <2> QED BY <2>2, <2>3
  <1> QED BY <1>7, <1>8

LEMMA CommittedFinite == IsFiniteSet(Committed) /\ Committed \subseteq Nat
  <1>1. Committed \subseteq Quotes
    BY DEF Committed
  <1> QED BY <1>1, FS_Subset, ConstantsAssumption DEF ConstantsAssumption

(* A batch holds the first documents after the cursor, all of them unless  *)
(* it is full.                                                             *)
LEMMA BatchIsNext ==
    ASSUME NEW after \in Nat, NEW rows, rows = Batch(after)
    PROVE  /\ rows \subseteq Committed
           /\ rows # {} => Last(rows) \in Nat
           /\ rows # {} => \A q \in Committed : after < q => q \in rows \/ Last(rows) < q
           /\ rows = {} => \A q \in Committed : ~(after < q)
           /\ Cardinality(rows) # BatchSize => \A q \in Committed : after < q => q \in rows
  <1> DEFINE later == {q \in Committed : q > after}
             before(q) == {p \in later : p < q}
  <1>0. BatchSize \in Nat \ {0}
    BY ConstantsAssumption DEF ConstantsAssumption
  <1>1. rows = {q \in later : Cardinality(before(q)) < BatchSize}
    BY DEF Batch
  <1>2. later \subseteq Nat /\ (\A p \in later : p \in Nat) /\ IsFiniteSet(later)
    BY CommittedFinite, FS_Subset
  <1> HIDE DEF later
  <1>3. \A q \in later : before(q) \subseteq later
    OBVIOUS
  <1>4. \A q : IsFiniteSet(before(q)) /\ Cardinality(before(q)) \in Nat
    BY <1>2, FS_Subset, FS_CardinalityType
  <1>5. rows \subseteq later /\ IsFiniteSet(rows)
    BY <1>1, <1>2, FS_Subset
  <1>6. ASSUME rows = {} PROVE later = {}
    <2> SUFFICES ASSUME later # {} PROVE FALSE
      OBVIOUS
    <2>1. PICK q \in later : \A p \in later : q <= p
      BY <1>2, Least
    <2>2. before(q) = {}
      <3>1. \A p \in later : ~(p < q)
        BY <1>2, <2>1
      <3> QED BY <3>1
    <2>3. Cardinality(before(q)) = 0
      BY <2>2, FS_EmptySet
    <2> QED BY <1>0, <1>1, <1>6, <2>1, <2>3
  <1>7. ASSUME rows # {}
        PROVE  /\ Last(rows) \in rows /\ Last(rows) \in Nat
               /\ \A q \in later : q \in rows \/ Last(rows) < q
               /\ Cardinality(rows) # BatchSize => later \subseteq rows
    <2>1. Last(rows) \in rows /\ \A p \in rows : p <= Last(rows)
      <3>1. \E q \in rows : \A p \in rows : p <= q
        BY <1>2, <1>5, <1>7, Greatest
      <3> QED BY <3>1 DEF Last
    <2>2. PICK last \in rows : last = Last(rows) /\ \A p \in rows : p <= last
      BY <2>1
    <2>3. last \in Nat
      BY <1>2, <1>5
    <2>4. ASSUME NEW q \in later, ~(last < q) PROVE q \in rows
      <3>0. \A p \in later : p < q => p < last
        BY <1>2, <2>3, <2>4
      <3>1. before(q) \subseteq before(last)
        BY <3>0
      <3>2. Cardinality(before(q)) <= Cardinality(before(last))
        BY <1>4, <3>1, FS_Subset
      <3>3. Cardinality(before(last)) < BatchSize
        BY <1>1, <2>2
      <3>4. Cardinality(before(q)) < BatchSize
        <4> HIDE DEF before
        <4> QED BY <1>0, <1>4, <3>2, <3>3
      <3> QED BY <1>1, <2>4, <3>4
    <2>5. ASSUME Cardinality(rows) # BatchSize PROVE later \subseteq rows
      <3> SUFFICES ASSUME later \ rows # {} PROVE FALSE
        OBVIOUS
      <3>1. PICK q \in later \ rows : \A p \in later \ rows : q <= p
        <4>1. later \ rows \subseteq Nat
          BY <1>2
        <4> QED BY <4>1, Least
      <3>2. before(q) = rows
        <4>1. last < q
          BY <2>4, <3>1
        <4>2. \A p \in rows : p < q /\ p \in later
          BY <1>2, <1>5, <2>2, <2>3, <3>1, <4>1
        <4>3. \A p \in later : p < q => p \in rows
          BY <1>2, <3>1
        <4> QED BY <4>2, <4>3
      <3>3. BatchSize <= Cardinality(rows)
        <4>1. ~(Cardinality(before(q)) < BatchSize)
          BY <1>1, <3>1
        <4> QED BY <1>0, <1>4, <3>2, <4>1
      <3>4. Cardinality(rows) <= BatchSize
        <4>0. \A p \in rows \ {last} : p \in later /\ p < last
          BY <1>2, <1>5, <2>2, <2>3
        <4>1. rows \ {last} \subseteq before(last)
          BY <4>0
        <4>2. Cardinality(rows \ {last}) <= Cardinality(before(last))
          BY <1>4, <4>1, FS_Subset
        <4>3. Cardinality(rows \ {last}) = Cardinality(rows) - 1 /\ Cardinality(rows) \in Nat
          BY <1>5, <2>2, FS_RemoveElement, FS_CardinalityType
        <4>4. Cardinality(before(last)) < BatchSize /\ Cardinality(before(last)) \in Nat
          BY <1>1, <1>4, <2>2
        <4> HIDE DEF before
        <4> QED BY <1>0, <4>2, <4>3, <4>4
      <3>5. Cardinality(rows) \in Nat
        BY <1>5, FS_CardinalityType
      <3> QED BY <1>0, <2>5, <3>3, <3>4, <3>5
    <2> QED BY <2>2, <2>3, <2>4, <2>5
  <1>8. \A q \in Committed : after < q <=> q \in later
    BY CommittedFinite DEF later
  <1>9. Cardinality({}) = 0
    BY FS_EmptySet
  <1>10. rows \subseteq Committed
    BY <1>5 DEF later
  <1> QED BY <1>1, <1>6, <1>7, <1>8, <1>9, <1>10

-----------------------------------------------------------------------------
(* What the clients do to the disk and to the manifests.                   *)

ClientActs(c) == Publish(c) \/ Repair(c) \/ Verify(c) \/ EndClient(c)

(* Clients add to the disk, and never change what is there.                *)
DiskGrows ==
    /\ made \subseteq made' /\ durable \subseteq durable'
    /\ \A k \in Keys : file[k] # "absent" => file'[k] = file[k]

(* A manifest stays, and names what it named.                              *)
ManifestsStay ==
    \A q \in Committed :
        /\ q \in Committed'
        /\ manifest'[q].key = manifest[q].key /\ manifest'[q].bytes = manifest[q].bytes
        /\ manifest'[q].legacy = manifest[q].legacy

LEMMA KeysFacts ==
    /\ \A b \in Bytes : b \in Keys /\ Top[b] \in Tops /\ Inner[b] \in Inners
    /\ Tops \cap Inners = {} /\ Tops \cap Keys = {} /\ Inners \cap Keys = {}
    /\ TopsAtStart \subseteq Tops
    /\ LegacyKey \in Keys /\ LegacyKey \notin Bytes
  BY ConstantsAssumption DEF ConstantsAssumption, Keys, Tops, Inners

LEMMA EntriesGrow ==
    ASSUME made \subseteq made', \A k \in Keys : file[k] # "absent" => file'[k] = file[k]
    PROVE  Entries \subseteq Entries'
  BY DEF Entries, Keys

LEMMA DiskStep ==
    ASSUME IInv, NEW c \in Clients, ClientActs(c)
    PROVE  /\ DiskGrows /\ DiskHolds'
           /\ file' \in [Keys -> {"absent", "intact", "altered", "truncated", "unreadable"}]
           /\ made' \subseteq Tops \cup Inners
  <1> DEFINE b == client[c].bytes
  <1>1. CASE UNCHANGED disk
    BY <1>1 DEF IInv, Typed, DiskHolds, DiskGrows, Entries, Keys, disk
  <1>2. CASE MakeDirectories(c)
    <2>1. b \in Bytes
      BY <1>2 DEF IInv, ClientsHold, ClientHolds, MakeDirectories, At, Publishing
    <2>2. made' = made \cup {Top[b], Inner[b]} /\ UNCHANGED <<file, durable>>
      BY <1>2 DEF MakeDirectories
    <2>3. Entries \subseteq Entries'
      BY <2>2, EntriesGrow
    <2> QED BY <2>1, <2>2, <2>3, KeysFacts DEF IInv, Typed, DiskHolds, DiskGrows
  <1>3. CASE Link(c)
    <2>1. /\ b \in Bytes /\ client[c].temp = "synced" /\ {Top[b], Inner[b]} \subseteq made
      BY <1>3
      DEF IInv, Typed, ClientsHold, ClientHolds, ClientRecord, Link, At, Publishing
    <2>2. /\ file[b] = "absent" /\ file' = [file EXCEPT ![b] = "intact"]
          /\ UNCHANGED <<made, durable>>
      BY <1>3, <2>1 DEF Link
    <2>3. \A k \in Keys : file[k] # "absent" => file'[k] = file[k]
      BY <2>2 DEF IInv, Typed
    <2>4. Entries \subseteq Entries'
      BY <2>2, <2>3, EntriesGrow
    <2> HIDE DEF b
    <2>5. \A k \in Bytes : file'[k] # "absent" => k = b \/ file[k] # "absent"
      BY <2>2, KeysFacts DEF IInv, Typed
    <2> QED BY <2>1, <2>2, <2>3, <2>4, <2>5 DEF IInv, Typed, DiskHolds, DiskGrows
  <1>4. CASE SyncDirectories(c)
    <2>1. /\ durable \subseteq durable' /\ UNCHANGED <<made, file>>
          /\ durable' \subseteq durable \cup {k \in Bytes : file[k] # "absent"} \cup made
      BY <1>4 DEF SyncDirectories
    <2>2. durable' \subseteq Entries
      BY <2>1, KeysFacts DEF Entries, IInv, DiskHolds
    <2>3. Entries' = Entries
      BY <2>1 DEF Entries, Keys
    <2> QED BY <2>1, <2>2, <2>3 DEF IInv, Typed, DiskHolds, DiskGrows
  <1>5. \/ UNCHANGED disk \/ MakeDirectories(c) \/ Link(c) \/ SyncDirectories(c)
    BY DEF ClientActs, Publish, Repair, Verify, EndClient, PublishRendered, WriteDurably,
           LinkFindsFile, LinkFindsNoTemp, CompareExisting, VerifyPublished, CallFails, SweepTemp,
           CommitManifest, BeginRepair, RepairEnds, PublishCandidate, VerifyRepair,
           BeginVerification, FetchBatch, CheckRow, EndVerification, disk
  <1> QED BY <1>1, <1>2, <1>3, <1>4, <1>5

LEMMA FirstOfRows ==
    ASSUME NEW rows, rows \subseteq Nat, rows # {}
    PROVE  First(rows) \in rows
  <1>1. \E q \in rows : \A p \in rows : q <= p
    BY Least
  <1> QED BY <1>1 DEF First

(* The document a verification looks at.                                   *)
LEMMA RowAtHand ==
    ASSUME IInv, NEW c \in Clients, At(c, "scanning"), client[c].rows # {}
    PROVE  /\ First(client[c].rows) \in client[c].rows
           /\ First(client[c].rows) \in Committed
  <1>1. client[c].rows \subseteq Committed
    BY DEF IInv, ClientsHold, ClientHolds, VerifierHolds, At
  <1>2. client[c].rows \subseteq Nat
    BY <1>1, CommittedFinite
  <1> QED BY <1>1, <1>2, FirstOfRows

LEMMA ManifestStep ==
    ASSUME IInv, NEW c \in Clients, ClientActs(c)
    PROVE  ManifestsStay /\ manifest' \in [Quotes -> ManifestRecord \cup {NoManifest}]
  <1>0. NoManifest \notin ManifestRecord /\ manifest \in [Quotes -> ManifestRecord \cup {NoManifest}]
    BY ConstantsAssumption DEF ConstantsAssumption, IInv, Typed
  <1>1. CASE UNCHANGED manifest
    BY <1>0, <1>1 DEF ManifestsStay, Committed
  <1>2. CASE CommitManifest(c)
    <2>1. PICK q \in Quotes, b \in Bytes : q = client[c].quote /\ b = client[c].bytes
      BY <1>2 DEF IInv, ClientsHold, ClientHolds, CommitManifest, At, Publishing
    <2>2. IssuedManifest(b) \in ManifestRecord
      BY KeysFacts DEF IssuedManifest, ManifestRecord
    <2>3. manifest' = IF manifest[q] = NoManifest
                      THEN [manifest EXCEPT ![q] = IssuedManifest(b)] ELSE manifest
      BY <1>2, <2>1 DEF CommitManifest
    <2> QED BY <1>0, <2>2, <2>3 DEF ManifestsStay, Committed
  <1>3. CASE CheckRow(c)
    <2>1. PICK q \in Committed : q = First(client[c].rows)
      BY <1>3, RowAtHand DEF CheckRow
    <2>2. manifest' \in {manifest, [manifest EXCEPT ![q].length = TRUE]}
      BY <1>3, <2>1 DEF CheckRow
    <2>3. q \in Quotes /\ manifest[q] \in ManifestRecord
      BY <1>0 DEF Committed
    <2>4. [manifest[q] EXCEPT !.length = TRUE] \in ManifestRecord
      BY <2>3 DEF ManifestRecord
    <2>5. CASE manifest' = manifest
      BY <1>0, <2>5 DEF ManifestsStay, Committed
    <2>6. CASE manifest' = [manifest EXCEPT ![q] = [manifest[q] EXCEPT !.length = TRUE]]
      <3>1. /\ manifest'[q] = [manifest[q] EXCEPT !.length = TRUE]
            /\ \A p \in Quotes \ {q} : manifest'[p] = manifest[p]
            /\ manifest' \in [Quotes -> ManifestRecord \cup {NoManifest}]
        BY <1>0, <2>3, <2>4, <2>6
      <3>2. /\ manifest'[q].key = manifest[q].key /\ manifest'[q].bytes = manifest[q].bytes
            /\ manifest'[q].legacy = manifest[q].legacy
        BY <2>3, <3>1 DEF ManifestRecord
      <3>3. manifest'[q] # NoManifest
        BY <1>0, <2>4, <3>1
      <3> QED BY <3>1, <3>2, <3>3 DEF ManifestsStay, Committed
    <2> QED BY <2>2, <2>5, <2>6
  <1>4. \/ UNCHANGED manifest \/ CommitManifest(c) \/ CheckRow(c)
    BY DEF ClientActs, Publish, Repair, Verify, EndClient, PublishRendered, WriteDurably,
           MakeDirectories, Link, LinkFindsFile, LinkFindsNoTemp, CompareExisting, SyncDirectories,
           VerifyPublished, CallFails, SweepTemp, BeginRepair, RepairEnds, PublishCandidate,
           VerifyRepair, BeginVerification, FetchBatch, EndVerification
  <1> QED BY <1>1, <1>2, <1>3, <1>4

-----------------------------------------------------------------------------
(* What the clients know.                                                  *)

LEMMA Becomes ==
    ASSUME IInv, NEW c \in Clients, NEW next \in ClientRecord, Become(c, next)
    PROVE  /\ client' \in [Clients -> ClientRecord]
           /\ client'[c] = next
           /\ \A d \in Clients \ {c} : client'[d] = client[d]
  BY DEF IInv, Typed, Become

(* Another client knows what it knew.                                      *)
LEMMA OthersKnow ==
    ASSUME IInv, DiskGrows, ManifestsStay, NEW d \in Clients, client'[d] = client[d]
    PROVE  ClientHolds(d)'
  <1>1. ClientHolds(d)
    BY DEF IInv, ClientsHold
  <1>2. \A b \in Bytes : file[b] = "intact" => file'[b] = "intact"
    BY KeysFacts DEF DiskGrows
  <1>3. Committed \subseteq Committed'
    BY DEF ManifestsStay
  <1>4. VerifierHolds(client[d]) => VerifierHolds(client[d])'
    BY <1>3 DEF VerifierHolds
  <1>5. made \subseteq made' /\ durable \subseteq durable'
    BY DEF DiskGrows
  <1> QED BY <1>1, <1>2, <1>3, <1>4, <1>5 DEF ClientHolds, VerifierHolds, Publishing

(* A client that has its answer counts on nothing.                         *)
LEMMA AnsweredKnows ==
    ASSUME NEW c \in Clients,
           client'[c].stage \in {"idle", "failed", "conflict", "refused", "intact"}
    PROVE  ClientHolds(c)'
  BY DEF ClientHolds, Publishing

(* A publication goes on.                                                  *)
LEMMA GoesOn ==
    ASSUME IInv, ManifestsStay, NEW c \in Clients, client[c].stage \in Publishing,
           NEW s \in Publishing, NEW t \in {"none", "partial", "synced"},
           client'[c] = [client[c] EXCEPT !.stage = s, !.temp = t],
           s \in {"written", "directed", "exists"} => t # "partial",
           s = "directed" => {Top[client[c].bytes], Inner[client[c].bytes]} \subseteq made',
           s \in {"linked", "entered", "published"} /\ ~client[c].disturbed =>
              file'[client[c].bytes] = "intact",
           s \in {"entered", "published"} /\ ~client[c].disturbed =>
              {client[c].bytes, Inner[client[c].bytes]} \subseteq durable'
    PROVE  ClientHolds(c)'
  <1>1. client[c] \in ClientRecord /\ ClientHolds(c)
    BY DEF IInv, Typed, ClientsHold
  <1>2. /\ client'[c].stage = s /\ client'[c].temp = t /\ client'[c].bytes = client[c].bytes
        /\ client'[c].quote = client[c].quote /\ client'[c].kind = client[c].kind
        /\ client'[c].disturbed = client[c].disturbed
    BY <1>1 DEF ClientRecord
  <1>3. client[c].quote \in Quotes /\ client[c].bytes \in Bytes
        /\ (client[c].kind = "repair" => client[c].quote \in Committed')
    BY <1>1 DEF ClientHolds, ManifestsStay
  <1>4. s \notin {"rendering", "scanning", "complete"}
    BY DEF Publishing
  <1> QED BY <1>2, <1>3, <1>4 DEF ClientHolds

LEMMA IdleType == IdleClient \in ClientRecord
  BY DEF IdleClient, ClientRecord, Stages, Publishing

(* A publication begins.                                                   *)
LEMMA StartsKnowing ==
    ASSUME IInv, NEW c \in Clients, NEW kind \in {"attempt", "repair"},
           NEW q \in Quotes, NEW b \in Bytes, StartsPublishing(c, kind, q, b),
           kind = "repair" => q \in Committed'
    PROVE  /\ client' \in [Clients -> ClientRecord]
           /\ \A d \in Clients \ {c} : client'[d] = client[d]
           /\ ClientHolds(c)'
  <1> DEFINE next == [IdleClient EXCEPT !.kind = kind, !.stage = "writing", !.quote = q,
                                        !.bytes = b, !.temp = "partial"]
  <1>1. q \in Nat
    BY ConstantsAssumption DEF ConstantsAssumption
  <1>2. next \in ClientRecord /\ next.stage = "writing" /\ next.quote = q /\ next.bytes = b
        /\ next.kind = kind
    BY <1>1, IdleType DEF ClientRecord, Stages, Publishing
  <1>3. Become(c, next)
    BY DEF StartsPublishing
  <1> HIDE DEF next
  <1>4. /\ client' \in [Clients -> ClientRecord] /\ client'[c] = next
        /\ \A d \in Clients \ {c} : client'[d] = client[d]
    BY <1>2, <1>3, Becomes
  <1> QED BY <1>2, <1>4 DEF ClientHolds, Publishing

LEMMA PublishStep ==
    ASSUME IInv, NEW c \in Clients, Publish(c)
    PROVE  /\ client' \in [Clients -> ClientRecord]
           /\ \A d \in Clients \ {c} : client'[d] = client[d]
           /\ ClientHolds(c)'
  <1> DEFINE x == client[c]
             Goal == /\ client' \in [Clients -> ClientRecord]
                     /\ \A d \in Clients \ {c} : client'[d] = client[d]
                     /\ ClientHolds(c)'
  <1>0. x \in ClientRecord /\ ClientHolds(c) /\ ManifestsStay /\ DiskGrows /\ DiskHolds
    BY DiskStep, ManifestStep DEF ClientActs, IInv, Typed, ClientsHold
  <1>1. ASSUME NEW s \in Publishing, NEW t \in {"none", "partial", "synced"}, x.stage \in Publishing,
               Become(c, [client[c] EXCEPT !.stage = s, !.temp = t]),
               s \in {"written", "directed", "exists"} => t # "partial",
               s = "directed" => {Top[client[c].bytes], Inner[client[c].bytes]} \subseteq made',
               s \in {"linked", "entered", "published"} /\ ~client[c].disturbed =>
                  file'[client[c].bytes] = "intact",
               s \in {"entered", "published"} /\ ~client[c].disturbed =>
                  {client[c].bytes, Inner[client[c].bytes]} \subseteq durable'
        PROVE  Goal
    <2> DEFINE next == [client[c] EXCEPT !.stage = s, !.temp = t]
    <2>1. next \in ClientRecord
      BY <1>0, <1>1 DEF ClientRecord, Stages, Publishing
    <2> HIDE DEF next
    <2>2. /\ client' \in [Clients -> ClientRecord] /\ client'[c] = next
          /\ \A d \in Clients \ {c} : client'[d] = client[d]
      BY <1>1, <2>1, Becomes DEF next
    <2>3. ClientHolds(c)'
      BY <1>0, <1>1, <2>2, GoesOn DEF next
    <2> QED BY <2>2, <2>3
  <1>2. ASSUME NEW s \in {"failed", "conflict"}, NEW t \in {"none", "partial", "synced"},
               Become(c, [client[c] EXCEPT !.stage = s, !.temp = t])
        PROVE  Goal
    <2> DEFINE next == [client[c] EXCEPT !.stage = s, !.temp = t]
    <2>1. next \in ClientRecord /\ next.stage = s
      BY <1>0, <1>2 DEF ClientRecord, Stages, Publishing
    <2> HIDE DEF next
    <2>2. /\ client' \in [Clients -> ClientRecord] /\ client'[c] = next
          /\ \A d \in Clients \ {c} : client'[d] = client[d]
      BY <1>2, <2>1, Becomes DEF next
    <2> QED BY <2>1, <2>2, AnsweredKnows
  <1>3. /\ x.temp \in {"none", "partial", "synced"}
        /\ \A s : [client[c] EXCEPT !.stage = s] = [client[c] EXCEPT !.stage = s, !.temp = x.temp]
        /\ \A t : [client[c] EXCEPT !.temp = t] = [client[c] EXCEPT !.stage = x.stage, !.temp = t]
    BY <1>0 DEF ClientRecord
  <1>4. x.stage \in Publishing => x.bytes \in Bytes /\ x.bytes \in Keys
    BY <1>0, KeysFacts DEF ClientHolds
  <1>5. x.stage \in Publishing /\ file[x.bytes] = "intact" => file'[x.bytes] = "intact"
    BY <1>0, <1>4 DEF DiskGrows
  <1>6. ASSUME NEW q \in Quotes, NEW b \in Bytes, PublishRendered(c, q, b) PROVE Goal
    BY <1>6, StartsKnowing DEF PublishRendered
  <1>7. CASE WriteDurably(c)
    <2> DEFINE t == IF x.temp = "none" THEN "none" ELSE "synced"
    <2>1. x.stage = "writing" /\ Become(c, [client[c] EXCEPT !.stage = "written", !.temp = t])
      BY <1>7 DEF WriteDurably, At
    <2>2. t \in {"none", "synced"}
      OBVIOUS
    <2> HIDE DEF t
    <2> QED BY <1>1, <2>1, <2>2 DEF Publishing
  <1>8. CASE MakeDirectories(c)
    <2>1. /\ x.stage = "written" /\ x.temp # "partial"
          /\ Become(c, [client[c] EXCEPT !.stage = "directed", !.temp = x.temp])
          /\ {Top[x.bytes], Inner[x.bytes]} \subseteq made'
      BY <1>0, <1>3, <1>8 DEF MakeDirectories, At, Goes, ClientHolds
    <2> QED BY <1>1, <1>3, <2>1 DEF Publishing
  <1>9. CASE Link(c)
    <2>1. /\ x.stage = "directed" /\ x.temp = "synced"
          /\ Become(c, [client[c] EXCEPT !.stage = "linked", !.temp = "none"])
      BY <1>0, <1>3, <1>9 DEF Link, At, ClientHolds
    <2>2. file'[x.bytes] = "intact"
      BY <1>4, <1>9, <2>1 DEF Link, Publishing, IInv, Typed
    <2> QED BY <1>1, <2>1, <2>2 DEF Publishing
  <1>10. CASE LinkFindsFile(c)
    <2>1. /\ x.stage = "directed" /\ x.temp # "partial"
          /\ Become(c, [client[c] EXCEPT !.stage = "exists", !.temp = x.temp])
      BY <1>0, <1>3, <1>10 DEF LinkFindsFile, At, Goes, ClientHolds
    <2> QED BY <1>1, <1>3, <2>1 DEF Publishing
  <1>11. CASE LinkFindsNoTemp(c)
    <2>1. Become(c, [client[c] EXCEPT !.stage = "failed", !.temp = x.temp])
      BY <1>3, <1>11 DEF LinkFindsNoTemp, Goes
    <2> QED BY <1>2, <1>3, <2>1
  <1>12. CASE CompareExisting(c)
    <2> DEFINE s == AfterReading(x.bytes, "linked")
    <2>1. x.stage = "exists" /\ Become(c, [client[c] EXCEPT !.stage = s, !.temp = "none"])
      <3>1. [client[c] EXCEPT !.temp = "none", !.stage = s] = [client[c] EXCEPT !.stage = s, !.temp = "none"]
        BY <1>0 DEF ClientRecord
      <3> QED BY <1>12, <3>1 DEF CompareExisting, At
    <2>2. s \in {"failed", "conflict"} \/ (s = "linked" /\ file[x.bytes] = "intact")
      <3>1. file[x.bytes] # "cached"
        BY <1>4, <2>1 DEF Publishing, IInv, Typed
      <3> QED BY <3>1 DEF AfterReading, Holds
    <2> HIDE DEF s
    <2>3. CASE s = "linked" /\ file[x.bytes] = "intact"
      BY <1>1, <1>5, <2>1, <2>3 DEF Publishing
    <2> QED BY <1>2, <2>1, <2>2, <2>3
  <1>13. CASE SyncDirectories(c)
    <2>1. /\ x.stage = "linked"
          /\ Become(c, [client[c] EXCEPT !.stage = "entered", !.temp = x.temp])
      BY <1>3, <1>13 DEF SyncDirectories, At, Goes
    <2>2. ~x.disturbed => file[x.bytes] = "intact"
      BY <1>0, <2>1 DEF ClientHolds
    <2>3. file[x.bytes] # "absent" => {x.bytes, Inner[x.bytes]} \subseteq durable'
      <3>1. x.bytes \in Bytes
        BY <1>4, <2>1 DEF Publishing
      <3>2. file[x.bytes] # "absent" => Inner[x.bytes] \in made
        BY <1>0, <3>1 DEF DiskHolds
      <3> QED BY <1>13, <3>1, <3>2 DEF SyncDirectories
    <2> QED BY <1>1, <1>3, <1>5, <2>1, <2>2, <2>3 DEF Publishing
  <1>14. CASE VerifyPublished(c)
    <2> DEFINE s == AfterReading(x.bytes, "published")
    <2>1. x.stage = "entered" /\ Become(c, [client[c] EXCEPT !.stage = s, !.temp = x.temp])
      BY <1>3, <1>14 DEF VerifyPublished, At, Goes
    <2>2. s \in {"failed", "conflict", "published"}
      BY DEF AfterReading
    <2>3. ~x.disturbed => file[x.bytes] = "intact" /\ {x.bytes, Inner[x.bytes]} \subseteq durable'
      BY <1>0, <2>1 DEF ClientHolds, DiskGrows
    <2> HIDE DEF s
    <2>4. CASE s = "published"
      BY <1>1, <1>3, <1>5, <2>1, <2>3, <2>4 DEF Publishing
    <2> QED BY <1>2, <1>3, <2>1, <2>2, <2>4
  <1>15. CASE CallFails(c)
    BY <1>2, <1>15 DEF CallFails
  <1>16. CASE SweepTemp(c)
    <2>1. Become(c, [client[c] EXCEPT !.stage = x.stage, !.temp = "none"])
      BY <1>3, <1>16 DEF SweepTemp
    <2>2. CASE x.stage \in Publishing
      <3>1. /\ x.stage = "directed" => {Top[x.bytes], Inner[x.bytes]} \subseteq made'
            /\ x.stage \in {"linked", "entered", "published"} /\ ~x.disturbed =>
                  file'[x.bytes] = "intact"
            /\ x.stage \in {"entered", "published"} /\ ~x.disturbed =>
                  {x.bytes, Inner[x.bytes]} \subseteq durable'
        BY <1>0, <1>5, <2>2 DEF ClientHolds, DiskGrows
      <3> QED BY <1>1, <2>1, <2>2, <3>1
    <2>3. CASE x.stage \notin Publishing
      <3> DEFINE next == [client[c] EXCEPT !.stage = x.stage, !.temp = "none"]
      <3>1. /\ next \in ClientRecord /\ next.stage = x.stage /\ next.quote = x.quote
            /\ next.kind = x.kind /\ next.started = x.started /\ next.rows = x.rows
            /\ next.checked = x.checked /\ next.full = x.full /\ next.cursor = x.cursor
        BY <1>0 DEF ClientRecord
      <3> HIDE DEF next
      <3>2. /\ client' \in [Clients -> ClientRecord] /\ client'[c] = next
            /\ \A d \in Clients \ {c} : client'[d] = client[d]
        BY <2>1, <3>1, Becomes DEF next
      <3>3. Committed \subseteq Committed'
        BY <1>0 DEF ManifestsStay
      <3>4. VerifierHolds(x) => VerifierHolds(client[c])'
        BY <3>1, <3>2, <3>3 DEF VerifierHolds
      <3>5. ClientHolds(c)'
        BY <1>0, <2>3, <3>1, <3>2, <3>3, <3>4 DEF ClientHolds, Publishing
      <3> QED BY <3>2, <3>5
    <2> QED BY <2>2, <2>3
  <1>17. CASE CommitManifest(c)
    <2>1. client' \in [Clients -> ClientRecord] /\ client'[c] = IdleClient
          /\ \A d \in Clients \ {c} : client'[d] = client[d]
      BY <1>17, IdleType, Becomes DEF CommitManifest
    <2>2. client'[c].stage = "idle"
      BY <2>1 DEF IdleClient
    <2> QED BY <2>1, <2>2, AnsweredKnows
  <1> QED BY <1>6, <1>7, <1>8, <1>9, <1>10, <1>11, <1>12, <1>13, <1>14, <1>15, <1>16, <1>17 DEF Publish

LEMMA RepairStep ==
    ASSUME IInv, NEW c \in Clients, Repair(c)
    PROVE  /\ client' \in [Clients -> ClientRecord]
           /\ \A d \in Clients \ {c} : client'[d] = client[d]
           /\ ClientHolds(c)'
  <1> DEFINE x == client[c]
             Goal == /\ client' \in [Clients -> ClientRecord]
                     /\ \A d \in Clients \ {c} : client'[d] = client[d]
                     /\ ClientHolds(c)'
  <1>0. x \in ClientRecord /\ ClientHolds(c) /\ Committed' = Committed
    BY DEF IInv, Typed, ClientsHold, Committed, Repair, BeginRepair, RepairEnds, PublishCandidate,
           VerifyRepair
  <1>1. ASSUME NEW s \in {"refused", "intact"}, Goes(c, s) PROVE Goal
    <2> DEFINE next == [client[c] EXCEPT !.stage = s]
    <2>1. next \in ClientRecord /\ next.stage = s
      BY <1>0, <1>1 DEF ClientRecord, Stages
    <2> HIDE DEF next
    <2>2. /\ client' \in [Clients -> ClientRecord] /\ client'[c] = next
          /\ \A d \in Clients \ {c} : client'[d] = client[d]
      BY <1>1, <2>1, Becomes DEF next, Goes
    <2> QED BY <2>1, <2>2, AnsweredKnows
  <1>2. ASSUME NEW q \in Quotes, BeginRepair(c, q) PROVE Goal
    <2>1. PICK s \in {"refused", "intact", "rendering"} :
             /\ Become(c, [IdleClient EXCEPT !.kind = "repair", !.quote = q, !.stage = s])
             /\ s = "rendering" => q \in Committed
      <3>1. Become(c, [IdleClient EXCEPT !.kind = "repair", !.quote = q, !.stage =
               IF manifest[q] = NoManifest \/ manifest[q].legacy THEN "refused"
               ELSE IF ReadStatus(manifest[q]) = "OK" THEN "intact" ELSE "rendering"])
        BY <1>2 DEF BeginRepair
      <3>2. CASE manifest[q] = NoManifest \/ manifest[q].legacy
        BY <3>1, <3>2
      <3>3. CASE ~(manifest[q] = NoManifest \/ manifest[q].legacy) /\ ReadStatus(manifest[q]) = "OK"
        BY <3>1, <3>3
      <3>4. CASE ~(manifest[q] = NoManifest \/ manifest[q].legacy) /\ ReadStatus(manifest[q]) # "OK"
        BY <3>1, <3>4 DEF Committed
      <3> QED BY <3>2, <3>3, <3>4
    <2> DEFINE next == [IdleClient EXCEPT !.kind = "repair", !.quote = q, !.stage = s]
    <2>2. q \in Nat
      BY ConstantsAssumption DEF ConstantsAssumption
    <2>3. next \in ClientRecord /\ next.stage = s /\ next.kind = "repair" /\ next.quote = q
      BY <2>2, IdleType DEF ClientRecord, Stages
    <2> HIDE DEF next
    <2>4. /\ client' \in [Clients -> ClientRecord] /\ client'[c] = next
          /\ \A d \in Clients \ {c} : client'[d] = client[d]
      BY <2>1, <2>3, Becomes DEF next
    <2>5. ClientHolds(c)'
      BY <1>0, <2>1, <2>3, <2>4 DEF ClientHolds, Publishing
    <2> QED BY <2>4, <2>5
  <1>3. CASE RepairEnds(c)
    BY <1>1, <1>3 DEF RepairEnds
  <1>4. ASSUME NEW b \in Bytes, PublishCandidate(c, b) PROVE Goal
    <2>1. x.quote \in Quotes /\ x.quote \in Committed'
      BY <1>0, <1>4 DEF PublishCandidate, At, ClientHolds, Publishing
    <2>2. CASE b = manifest[x.quote].bytes
      BY <1>4, <2>1, <2>2, StartsKnowing DEF PublishCandidate
    <2>3. CASE b # manifest[x.quote].bytes
      BY <1>1, <1>4, <2>3 DEF PublishCandidate
    <2> QED BY <2>2, <2>3
  <1>5. CASE VerifyRepair(c)
    BY <1>1, <1>5 DEF VerifyRepair
  <1> QED BY <1>2, <1>3, <1>4, <1>5 DEF Repair

LEMMA VerifyStep ==
    ASSUME IInv, NEW c \in Clients, Verify(c)
    PROVE  /\ client' \in [Clients -> ClientRecord]
           /\ \A d \in Clients \ {c} : client'[d] = client[d]
           /\ ClientHolds(c)'
  <1> DEFINE x == client[c]
             Goal == /\ client' \in [Clients -> ClientRecord]
                     /\ \A d \in Clients \ {c} : client'[d] = client[d]
                     /\ ClientHolds(c)'
  <1>0. /\ x \in ClientRecord /\ ManifestsStay
        /\ x.stage = "scanning" => VerifierHolds(x)
    BY ManifestStep DEF ClientActs, IInv, Typed, ClientsHold, ClientHolds
  <1>1. Committed \subseteq Committed' /\ Committed \subseteq Quotes
    BY <1>0 DEF ManifestsStay, Committed
  <1>2. ASSUME NEW next \in ClientRecord, Become(c, next), next.stage \in {"scanning", "complete"},
               VerifierHolds(next)
        PROVE  Goal
    <2>1. /\ client' \in [Clients -> ClientRecord] /\ client'[c] = next
          /\ \A d \in Clients \ {c} : client'[d] = client[d]
      BY <1>2, Becomes
    <2>2. VerifierHolds(client[c])'
      BY <1>1, <1>2, <2>1 DEF VerifierHolds
    <2>3. ClientHolds(c)'
      BY <1>2, <2>1, <2>2 DEF ClientHolds, Publishing
    <2> QED BY <2>1, <2>3
  <1>3. CASE BeginVerification(c)
    <2> DEFINE next == [IdleClient EXCEPT !.kind = "verifier", !.stage = "scanning",
                                          !.started = Committed]
    <2>1. /\ next \in ClientRecord /\ next.stage = "scanning" /\ next.started = Committed
          /\ next.rows = {} /\ next.full /\ next.cursor = 0
      BY <1>1, IdleType DEF IdleClient, ClientRecord, Stages
    <2>2. Become(c, next)
      BY <1>3 DEF BeginVerification
    <2> HIDE DEF next
    <2>3. \A q \in Committed : 0 < q
      BY <1>1, ConstantsAssumption DEF ConstantsAssumption
    <2>4. VerifierHolds(next)
      BY <2>1, <2>3 DEF VerifierHolds
    <2> QED BY <1>2, <2>1, <2>2, <2>4
  <1>4. CASE FetchBatch(c)
    <2>1. PICK rows : rows = Batch(x.cursor)
      OBVIOUS
    <2> DEFINE cursor == IF rows = {} THEN x.cursor ELSE Last(rows)
               full == (Cardinality(rows) = BatchSize)
               next == [client[c] EXCEPT !.rows = rows, !.full = full, !.cursor = cursor]
    <2>2. x.stage = "scanning" /\ x.rows = {} /\ x.full /\ Become(c, next)
      BY <1>4, <2>1 DEF FetchBatch, At
    <2>3. x.cursor \in Nat
      BY <1>0 DEF ClientRecord
    <2>4. /\ rows \subseteq Committed
          /\ rows # {} => Last(rows) \in Nat
          /\ rows # {} => \A q \in Committed : x.cursor < q => q \in rows \/ Last(rows) < q
          /\ rows = {} => \A q \in Committed : ~(x.cursor < q)
          /\ Cardinality(rows) # BatchSize => \A q \in Committed : x.cursor < q => q \in rows
      BY <2>1, <2>3, BatchIsNext
    <2>5. cursor \in Nat /\ full \in BOOLEAN
      BY <2>3, <2>4
    <2>6. \A q \in Committed : x.cursor < q => q \in rows \/ (full /\ cursor < q)
      BY <2>4
    <2> HIDE DEF cursor, full
    <2>7. /\ next \in ClientRecord /\ next.stage = "scanning" /\ next.started = x.started
          /\ next.rows = rows /\ next.full = full /\ next.cursor = cursor
          /\ next.checked = x.checked
      BY <1>0, <1>1, <2>2, <2>4, <2>5 DEF ClientRecord
    <2> HIDE DEF next
    <2>8. x.started \subseteq Committed /\ \A q \in x.started : q \in x.checked \/ x.cursor < q
      BY <1>0, <2>2 DEF VerifierHolds
    <2>9. VerifierHolds(next)
      BY <2>4, <2>6, <2>7, <2>8 DEF VerifierHolds
    <2> QED BY <1>2, <2>2, <2>7, <2>9
  <1>5. CASE CheckRow(c)
    <2>1. PICK q \in x.rows : q = First(x.rows) /\ q \in Committed
      BY <1>5, RowAtHand DEF CheckRow
    <2> DEFINE next == [client[c] EXCEPT !.rows = x.rows \ {q}, !.checked = x.checked \cup {q}]
    <2>2. x.stage = "scanning" /\ Become(c, next)
      BY <1>5, <2>1 DEF CheckRow, At
    <2>3. /\ next \in ClientRecord /\ next.stage = "scanning" /\ next.started = x.started
          /\ next.rows = x.rows \ {q} /\ next.full = x.full /\ next.cursor = x.cursor
          /\ next.checked = x.checked \cup {q}
      BY <1>0, <1>1, <2>1, <2>2 DEF ClientRecord
    <2> HIDE DEF next
    <2>4. VerifierHolds(next)
      BY <1>0, <2>2, <2>3 DEF VerifierHolds
    <2> QED BY <1>2, <2>2, <2>3, <2>4
  <1>6. CASE EndVerification(c)
    <2> DEFINE next == [client[c] EXCEPT !.stage = "complete"]
    <2>1. x.stage = "scanning" /\ x.rows = {} /\ ~x.full /\ Become(c, next)
      BY <1>6 DEF EndVerification, At, Goes
    <2>2. /\ next \in ClientRecord /\ next.stage = "complete" /\ next.started = x.started
          /\ next.rows = x.rows /\ next.full = x.full /\ next.cursor = x.cursor
          /\ next.checked = x.checked
      BY <1>0 DEF ClientRecord, Stages
    <2> HIDE DEF next
    <2>3. VerifierHolds(next)
      BY <1>0, <2>1, <2>2 DEF VerifierHolds
    <2> QED BY <1>2, <2>1, <2>2, <2>3
  <1> QED BY <1>3, <1>4, <1>5, <1>6 DEF Verify

LEMMA ClientStep ==
    ASSUME IInv, NEW c \in Clients, ClientActs(c)
    PROVE  IInv'
  <1>1. /\ client' \in [Clients -> ClientRecord]
        /\ \A d \in Clients \ {c} : client'[d] = client[d]
        /\ ClientHolds(c)'
    <2>1. CASE EndClient(c)
      <3>1. /\ client' \in [Clients -> ClientRecord] /\ client'[c] = IdleClient
            /\ \A d \in Clients \ {c} : client'[d] = client[d]
        BY <2>1, IdleType, Becomes DEF EndClient
      <3>2. client'[c].stage = "idle"
        BY <3>1 DEF IdleClient
      <3> QED BY <3>1, <3>2, AnsweredKnows
    <2> QED BY <2>1, PublishStep, RepairStep, VerifyStep DEF ClientActs
  <1>2. /\ DiskGrows /\ DiskHolds' /\ ManifestsStay
        /\ file' \in [Keys -> {"absent", "intact", "altered", "truncated", "unreadable"}]
        /\ made' \subseteq Tops \cup Inners
        /\ manifest' \in [Quotes -> ManifestRecord \cup {NoManifest}]
    BY DiskStep, ManifestStep
  <1>3. \A d \in Clients \ {c} : ClientHolds(d)'
    BY <1>1, <1>2, OthersKnow
  <1>4. ClientsHold'
    BY <1>1, <1>3 DEF ClientsHold
  <1> QED BY <1>1, <1>2, <1>4 DEF IInv, Typed

-----------------------------------------------------------------------------
(* What is done to the disk from outside.                                  *)

LEMMA DamageStep ==
    ASSUME IInv, NEW k \in Keys, NEW damage \in Damages, Damage(k, damage)
    PROVE  IInv'
  <1>1. /\ file \in [Keys -> {"absent", "intact", "altered", "truncated", "unreadable"}]
        /\ client \in [Clients -> ClientRecord]
        /\ damage \in {"absent", "altered", "truncated", "unreadable"}
    BY ConstantsAssumption DEF ConstantsAssumption, IInv, Typed
  <1>2. /\ file[k] # "absent" /\ file' = [file EXCEPT ![k] = damage]
        /\ durable' = IF damage = "absent" THEN durable \ {k} ELSE durable
        /\ client' = [c \in Clients |-> [client[c] EXCEPT !.disturbed = @ \/ client[c].bytes = k]]
        /\ UNCHANGED <<made, manifest>>
    BY DEF Damage
  <1>3. /\ file' \in [Keys -> {"absent", "intact", "altered", "truncated", "unreadable"}]
        /\ file'[k] = damage /\ \A j \in Keys \ {k} : file'[j] = file[j]
    BY <1>1, <1>2
  <1>4. DiskHolds'
    <2>1. durable' \subseteq Entries'
      BY <1>2, <1>3 DEF IInv, DiskHolds, Entries
    <2>2. TopsAtStart \subseteq durable'
      BY <1>2, KeysFacts DEF IInv, DiskHolds
    <2>3. \A b \in Bytes : file'[b] # "absent" => file[b] # "absent"
      BY <1>2, <1>3, KeysFacts
    <2> QED BY <1>2, <2>1, <2>2, <2>3 DEF IInv, DiskHolds
  <1>5. ASSUME NEW c \in Clients
        PROVE  /\ client'[c] \in ClientRecord
               /\ client'[c].kind = client[c].kind /\ client'[c].stage = client[c].stage
               /\ client'[c].quote = client[c].quote /\ client'[c].bytes = client[c].bytes
               /\ client'[c].temp = client[c].temp /\ client'[c].cursor = client[c].cursor
               /\ client'[c].rows = client[c].rows /\ client'[c].full = client[c].full
               /\ client'[c].checked = client[c].checked /\ client'[c].started = client[c].started
               /\ client'[c].disturbed = (client[c].disturbed \/ client[c].bytes = k)
    <2>1. PICK x \in ClientRecord : x = client[c]
      BY <1>1
    <2>2. client'[c] = [x EXCEPT !.disturbed = x.disturbed \/ x.bytes = k]
      BY <1>2, <2>1
    <2>3. (x.disturbed \/ x.bytes = k) \in BOOLEAN
      OBVIOUS
    <2> QED BY <2>1, <2>2, <2>3 DEF ClientRecord
  <1>6. client' \in [Clients -> ClientRecord]
    <2>1. DOMAIN client' = Clients /\ client' = [c \in Clients |-> client'[c]]
      BY <1>2
    <2> QED BY <1>5, <2>1
  <1>7. Committed' = Committed
    BY <1>2 DEF Committed
  <1>8. ASSUME NEW c \in Clients PROVE ClientHolds(c)'
    <2>1. ClientHolds(c)
      BY DEF IInv, ClientsHold
    <2>2. VerifierHolds(client[c]) => VerifierHolds(client[c])'
      BY <1>5, <1>7 DEF VerifierHolds
    <2>3. ASSUME client[c].bytes \in Bytes, ~client'[c].disturbed
          PROVE  /\ ~client[c].disturbed
                 /\ file'[client[c].bytes] = file[client[c].bytes]
                 /\ {client[c].bytes, Inner[client[c].bytes]} \subseteq durable =>
                       {client[c].bytes, Inner[client[c].bytes]} \subseteq durable'
      <3>1. ~client[c].disturbed /\ client[c].bytes # k
        BY <1>5, <2>3
      <3>2. Inner[client[c].bytes] # k /\ client[c].bytes \in Keys
        BY <2>3, KeysFacts
      <3> QED BY <1>2, <1>3, <3>1, <3>2
    <2> QED BY <1>2, <1>5, <1>7, <2>1, <2>2, <2>3 DEF ClientHolds, Publishing
  <1> QED BY <1>2, <1>3, <1>4, <1>6, <1>8 DEF IInv, Typed, ClientsHold

(* What a power failure takes, and what it leaves.                         *)
LEMMA PowerTakes ==
    ASSUME IInv, NEW lost \in SUBSET (Entries \ durable)
    PROVE  /\ \A b \in Bytes : b \notin GoneWith(lost) =>
                 Top[b] \notin GoneWith(lost) /\ Inner[b] \notin GoneWith(lost)
           /\ TopsAtStart \cap GoneWith(lost) = {}
           /\ \A b \in Bytes : {b, Inner[b], Top[b]} \subseteq durable =>
                 b \notin GoneWith(lost) /\ Inner[b] \notin GoneWith(lost)
  <1>1. \A a, b \in Bytes : Inner[a] = Inner[b] => Top[a] = Top[b]
    BY ConstantsAssumption DEF ConstantsAssumption
  <1>2. TopsAtStart \subseteq durable /\ lost \cap durable = {}
    BY DEF IInv, DiskHolds
  <1>3. \A d \in Tops : d \notin lost => d \notin GoneWith(lost)
    BY KeysFacts DEF GoneWith, Keys, Inners
  <1>4. \A b \in Bytes : Inner[b] \notin lost /\ Top[b] \notin lost => Inner[b] \notin GoneWith(lost)
    BY <1>1, KeysFacts DEF GoneWith, Keys
  <1>5. \A b \in Bytes : b \notin lost /\ Inner[b] \notin lost /\ Top[b] \notin lost
                         => b \notin GoneWith(lost)
    BY KeysFacts DEF GoneWith, Keys, Inners
  <1>6. \A b \in Bytes : b \notin GoneWith(lost) => Inner[b] \notin lost /\ Top[b] \notin lost
    BY DEF GoneWith
  <1> QED BY <1>2, <1>3, <1>4, <1>5, <1>6, KeysFacts

LEMMA PowerFailsStep ==
    ASSUME IInv, PowerFails
    PROVE  IInv'
  <1>1. PICK lost \in SUBSET (Entries \ durable) :
           /\ made' = made \ GoneWith(lost)
           /\ file' = [k \in Keys |->
                 IF k \in GoneWith(lost) THEN "absent"
                 ELSE IF file[k] = "cached" THEN "truncated" ELSE file[k]]
           /\ durable' = Entries \ GoneWith(lost)
           /\ client' = [c \in Clients |-> IdleClient]
           /\ UNCHANGED <<manifest, promised>>
    BY DEF PowerFails
  <1>2. file \in [Keys -> {"absent", "intact", "altered", "truncated", "unreadable"}]
    BY DEF IInv, Typed
  <1>3. \A k \in Keys : file'[k] = IF k \in GoneWith(lost) THEN "absent" ELSE file[k]
    <2>1. \A k \in Keys : file[k] # "cached"
      BY <1>2
    <2> QED BY <1>1, <2>1
  <1>4. file' \in [Keys -> {"absent", "intact", "altered", "truncated", "unreadable"}]
    <2>1. \A k \in Keys : file'[k] \in {"absent", "intact", "altered", "truncated", "unreadable"}
      BY <1>2, <1>3
    <2>2. DOMAIN file' = Keys /\ file' = [k \in Keys |-> file'[k]]
      BY <1>1
    <2> QED BY <2>1, <2>2
  <1>5. DiskHolds'
    <2>1. durable' \subseteq Entries'
      BY <1>1, <1>3 DEF Entries
    <2>2. TopsAtStart \subseteq durable'
      BY <1>1, PowerTakes DEF IInv, DiskHolds
    <2>3. ASSUME NEW b \in Bytes, file'[b] # "absent" PROVE {Top[b], Inner[b]} \subseteq made'
      <3>1. b \notin GoneWith(lost) /\ file[b] # "absent"
        BY <1>3, <2>3, KeysFacts
      <3>2. Top[b] \notin GoneWith(lost) /\ Inner[b] \notin GoneWith(lost)
        BY <3>1, PowerTakes
      <3> QED BY <1>1, <3>1, <3>2 DEF IInv, DiskHolds
    <2> QED BY <2>1, <2>2, <2>3 DEF DiskHolds
  <1>6. Typed'
    BY <1>1, <1>4, IdleType DEF IInv, Typed
  <1>7. ASSUME NEW c \in Clients PROVE ClientHolds(c)'
    <2>1. client'[c].stage = "idle"
      BY <1>1 DEF IdleClient
    <2> QED BY <2>1, AnsweredKnows
  <1> QED BY <1>5, <1>6, <1>7 DEF IInv, ClientsHold

-----------------------------------------------------------------------------
LEMMA InitIInv == Init => IInv
  <1> SUFFICES ASSUME Init PROVE IInv
    OBVIOUS
  <1>1. /\ file = [k \in Keys |-> IF k = LegacyKey THEN "intact" ELSE "absent"]
        /\ made = TopsAtStart /\ durable = TopsAtStart \cup {LegacyKey}
        /\ client = [c \in Clients |-> IdleClient]
    BY DEF Init
  <1>2. PICK b \in Bytes :
           manifest = [q \in Quotes |-> IF q \in Legacy THEN LegacyManifest(b) ELSE NoManifest]
    BY DEF Init
  <1>3. LegacyManifest(b) \in ManifestRecord
    BY KeysFacts DEF LegacyManifest, ManifestRecord
  <1>4. Typed
    BY <1>1, <1>2, <1>3, IdleType, KeysFacts DEF Typed
  <1>5. DiskHolds
    BY <1>1, KeysFacts DEF DiskHolds, Entries
  <1>6. ASSUME NEW c \in Clients PROVE ClientHolds(c)
    BY <1>1 DEF ClientHolds, IdleClient, Publishing
  <1> QED BY <1>4, <1>5, <1>6 DEF IInv, ClientsHold

LEMMA NextIInv == IInv /\ [Next]_vars => IInv'
  <1> SUFFICES ASSUME IInv, [Next]_vars PROVE IInv'
    OBVIOUS
  <1>1. CASE UNCHANGED vars
    BY <1>1 DEF vars, IInv, Typed, DiskHolds, ClientsHold, ClientHolds, VerifierHolds, Entries,
                Committed
  <1>2. CASE Next
    BY <1>2, ClientStep, DamageStep, PowerFailsStep DEF Next, ClientActs
  <1> QED BY <1>1, <1>2

(* The disk, the manifests and what every client knows of them, in every   *)
(* reachable state, whatever is damaged and whenever the power fails.      *)
THEOREM InvariantHolds == Spec => []IInv
  BY InitIInv, NextIInv, PTL DEF Spec

(* Every variable keeps its type, and no file is without its directories,  *)
(* after any power failure either.                                         *)
THEOREM TypeCorrect == Spec => []TypeOK
  <1>1. IInv => TypeOK
    <2> SUFFICES ASSUME IInv PROVE TypeOK
      OBVIOUS
    <2>1. ASSUME NEW c \in Clients
          PROVE  /\ client[c].temp \in {"none", "partial", "synced"}
                 /\ client[c].rows \subseteq Quotes /\ client[c].checked \subseteq Quotes
      BY DEF IInv, Typed, ClientRecord
    <2> QED BY <2>1 DEF IInv, Typed, DiskHolds, TypeOK
  <1> QED BY <1>1, InvariantHolds, PTL

(* A complete verification has looked at every document committed when it  *)
(* began, whatever the batch size and whatever is committed meanwhile      *)
(* before and behind its cursor.                                           *)
THEOREM VerificationMissesNothingHolds == Spec => []VerificationMissesNothing
  <1>1. IInv => VerificationMissesNothing
    BY DEF IInv, ClientsHold, ClientHolds, VerifierHolds, VerificationMissesNothing, At
  <1> QED BY <1>1, InvariantHolds, PTL

-----------------------------------------------------------------------------
(* What was confirmed, when the directories <aa> are on disk from the      *)
(* start: it is there, and so are its entries on disk.                     *)
PromisesHold ==
    \A k \in promised : k \in Bytes /\ file[k] = "intact" /\ {k, Inner[k]} \subseteq durable

LEMMA PromisesKept ==
    ASSUME Tops \subseteq TopsAtStart, IInv, PromisesHold, [Next]_vars
    PROVE  PromisesHold'
  <1>1. CASE UNCHANGED vars
    BY <1>1 DEF vars, PromisesHold
  <1>2. ASSUME NEW c \in Clients, ClientActs(c) PROVE PromisesHold'
    <2>1. DiskGrows
      BY <1>2, DiskStep
    <2>2. ASSUME NEW k \in promised
          PROVE  k \in Bytes /\ file'[k] = "intact" /\ {k, Inner[k]} \subseteq durable'
      BY <2>1, KeysFacts DEF PromisesHold, DiskGrows
    <2>3. CASE promised' = promised
      BY <2>2, <2>3 DEF PromisesHold
    <2>4. CASE VerifyPublished(c)
      <3> DEFINE b == client[c].bytes
      <3>1. promised' = promised \/ (promised' = promised \cup {b} /\ ~client[c].disturbed)
        BY <2>4 DEF VerifyPublished
      <3>2. /\ b \in Bytes /\ UNCHANGED <<file, durable>>
            /\ ~client[c].disturbed => file[b] = "intact" /\ {b, Inner[b]} \subseteq durable
        BY <2>4 DEF VerifyPublished, disk, At, IInv, ClientsHold, ClientHolds, Publishing
      <3> HIDE DEF b
      <3> QED BY <2>2, <3>1, <3>2 DEF PromisesHold
    <2>5. promised' = promised \/ VerifyPublished(c)
      BY <1>2
      DEF ClientActs, Publish, Repair, Verify, EndClient, PublishRendered, WriteDurably,
          MakeDirectories, Link, LinkFindsFile, LinkFindsNoTemp, CompareExisting, SyncDirectories,
          CallFails, SweepTemp, CommitManifest, BeginRepair, RepairEnds, PublishCandidate,
          VerifyRepair, BeginVerification, FetchBatch, CheckRow, EndVerification
    <2> QED BY <2>3, <2>4, <2>5
  <1>3. ASSUME NEW k \in Keys, NEW damage \in Damages, Damage(k, damage) PROVE PromisesHold'
    <2>1. /\ file' = [file EXCEPT ![k] = damage] /\ promised' = promised \ {k}
          /\ durable' = durable \/ durable' = durable \ {k}
      BY <1>3 DEF Damage
    <2>2. \A j \in Keys \ {k} : file'[j] = file[j]
      BY <2>1 DEF IInv, Typed
    <2> QED BY <2>1, <2>2, KeysFacts DEF PromisesHold
  <1>4. CASE PowerFails
    <2>1. PICK lost \in SUBSET (Entries \ durable) :
             /\ file' = [k \in Keys |->
                   IF k \in GoneWith(lost) THEN "absent"
                   ELSE IF file[k] = "cached" THEN "truncated" ELSE file[k]]
             /\ durable' = Entries \ GoneWith(lost) /\ promised' = promised
      BY <1>4 DEF PowerFails
    <2>2. ASSUME NEW k \in promised
          PROVE  k \in Bytes /\ file'[k] = "intact" /\ {k, Inner[k]} \subseteq durable'
      <3>1. k \in Bytes /\ k \in Keys /\ file[k] = "intact" /\ {k, Inner[k]} \subseteq durable
        BY KeysFacts DEF PromisesHold
      <3>2. {k, Inner[k], Top[k]} \subseteq durable
        BY <3>1, KeysFacts DEF IInv, DiskHolds
      <3>3. k \notin GoneWith(lost) /\ Inner[k] \notin GoneWith(lost)
        BY <3>1, <3>2, PowerTakes
      <3> QED BY <2>1, <3>1, <3>3 DEF IInv, DiskHolds
    <2> QED BY <2>1, <2>2 DEF PromisesHold
  <1> QED BY <1>1, <1>2, <1>3, <1>4 DEF Next, ClientActs

(* What the service confirmed stays stored and on disk, whatever crashes,  *)
(* races or loses its power.                                               *)
THEOREM PromisesHoldAlways ==
    ASSUME Tops \subseteq TopsAtStart
    PROVE  Spec => [](IInv /\ PromisesHold)
  <1>1. Init => IInv /\ PromisesHold
    BY InitIInv DEF Init, PromisesHold
  <1>2. IInv /\ PromisesHold /\ [Next]_vars => (IInv /\ PromisesHold)'
    BY NextIInv, PromisesKept
  <1> QED BY <1>1, <1>2, PTL DEF Spec

(* A committed document reads as what was recorded, unless its file was    *)
(* damaged from outside after the service had confirmed it.                *)
THEOREM ManifestsNameBytesThatExistHolds ==
    ASSUME Tops \subseteq TopsAtStart
    PROVE  Spec => []ManifestsNameBytesThatExist
  <1>1. PromisesHold => ManifestsNameBytesThatExist
    BY DEF PromisesHold, ManifestsNameBytesThatExist, ReadStatus
  <1> QED BY <1>1, PromisesHoldAlways, PTL

-----------------------------------------------------------------------------
(* The refinement: what a client publishes, names and is told, as the      *)
(* write-once store sees it.                                               *)
Files == [k \in Keys |-> Condition(k)]
Pledged(c) == IF At(c, "published") THEN {client[c].bytes} ELSE {}
Told(c) == IF At(c, "intact") THEN "intact" ELSE "none"
Pledges == [c \in Clients |-> Pledged(c)]
Replies == [c \in Clients |-> Told(c)]
Names == {manifest[q].key : q \in Committed}

LEMMA FilesStay ==
    ASSUME \A k \in Keys : file'[k] = file[k]
    PROVE  Files' = Files
  <1>1. \A k \in Keys : Condition(k)' = Condition(k)
    BY DEF Condition, Holds
  <1> QED BY <1>1 DEF Files

LEMMA NamesStay ==
    ASSUME ManifestsStay, Committed' = Committed
    PROVE  Names' = Names
  <1>1. \A q \in Committed : manifest'[q].key = manifest[q].key
    BY DEF ManifestsStay
  <1> QED BY <1>1 DEF Names

LEMMA OneAnswers ==
    ASSUME NEW c \in Clients, \A d \in Clients \ {c} : client'[d] = client[d]
    PROVE  /\ Pledges' = [Pledges EXCEPT ![c] = Pledged(c)']
           /\ Replies' = [Replies EXCEPT ![c] = Told(c)']
  <1>1. \A d \in Clients \ {c} : Pledged(d)' = Pledged(d) /\ Told(d)' = Told(d)
    BY DEF Pledged, Told, At
  <1>2. Pledges' = [d \in Clients |-> Pledged(d)'] /\ Replies' = [d \in Clients |-> Told(d)']
    BY DEF Pledges, Replies
  <1>3. PICK p, r : p = Pledged(c)' /\ r = Told(c)'
    OBVIOUS
  <1>4. /\ \A d \in Clients : Pledges'[d] = [Pledges EXCEPT ![c] = p][d]
        /\ \A d \in Clients : Replies'[d] = [Replies EXCEPT ![c] = r][d]
    BY <1>1, <1>2, <1>3 DEF Pledges, Replies
  <1>5. /\ DOMAIN Pledges' = Clients /\ Pledges' = [d \in Clients |-> Pledges'[d]]
        /\ DOMAIN Replies' = Clients /\ Replies' = [d \in Clients |-> Replies'[d]]
    BY <1>2
  <1>6. /\ [Pledges EXCEPT ![c] = p] = [d \in Clients |-> [Pledges EXCEPT ![c] = p][d]]
        /\ [Replies EXCEPT ![c] = r] = [d \in Clients |-> [Replies EXCEPT ![c] = r][d]]
    BY DEF Pledges, Replies
  <1> QED BY <1>3, <1>4, <1>5, <1>6

(* A step that neither confirms nor answers anything is a stutter.         *)
LEMMA Quiet ==
    ASSUME NEW c \in Clients, \A d \in Clients \ {c} : client'[d] = client[d],
           Pledged(c)' = Pledged(c), Told(c)' = Told(c),
           Files' = Files, Names' = Names, promised' = promised
    PROVE  UNCHANGED WriteOnce!vars
  <1>1. Pledges' = [Pledges EXCEPT ![c] = Pledged(c)] /\ Replies' = [Replies EXCEPT ![c] = Told(c)]
    BY OneAnswers
  <1>2. Pledges' = Pledges /\ Replies' = Replies
    BY <1>1 DEF Pledges, Replies
  <1> QED BY <1>2 DEF WriteOnce!vars, Files, Pledges, Replies, Names, Pledged, Told

(* A client has its answer, or none: it counts on nothing any more.        *)
LEMMA Leaves ==
    ASSUME NEW c \in Clients, \A d \in Clients \ {c} : client'[d] = client[d],
           client'[c].stage \notin {"published", "intact"},
           Files' = Files, Names' = Names, promised' = promised
    PROVE  WriteOnce!Leave(c)
  <1>1. Pledged(c)' = {} /\ Told(c)' = "none"
    BY DEF Pledged, Told, At
  <1>2. Pledges' = [Pledges EXCEPT ![c] = {}] /\ Replies' = [Replies EXCEPT ![c] = "none"]
    BY <1>1, OneAnswers
  <1> QED BY <1>2 DEF WriteOnce!Leave, Files, Pledges, Replies, Names, Pledged, Told

(* A client is told that what its manifest names is intact.                *)
LEMMA Observes ==
    ASSUME IInv, NEW c \in Clients, \A d \in Clients \ {c} : client'[d] = client[d],
           client'[c].stage = "intact", NEW q \in Committed, ReadStatus(manifest[q]) = "OK",
           Files' = Files, Names' = Names, promised' = promised
    PROVE  WriteOnce!Observe(c)
  <1>1. Pledged(c)' = {} /\ Told(c)' = "intact"
    BY DEF Pledged, Told, At
  <1>2. Pledges' = [Pledges EXCEPT ![c] = {}] /\ Replies' = [Replies EXCEPT ![c] = "intact"]
    BY <1>1, OneAnswers
  <1>3. PICK k \in Keys : k = manifest[q].key
    BY DEF IInv, Typed, Committed, ManifestRecord
  <1>4. file[k] = "intact"
    BY <1>3 DEF IInv, Typed, ReadStatus
  <1>5. Files[k] = "intact"
    BY <1>4 DEF Files, Condition, Holds
  <1> QED BY <1>2, <1>5 DEF WriteOnce!Observe, Files, Pledges, Replies, Names, Pledged, Told

(* Where a client is after an action of its own.                           *)
LEMMA MovesOn ==
    ASSUME IInv, NEW c \in Clients, NEW s, Goes(c, s)
    PROVE  client'[c].stage = s /\ client'[c].bytes = client[c].bytes
           /\ \A d \in Clients \ {c} : client'[d] = client[d]
  BY DEF IInv, Typed, ClientRecord, Goes, Become

(* Actions before the store answers, and those of a verification.          *)
LEMMA QuietSteps ==
    ASSUME IInv, NEW c \in Clients,
           \/ \E q \in Quotes : \E b \in Bytes : PublishRendered(c, q, b)
           \/ WriteDurably(c) \/ MakeDirectories(c) \/ LinkFindsFile(c) \/ LinkFindsNoTemp(c)
           \/ CompareExisting(c) \/ SyncDirectories(c) \/ CallFails(c) \/ SweepTemp(c)
           \/ RepairEnds(c) \/ \E b \in Bytes : PublishCandidate(c, b)
           \/ Verify(c)
    PROVE  UNCHANGED WriteOnce!vars
  <1> DEFINE Silent(s) == s \notin {"published", "intact"}
  <1>0. client \in [Clients -> ClientRecord]
    BY DEF IInv, Typed
  <1>1. /\ file' = file /\ promised' = promised
        /\ ManifestsStay
        /\ Committed' = Committed
    <2>1. file' = file /\ promised' = promised /\ (manifest' = manifest \/ CheckRow(c))
      BY DEF PublishRendered, WriteDurably, MakeDirectories, LinkFindsFile, LinkFindsNoTemp,
             CompareExisting, SyncDirectories, CallFails, SweepTemp, RepairEnds, PublishCandidate,
             Verify, BeginVerification, FetchBatch, CheckRow, EndVerification, disk
    <2>2. ManifestsStay
      BY ManifestStep DEF ClientActs, Publish, Repair
    <2>3. CASE manifest' = manifest
      BY <2>1, <2>2, <2>3 DEF Committed
    <2>4. CASE CheckRow(c)
      <3>1. First(client[c].rows) \in Committed
        BY <2>4, RowAtHand DEF CheckRow
      <3>2. \A q \in Quotes \ Committed : manifest'[q] = manifest[q]
        <4>1. PICK q \in Committed : q = First(client[c].rows)
          BY <3>1
        <4>2. manifest' \in {manifest, [manifest EXCEPT ![q].length = TRUE]}
          BY <2>4, <4>1 DEF CheckRow
        <4> QED BY <4>2 DEF IInv, Typed
      <3>3. Committed' \subseteq Committed
        BY <3>2 DEF Committed
      <3> QED BY <2>1, <2>2, <3>3 DEF ManifestsStay
    <2> QED BY <2>1, <2>3, <2>4
  <1>2. Files' = Files /\ Names' = Names
    BY <1>1, FilesStay, NamesStay
  <1>3. ASSUME NEW next, Become(c, next), Silent(client[c].stage), Silent(next.stage)
        PROVE  UNCHANGED WriteOnce!vars
    <2>1. client'[c] = next /\ \A d \in Clients \ {c} : client'[d] = client[d]
      BY <1>0, <1>3 DEF Become
    <2>2. Pledged(c)' = Pledged(c) /\ Told(c)' = Told(c)
      BY <1>3, <2>1 DEF Pledged, Told, At
    <2> QED BY <1>1, <1>2, <2>1, <2>2, Quiet
  <1>4. ASSUME NEW s, Goes(c, s), Silent(client[c].stage), Silent(s)
        PROVE  UNCHANGED WriteOnce!vars
    <2>1. [client[c] EXCEPT !.stage = s].stage = s
      BY <1>0 DEF ClientRecord
    <2> QED BY <1>3, <1>4, <2>1 DEF Goes
  <1>5. ASSUME NEW kind, NEW q, NEW b, StartsPublishing(c, kind, q, b), Silent(client[c].stage)
        PROVE  UNCHANGED WriteOnce!vars
    <2>1. [IdleClient EXCEPT !.kind = kind, !.stage = "writing", !.quote = q,
                             !.bytes = b, !.temp = "partial"].stage = "writing"
      BY DEF IdleClient
    <2> QED BY <1>3, <1>5, <2>1 DEF StartsPublishing
  <1>6. ASSUME NEW q \in Quotes, NEW b \in Bytes, PublishRendered(c, q, b)
        PROVE  UNCHANGED WriteOnce!vars
    BY <1>5, <1>6 DEF PublishRendered, At
  <1>7. CASE WriteDurably(c)
    <2>1. PICK t : Become(c, [client[c] EXCEPT !.stage = "written", !.temp = t])
      BY <1>7 DEF WriteDurably
    <2>2. [client[c] EXCEPT !.stage = "written", !.temp = t].stage = "written"
      BY <1>0 DEF ClientRecord
    <2> QED BY <1>3, <1>7, <2>1, <2>2 DEF WriteDurably, At
  <1>8. CASE MakeDirectories(c) \/ LinkFindsFile(c) \/ LinkFindsNoTemp(c) \/ SyncDirectories(c)
             \/ RepairEnds(c) \/ EndVerification(c)
    <2>1. PICK s \in {"directed", "exists", "failed", "entered", "refused", "complete"} :
             Goes(c, s)
      BY <1>8 DEF MakeDirectories, LinkFindsFile, LinkFindsNoTemp, SyncDirectories, RepairEnds,
                  EndVerification
    <2>2. Silent(client[c].stage)
      BY <1>8 DEF MakeDirectories, LinkFindsFile, LinkFindsNoTemp, SyncDirectories, RepairEnds,
                  EndVerification, At
    <2> QED BY <1>4, <2>1, <2>2
  <1>9. CASE CompareExisting(c)
    <2>1. PICK s \in {"linked", "failed", "conflict"} :
             Become(c, [client[c] EXCEPT !.temp = "none", !.stage = s])
      <3>1. AfterReading(client[c].bytes, "linked") \in {"linked", "failed", "conflict"}
        BY DEF AfterReading
      <3> QED BY <1>9, <3>1 DEF CompareExisting
    <2>2. [client[c] EXCEPT !.temp = "none", !.stage = s].stage = s
      BY <1>0 DEF ClientRecord
    <2> QED BY <1>3, <1>9, <2>1, <2>2 DEF CompareExisting, At
  <1>10. CASE CallFails(c)
    <2>1. [client[c] EXCEPT !.stage = "failed", !.temp = "none"].stage = "failed"
      BY <1>0 DEF ClientRecord
    <2> QED BY <1>3, <1>10, <2>1 DEF CallFails
  <1>11. CASE SweepTemp(c)
    <2>1. /\ client'[c].stage = client[c].stage /\ client'[c].bytes = client[c].bytes
          /\ \A d \in Clients \ {c} : client'[d] = client[d]
      BY <1>0, <1>11 DEF SweepTemp, Become, ClientRecord
    <2>2. Pledged(c)' = Pledged(c) /\ Told(c)' = Told(c)
      BY <2>1 DEF Pledged, Told, At
    <2> QED BY <1>1, <1>2, <2>1, <2>2, Quiet
  <1>12. ASSUME NEW b \in Bytes, PublishCandidate(c, b) PROVE UNCHANGED WriteOnce!vars
    BY <1>4, <1>5, <1>12 DEF PublishCandidate, At
  <1>13. CASE BeginVerification(c)
    <2>1. [IdleClient EXCEPT !.kind = "verifier", !.stage = "scanning",
                             !.started = Committed].stage = "scanning"
      BY DEF IdleClient
    <2> QED BY <1>3, <1>13, <2>1 DEF BeginVerification, At
  <1>14. CASE FetchBatch(c) \/ CheckRow(c)
    <2>0. PICK x, next : /\ x = client[c] /\ x.stage = "scanning" /\ next.stage = x.stage
                         /\ client' = [client EXCEPT ![c] = next]
      <3>1. client[c] \in ClientRecord
        BY <1>0
      <3>2. CASE FetchBatch(c)
        BY <3>1, <3>2 DEF FetchBatch, At, Become, ClientRecord
      <3>3. CASE CheckRow(c)
        BY <3>1, <3>3 DEF CheckRow, At, Become, ClientRecord
      <3> QED BY <1>14, <3>2, <3>3
    <2>1. /\ client[c].stage = "scanning" /\ client'[c].stage = "scanning"
          /\ \A d \in Clients \ {c} : client'[d] = client[d]
      BY <1>0, <2>0
    <2>2. Pledged(c)' = Pledged(c) /\ Told(c)' = Told(c)
      BY <2>1 DEF Pledged, Told, At
    <2> QED BY <1>1, <1>2, <2>1, <2>2, Quiet
  <1> QED BY <1>6, <1>7, <1>8, <1>9, <1>10, <1>11, <1>12, <1>13, <1>14 DEF Verify

(* Every step of a client is one of the store's, or a stutter.             *)
LEMMA ClientImplements ==
    ASSUME IInv, NEW c \in Clients, ClientActs(c)
    PROVE  [WriteOnce!Next]_(WriteOnce!vars)
  <1>0. client \in [Clients -> ClientRecord] /\ ClientHolds(c)
    BY DEF IInv, Typed, ClientsHold
  <1>1. CASE Link(c)
    <2>0. PICK b : b = client[c].bytes
      OBVIOUS
    <2>1. /\ b \in Bytes /\ b \in Keys /\ client[c].stage = "directed" /\ client[c].temp = "synced"
      BY <1>0, <1>1, <2>0, KeysFacts DEF Link, At, ClientHolds, ClientRecord, Publishing
    <2>2. /\ file[b] = "absent" /\ file' = [file EXCEPT ![b] = "intact"]
          /\ UNCHANGED <<manifest, promised>>
          /\ Become(c, [client[c] EXCEPT !.stage = "linked", !.temp = "none"])
      BY <1>1, <2>0, <2>1 DEF Link
    <2>3. /\ client'[c].stage = "linked" /\ \A d \in Clients \ {c} : client'[d] = client[d]
      BY <1>0, <2>2 DEF Become, ClientRecord
    <2>4. Files[b] = "absent" /\ Files' = [Files EXCEPT ![b] = "intact"]
      <3>1. Condition(b) = "absent" /\ Condition(b)' = "intact"
        BY <2>1, <2>2 DEF Condition, Holds, IInv, Typed
      <3>2. \A k \in Keys \ {b} : file'[k] = file[k]
        BY <2>2 DEF IInv, Typed
      <3>3. \A k \in Keys \ {b} : Condition(k)' = Condition(k)
        BY <3>2 DEF Condition, Holds
      <3> QED BY <2>1, <3>1, <3>3 DEF Files
    <2>5. Names' = Names
      BY <2>2 DEF Names, Committed
    <2>6. Pledged(c)' = Pledged(c) /\ Told(c)' = Told(c)
      BY <2>1, <2>3 DEF Pledged, Told, At
    <2>7. Pledges' = Pledges /\ Replies' = Replies
      <3>1. /\ Pledges' = [Pledges EXCEPT ![c] = Pledged(c)]
            /\ Replies' = [Replies EXCEPT ![c] = Told(c)]
        BY <2>3, <2>6, OneAnswers
      <3> QED BY <3>1 DEF Pledges, Replies
    <2>8. WriteOnce!Store(b)
      BY <2>1, <2>2, <2>4, <2>5, <2>7
      DEF WriteOnce!Store, Files, Names, Pledges, Replies, Pledged, Told
    <2> QED BY <2>1, <2>8 DEF WriteOnce!Next
  <1>2. CASE VerifyPublished(c)
    <2>0. PICK b : b = client[c].bytes
      OBVIOUS
    <2>1. b \in Bytes /\ b \in Keys /\ client[c].stage = "entered"
      BY <1>0, <1>2, <2>0, KeysFacts DEF VerifyPublished, At, ClientHolds, Publishing
    <2>2. /\ Goes(c, AfterReading(b, "published")) /\ UNCHANGED <<file, manifest>>
          /\ promised' = IF Holds(b) /\ ~client[c].disturbed THEN promised \cup {b} ELSE promised
      BY <1>2, <2>0 DEF VerifyPublished, disk
    <2>3. /\ client'[c].stage = AfterReading(b, "published") /\ client'[c].bytes = b
          /\ \A d \in Clients \ {c} : client'[d] = client[d]
      BY <2>0, <2>2, MovesOn
    <2>4. Files' = Files /\ Names' = Names
      BY <2>2, FilesStay DEF Names, Committed
    <2>5. Told(c)' = Told(c)
      BY <2>1, <2>3 DEF Told, At, AfterReading
    <2>6. CASE Holds(b)
      <3>1. Pledged(c)' = {b}
        BY <2>3, <2>6 DEF Pledged, At, AfterReading
      <3>2. /\ Pledges' = [Pledges EXCEPT ![c] = {b}]
            /\ Replies' = [Replies EXCEPT ![c] = Told(c)]
        BY <2>3, <2>5, <3>1, OneAnswers
      <3>3. Replies' = Replies
        BY <3>2 DEF Replies
      <3>4. Files[b] = "intact"
        BY <2>1, <2>6 DEF Files, Condition, Holds
      <3>5. promised' \in {promised, promised \cup {b}}
        BY <2>2
      <3>6. WriteOnce!Confirm(c, b)
        BY <2>4, <3>2, <3>3, <3>4, <3>5
        DEF WriteOnce!Confirm, Files, Names, Pledges, Replies, Pledged, Told
      <3> QED BY <2>1, <3>6 DEF WriteOnce!Next
    <2>7. CASE ~Holds(b)
      <3>1. Pledged(c)' = Pledged(c)
        BY <2>1, <2>3, <2>7 DEF Pledged, At, AfterReading
      <3> QED BY <2>2, <2>3, <2>4, <2>5, <2>7, <3>1, Quiet
    <2> QED BY <2>6, <2>7
  <1>3. CASE CommitManifest(c)
    <2> DEFINE q == client[c].quote
               b == client[c].bytes
    <2>1. /\ client[c].stage = "published" /\ q \in Quotes /\ b \in Bytes
          /\ Become(c, IdleClient) /\ UNCHANGED <<disk, promised>>
          /\ manifest' = IF manifest[q] = NoManifest
                         THEN [manifest EXCEPT ![q] = IssuedManifest(b)] ELSE manifest
      BY <1>0, <1>3 DEF CommitManifest, At, ClientHolds, Publishing
    <2>2. client'[c] = IdleClient /\ \A d \in Clients \ {c} : client'[d] = client[d]
      BY <1>0, <2>1 DEF Become
    <2>3. client'[c].stage = "idle"
      BY <2>2 DEF IdleClient
    <2> HIDE DEF q, b
    <2>4. Files' = Files
      BY <2>1, FilesStay DEF disk
    <2>5. CASE manifest[q] = NoManifest
      <3>1. /\ manifest' = [manifest EXCEPT ![q] = IssuedManifest(b)]
            /\ IssuedManifest(b) # NoManifest /\ IssuedManifest(b).key = b
        <4>1. IssuedManifest(b) \in ManifestRecord /\ IssuedManifest(b).key = b
          BY <2>1, KeysFacts DEF IssuedManifest, ManifestRecord
        <4> QED BY <2>1, <2>5, <4>1, ConstantsAssumption DEF ConstantsAssumption
      <3>2. /\ manifest'[q] # NoManifest /\ manifest'[q].key = b
            /\ \A p \in Quotes \ {q} : manifest'[p] = manifest[p]
        BY <2>1, <3>1 DEF IInv, Typed
      <3>3. Committed' = Committed \cup {q} /\ q \notin Committed
        BY <2>1, <2>5, <3>2 DEF Committed
      <3>4. /\ \A p \in Committed : manifest'[p].key = manifest[p].key
            /\ Names' = {manifest'[p].key : p \in Committed \cup {q}}
        <4>1. \A p \in Committed : p \in Quotes \ {q}
          BY <3>3 DEF Committed
        <4> QED BY <3>2, <3>3, <4>1 DEF Names
      <3>5. Names' = Names \cup {b}
        BY <3>2, <3>4 DEF Names
      <3>6. Pledged(c) = {b} /\ Pledged(c)' = {} /\ Told(c)' = Told(c)
        BY <2>1, <2>3 DEF Pledged, Told, At, b
      <3>7. /\ Pledges' = [Pledges EXCEPT ![c] = {}]
            /\ Replies' = [Replies EXCEPT ![c] = Told(c)]
        BY <2>2, <3>6, OneAnswers
      <3>8. Replies' = Replies /\ Pledges[c] = {b}
        BY <3>6, <3>7 DEF Replies, Pledges
      <3>9. WriteOnce!Name(c)
        BY <2>1, <2>4, <3>5, <3>7, <3>8
        DEF WriteOnce!Name, Files, Names, Pledges, Replies, Pledged, Told
      <3> QED BY <3>9 DEF WriteOnce!Next
    <2>6. CASE manifest[q] # NoManifest
      <3>1. Names' = Names
        BY <2>1, <2>6 DEF Names, Committed
      <3>2. WriteOnce!Leave(c)
        BY <2>1, <2>2, <2>3, <2>4, <3>1, Leaves
      <3> QED BY <3>2 DEF WriteOnce!Next
    <2> QED BY <2>5, <2>6
  <1>4. ASSUME NEW q \in Quotes, BeginRepair(c, q) PROVE [WriteOnce!Next]_(WriteOnce!vars)
    <2>1. /\ client[c].stage = "idle" /\ UNCHANGED <<file, manifest, promised>>
      BY <1>4 DEF BeginRepair, disk, At
    <2>2. PICK s : /\ s = IF manifest[q] = NoManifest \/ manifest[q].legacy THEN "refused"
                          ELSE IF ReadStatus(manifest[q]) = "OK" THEN "intact" ELSE "rendering"
                   /\ Become(c, [IdleClient EXCEPT !.kind = "repair", !.quote = q, !.stage = s])
      BY <1>4 DEF BeginRepair
    <2>3. client'[c].stage = s /\ \A d \in Clients \ {c} : client'[d] = client[d]
      BY <1>0, <2>2 DEF Become, IdleClient
    <2>4. Files' = Files /\ Names' = Names
      BY <2>1, FilesStay DEF Names, Committed
    <2>5. CASE s = "intact"
      <3>1. q \in Committed /\ ReadStatus(manifest[q]) = "OK"
        BY <2>2, <2>5 DEF Committed
      <3>2. WriteOnce!Observe(c)
        BY <2>1, <2>3, <2>4, <2>5, <3>1, Observes
      <3> QED BY <3>2 DEF WriteOnce!Next
    <2>6. CASE s # "intact"
      <3>1. Pledged(c)' = Pledged(c) /\ Told(c)' = Told(c)
        BY <2>1, <2>2, <2>3, <2>6 DEF Pledged, Told, At
      <3> QED BY <2>1, <2>3, <2>4, <3>1, Quiet
    <2> QED BY <2>5, <2>6
  <1>5. CASE VerifyRepair(c)
    <2>1. PICK q : q = client[c].quote
      OBVIOUS
    <2>2. /\ q \in Committed /\ UNCHANGED <<file, manifest, promised>>
          /\ Goes(c, IF ReadStatus(manifest[q]) = "OK" THEN "intact" ELSE "refused")
      BY <1>0, <1>5, <2>1 DEF VerifyRepair, disk, At, ClientHolds, Publishing
    <2>3. Files' = Files /\ Names' = Names
      BY <2>2, FilesStay DEF Names, Committed
    <2>4. CASE ReadStatus(manifest[q]) = "OK"
      <3>1. client'[c].stage = "intact" /\ \A d \in Clients \ {c} : client'[d] = client[d]
        BY <2>2, <2>4, MovesOn
      <3>2. WriteOnce!Observe(c)
        BY <2>2, <2>3, <2>4, <3>1, Observes
      <3> QED BY <3>2 DEF WriteOnce!Next
    <2>5. CASE ReadStatus(manifest[q]) # "OK"
      <3>1. client'[c].stage = "refused" /\ \A d \in Clients \ {c} : client'[d] = client[d]
        BY <2>2, <2>5, MovesOn
      <3>2. WriteOnce!Leave(c)
        BY <2>2, <2>3, <3>1, Leaves
      <3> QED BY <3>2 DEF WriteOnce!Next
    <2> QED BY <2>4, <2>5
  <1>6. CASE EndClient(c)
    <2>1. /\ client'[c] = IdleClient /\ \A d \in Clients \ {c} : client'[d] = client[d]
          /\ UNCHANGED <<file, manifest, promised>>
      BY <1>0, <1>6 DEF EndClient, Become, disk
    <2>2. client'[c].stage = "idle" /\ Files' = Files /\ Names' = Names
      BY <2>1, FilesStay DEF IdleClient, Names, Committed
    <2>3. WriteOnce!Leave(c)
      BY <2>1, <2>2, Leaves
    <2> QED BY <2>3 DEF WriteOnce!Next
  <1> QED BY <1>1, <1>2, <1>3, <1>4, <1>5, <1>6, QuietSteps DEF ClientActs, Publish, Repair

LEMMA DamageImplements ==
    ASSUME IInv, NEW k \in Keys, NEW damage \in Damages, Damage(k, damage)
    PROVE  WriteOnce!Damage(k)
  <1>1. /\ damage \in {"absent", "altered", "truncated", "unreadable"}
        /\ file' = [file EXCEPT ![k] = damage] /\ promised' = promised \ {k}
        /\ client' = [c \in Clients |-> [client[c] EXCEPT !.disturbed = @ \/ client[c].bytes = k]]
        /\ UNCHANGED manifest
    BY ConstantsAssumption DEF ConstantsAssumption, Damage
  <1>2. Files' \in {[Files EXCEPT ![k] = f] : f \in {"absent", "damaged"}}
    <2>1. file'[k] = damage /\ \A j \in Keys \ {k} : file'[j] = file[j]
      BY <1>1 DEF IInv, Typed
    <2>2. PICK f \in {"absent", "damaged"} : Condition(k)' = f
      BY <1>1, <2>1 DEF Condition, Holds
    <2>3. \A j \in Keys \ {k} : Condition(j)' = Condition(j)
      BY <2>1 DEF Condition, Holds
    <2>4. Files' = [Files EXCEPT ![k] = f]
      BY <2>2, <2>3 DEF Files
    <2> QED BY <2>4
  <1>3. ASSUME NEW c \in Clients PROVE Pledged(c)' = Pledged(c) /\ Told(c)' = Told(c)
    <2>1. client'[c].stage = client[c].stage /\ client'[c].bytes = client[c].bytes
      <3>1. PICK x \in ClientRecord : x = client[c]
        BY DEF IInv, Typed
      <3>2. client'[c] = [x EXCEPT !.disturbed = x.disturbed \/ x.bytes = k]
        BY <1>1, <3>1
      <3> QED BY <3>1, <3>2 DEF ClientRecord
    <2> QED BY <2>1 DEF Pledged, Told, At
  <1>4. Pledges' = Pledges /\ Replies' = Replies
    BY <1>3 DEF Pledges, Replies
  <1>5. Names' = Names
    BY <1>1 DEF Names, Committed
  <1> QED BY <1>1, <1>2, <1>4, <1>5
      DEF WriteOnce!Damage, Files, Names, Pledges, Replies, Pledged, Told

(* A power failure takes nothing that was promised.                        *)
LEMMA PowerFailsImplements ==
    ASSUME IInv, PromisesHold, PromisesHold', PowerFails
    PROVE  WriteOnce!PowerFails
  <1>1. PICK lost \in SUBSET (Entries \ durable) :
           /\ file' = [k \in Keys |->
                 IF k \in GoneWith(lost) THEN "absent"
                 ELSE IF file[k] = "cached" THEN "truncated" ELSE file[k]]
           /\ client' = [c \in Clients |-> IdleClient]
           /\ UNCHANGED <<manifest, promised>>
    BY DEF PowerFails
  <1>2. PICK gone : gone = GoneWith(lost) \cap Keys
    OBVIOUS
  <1>3. \A k \in Keys : file'[k] = IF k \in gone THEN "absent" ELSE file[k]
    <2>1. \A k \in Keys : file[k] # "cached"
      BY DEF IInv, Typed
    <2> QED BY <1>1, <1>2, <2>1
  <1>4. gone \in SUBSET (Keys \ promised)
    BY <1>1, <1>2, <1>3 DEF PromisesHold
  <1>5. Files' = [k \in Keys |-> IF k \in gone THEN "absent" ELSE Files[k]]
    <2>1. \A k \in Keys : Condition(k)' = IF k \in gone THEN "absent" ELSE Condition(k)
      BY <1>3 DEF Condition, Holds
    <2> QED BY <2>1 DEF Files
  <1>6. Pledges' = [c \in Clients |-> {}] /\ Replies' = [c \in Clients |-> "none"]
    BY <1>1 DEF Pledges, Replies, Pledged, Told, At, IdleClient
  <1>7. Names' = Names
    BY <1>1 DEF Names, Committed
  <1> QED BY <1>1, <1>4, <1>5, <1>6, <1>7
      DEF WriteOnce!PowerFails, WriteOnce!Nobody, WriteOnce!Silence, Files, Names, Pledges,
          Replies, Pledged, Told

LEMMA StepImplements ==
    ASSUME IInv, PromisesHold, PromisesHold', [Next]_vars
    PROVE  [WriteOnce!Next]_(WriteOnce!vars)
  <1>1. CASE UNCHANGED vars
    <2>1. UNCHANGED <<file, manifest, client, promised>>
      BY <1>1 DEF vars
    <2>2. Files' = Files /\ Names' = Names /\ Pledges' = Pledges /\ Replies' = Replies
      BY <2>1 DEF Files, Condition, Holds, Names, Committed, Pledges, Replies, Pledged, Told, At
    <2> QED BY <2>1, <2>2 DEF WriteOnce!vars, Files, Names, Pledges, Replies, Pledged, Told
  <1>2. ASSUME NEW c \in Clients, ClientActs(c) PROVE [WriteOnce!Next]_(WriteOnce!vars)
    BY <1>2, ClientImplements
  <1>3. ASSUME NEW k \in Keys, NEW damage \in Damages, Damage(k, damage)
        PROVE  [WriteOnce!Next]_(WriteOnce!vars)
    BY <1>3, DamageImplements DEF WriteOnce!Next
  <1>4. CASE PowerFails
    BY <1>4, PowerFailsImplements DEF WriteOnce!Next
  <1> QED BY <1>1, <1>2, <1>3, <1>4 DEF Next, ClientActs

LEMMA InitImplements == Init => WriteOnce!Init
  <1> SUFFICES ASSUME Init PROVE WriteOnce!Init
    OBVIOUS
  <1>1. /\ file = [k \in Keys |-> IF k = LegacyKey THEN "intact" ELSE "absent"]
        /\ client = [c \in Clients |-> IdleClient] /\ promised = {}
    BY DEF Init
  <1>2. PICK b \in Bytes :
           manifest = [q \in Quotes |-> IF q \in Legacy THEN LegacyManifest(b) ELSE NoManifest]
    BY DEF Init
  <1>3. Files = [k \in Keys |-> IF k = LegacyKey THEN "intact" ELSE "absent"]
    BY <1>1 DEF Files, Condition, Holds
  <1>4. Files \in [Keys -> {"absent", "intact"}] /\ Files[LegacyKey] = "intact"
    BY <1>3, KeysFacts
  <1>5. Pledges = [c \in Clients |-> {}] /\ Replies = [c \in Clients |-> "none"]
    BY <1>1 DEF Pledges, Replies, Pledged, Told, At, IdleClient
  <1>6. Names \subseteq {LegacyKey}
    BY <1>2 DEF Names, Committed, LegacyManifest
  <1>7. Names \in SUBSET {k \in Keys : Files[k] = "intact"}
    BY <1>4, <1>6, KeysFacts
  <1> QED BY <1>1, <1>4, <1>5, <1>7
      DEF WriteOnce!Init, WriteOnce!Nobody, WriteOnce!Silence, Files, Names, Pledges, Replies,
          Pledged, Told

(* Publications, repairs and sweeps together implement a write-once store, *)
(* through crashes and power failures.                                     *)
THEOREM WriteOnceHolds ==
    ASSUME Tops \subseteq TopsAtStart
    PROVE  Spec => ImplementsWriteOnce
  <1>1. IInv /\ PromisesHold /\ PromisesHold' /\ [Next]_vars => [WriteOnce!Next]_(WriteOnce!vars)
    BY StepImplements
  <1> QED BY <1>1, InitImplements, PromisesHoldAlways, PTL DEF Spec, ImplementsWriteOnce, WriteOnce!Spec
=============================================================================
