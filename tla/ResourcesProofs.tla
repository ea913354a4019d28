--------------------------- MODULE ResourcesProofs ---------------------------
(***************************************************************************)
(* The provider and the plans, for any number of resources, versions,      *)
(* leases and requests.                                                    *)
(***************************************************************************)
EXTENDS Resources, SequenceTheorems, FiniteSetTheorems, TLAPS

\* What a version, or a file, may hold.
Contents == (Ids \X Nat) \cup {Torn}

Records == [semantic : ResourceSemantic, file : BOOLEAN, version : 1..MaxVersion,
            generation : 1..MaxVersion, data : Seq(Contents), lease : Tokens \cup {None}]

\* A record keeps one entry of data for each version. Its lease is one that was issued for
\* this resource at this version. Its file is the latest version, or torn under a lease.
ResourceOK(r) ==
  /\ resources[r] \in Records
  /\ resources[r].generation = resources[r].version
  /\ Len(resources[r].data) = resources[r].version
  /\ resources[r].lease \in tokens \cup {None}
  /\ resources[r].lease # None =>
       resources[r].lease.id = r /\ resources[r].lease.base = resources[r].version
  /\ resources[r].file =>
       files[r] = Data(r) \/ (files[r] = Torn /\ resources[r].lease # None)

StoreOK ==
  /\ DOMAIN resources \subseteq Ids /\ values \subseteq Ids \ DOMAIN resources
  /\ files \in [Ids -> Contents \cup {None}]
  /\ tokens \subseteq Tokens /\ IsFiniteSet(tokens)
  /\ now \in 0..MaxStep
  /\ \A r \in DOMAIN resources : ResourceOK(r)

\* The write under way has the lease of its resource, and room for a version.
WritingOK ==
  writing # None =>
    /\ writing \in Tokens /\ writing.id \in DOMAIN resources
    /\ resources[writing.id].lease = writing
    /\ resources[writing.id].version < MaxVersion

\* A snapshot and its source are there, the source with the version that was read.
SnapshotsOK ==
  /\ \A d \in snapshots :
       /\ d.snapshot \in DOMAIN resources /\ d.source.id \in DOMAIN resources
       /\ d.source.version \in 1..Len(resources[d.source.id].data)
  /\ SnapshotOfItsVersion

\* The inductive invariant of the tables.
TablesInv == StoreOK /\ WritingOK /\ SnapshotsOK

--------------------------------------------------------------------------------
(* Sequences of versions *)

LEMMA AppendOK ==
  ASSUME NEW S, NEW s \in Seq(S), NEW x \in S
  PROVE  /\ Append(s, x) \in Seq(S) /\ Len(Append(s, x)) = Len(s) + 1
         /\ Last(Append(s, x)) = x /\ Append(s, x)[Len(s) + 1] = x
         /\ \A i \in 1..Len(s) : Append(s, x)[i] = s[i]
  BY DEF Last

LEMMA SingletonOK ==
  ASSUME NEW S, NEW x \in S
  PROVE  /\ <<x>> \in Seq(S) /\ Len(<<x>>) = 1 /\ Last(<<x>>) = x /\ <<x>>[1] = x
  BY DEF Last

\* The latest version is what data ends with.
LEMMA DataOK ==
  ASSUME StoreOK, NEW r \in DOMAIN resources
  PROVE  /\ Len(resources[r].data) \in 1..MaxVersion
         /\ Data(r) = resources[r].data[resources[r].version]
         /\ Data(r) \in Contents /\ Bytes(r) \in {Torn, Data(r)} /\ Bytes(r) \in Contents
         /\ ~resources[r].file => Bytes(r) = Data(r)
         /\ r \in Ids
<1>1. ResourceOK(r) /\ r \in Ids
  BY DEF StoreOK
<1>2. /\ resources[r].data \in Seq(Contents) /\ Len(resources[r].data) = resources[r].version
      /\ resources[r].version \in 1..MaxVersion
  BY <1>1 DEF ResourceOK, Records
<1>3. Data(r) = resources[r].data[resources[r].version]
  BY <1>2 DEF Data, Last
<1>4. Data(r) \in Contents
  BY <1>2, <1>3, ElementOfSeq, ResourcesAssumption
<1>5. Bytes(r) \in {Torn, Data(r)} /\ (~resources[r].file => Bytes(r) = Data(r))
  BY <1>1 DEF ResourceOK, Bytes
<1>6. Torn \in Contents
  BY DEF Contents
<1> QED
  BY <1>1, <1>2, <1>3, <1>4, <1>5, <1>6

--------------------------------------------------------------------------------
(* Steps on one resource *)

\* A step may create a resource or add versions to one; no version is lost or changed, and
\* a resource stays what it is.
Extends(r) ==
  /\ r \in DOMAIN resources'
  /\ resources'[r].file = resources[r].file
  /\ resources'[r].semantic = resources[r].semantic
  /\ Len(resources'[r].data) >= Len(resources[r].data)
  /\ \A v \in 1..Len(resources[r].data) : resources'[r].data[v] = resources[r].data[v]

Grows == \A r \in DOMAIN resources : Extends(r)

\* Whatever a step leaves alone is still in order.
Touches(r) ==
  /\ r \in Ids
  /\ DOMAIN resources' = DOMAIN resources \cup {r}
  /\ \A x \in DOMAIN resources \ {r} : resources'[x] = resources[x]
  /\ files' \in [Ids -> Contents \cup {None}]
  /\ \A x \in Ids \ {r} : files'[x] = files[x]
  /\ tokens \subseteq tokens' /\ tokens' \subseteq Tokens /\ IsFiniteSet(tokens')
  /\ values' = values /\ r \notin values
  /\ now' = now

LEMMA StoreKept ==
  ASSUME StoreOK, NEW r, Touches(r), ResourceOK(r)'
  PROVE  StoreOK'
<1>1. ASSUME NEW x \in DOMAIN resources', x # r PROVE ResourceOK(x)'
  <2>1. /\ x \in DOMAIN resources /\ x \in Ids /\ resources'[x] = resources[x]
        /\ files'[x] = files[x]
    BY <1>1 DEF Touches, StoreOK
  <2>2. ResourceOK(x)
    BY <2>1 DEF StoreOK
  <2> QED
    BY <2>1, <2>2 DEF ResourceOK, Data, Touches
<1>2. values' \subseteq Ids \ DOMAIN resources' /\ DOMAIN resources' \subseteq Ids
  BY DEF StoreOK, Touches
<1> QED
  BY <1>1, <1>2 DEF StoreOK, Touches

LEMMA SnapshotsKept ==
  ASSUME StoreOK, StoreOK', SnapshotsOK, Grows, NEW d \in snapshots
  PROVE  /\ d.snapshot \in DOMAIN resources' /\ d.source.id \in DOMAIN resources'
         /\ d.source.version \in 1..Len(resources'[d.source.id].data)
         /\ resources'[d.snapshot].data[1]
              \in {Torn, resources'[d.source.id].data[d.source.version]}
<1> DEFINE r == d.source.id
           v == d.source.version
<1>1. /\ d.snapshot \in DOMAIN resources /\ r \in DOMAIN resources
      /\ v \in 1..Len(resources[r].data)
      /\ resources[d.snapshot].data[1] \in {Torn, resources[r].data[v]}
  BY DEF SnapshotsOK, SnapshotOfItsVersion
<1>2. Extends(d.snapshot) /\ Extends(r)
  BY <1>1 DEF Grows
<1>3. Len(resources[d.snapshot].data) \in 1..MaxVersion /\ Len(resources[r].data) \in 1..MaxVersion
  BY <1>1, DataOK
<1>4. r \in DOMAIN resources' /\ d.snapshot \in DOMAIN resources'
  BY <1>2 DEF Extends
<1>5. Len(resources'[r].data) \in Nat
  BY <1>4 DEF StoreOK, ResourceOK, Records
<1>6. resources'[d.snapshot].data[1] = resources[d.snapshot].data[1]
  BY <1>2, <1>3, ResourcesAssumption DEF Extends
<1>7. v \in 1..Len(resources'[r].data) /\ resources'[r].data[v] = resources[r].data[v]
  BY <1>1, <1>2, <1>3, <1>5, ResourcesAssumption DEF Extends
<1> QED
  BY <1>1, <1>4, <1>6, <1>7

--------------------------------------------------------------------------------
(* Creating resources *)

\* Kinds of resources, those the plans create included.
KindOK(kind) == kind.semantic \in ResourceSemantic /\ kind.file \in BOOLEAN

\* What the methods that create a resource have in common.
Creates(r, kind, data) ==
  /\ r \in Ids /\ Fresh(r) /\ KindOK(kind) /\ data \in Contents
  /\ Idle /\ Store(r, kind, data) /\ UNCHANGED <<values, tokens, writing, now>>

LEMMA StoreStep ==
  ASSUME TablesInv, NEW r, NEW kind, NEW data, Creates(r, kind, data)
  PROVE  /\ StoreOK' /\ WritingOK' /\ Grows /\ r \in DOMAIN resources'
         /\ resources'[r].data = <<data>>
         /\ \A x \in DOMAIN resources : x # r /\ resources'[x] = resources[x]
<1> USE DEF Creates
<1>1. StoreOK /\ r \notin DOMAIN resources /\ r \notin values
  BY DEF TablesInv, Fresh
<1>2. /\ DOMAIN resources' = DOMAIN resources \cup {r}
      /\ resources'[r] = Record(kind, data)
      /\ \A x \in DOMAIN resources : x # r /\ resources'[x] = resources[x]
  BY <1>1 DEF Store
<1>3. /\ files' \in [Ids -> Contents \cup {None}]
      /\ \A x \in Ids \ {r} : files'[x] = files[x]
      /\ kind.file => files'[r] = data
  BY <1>1 DEF Store, StoreOK
<1>4. /\ <<data>> \in Seq(Contents) /\ Len(<<data>>) = 1 /\ Last(<<data>>) = data
  BY SingletonOK
<1>5. ResourceOK(r)'
  <2>1. /\ resources'[r].semantic = kind.semantic /\ resources'[r].file = kind.file
        /\ resources'[r].version = 1 /\ resources'[r].generation = 1
        /\ resources'[r].data = <<data>> /\ resources'[r].lease = None
    BY <1>2 DEF Record
  <2>2. resources'[r] \in Records
    BY <1>2, <1>4, ResourcesAssumption DEF Record, Records, KindOK
  <2> QED
    BY <1>3, <1>4, <2>1, <2>2 DEF ResourceOK, Data
<1>6. Touches(r)
  BY <1>1, <1>2, <1>3 DEF Touches, StoreOK
<1>7. StoreOK'
  BY <1>1, <1>5, <1>6, StoreKept
<1>8. WritingOK'
  BY DEF Idle, WritingOK
<1>9. Grows
  <2> SUFFICES ASSUME NEW x \in DOMAIN resources PROVE Extends(x)
    BY DEF Grows
  <2>1. Len(resources[x].data) \in Nat
    BY <1>1, DataOK, ResourcesAssumption
  <2> QED
    BY <1>2, <2>1 DEF Extends
<1> QED
  BY <1>2, <1>7, <1>8, <1>9 DEF Record

\* A step that leaves the resources alone loses no version.
LEMMA SameResources ==
  ASSUME StoreOK, resources' = resources
  PROVE  Grows
<1> SUFFICES ASSUME NEW x \in DOMAIN resources PROVE Extends(x)
  BY DEF Grows
<1>1. Len(resources[x].data) \in Nat
  BY DataOK, ResourcesAssumption
<1> QED
  BY <1>1 DEF Extends

LEMMA SameSnapshots ==
  ASSUME TablesInv, StoreOK', WritingOK', Grows, snapshots' = snapshots
  PROVE  TablesInv'
  BY SnapshotsKept DEF TablesInv, SnapshotsOK, SnapshotOfItsVersion

LEMMA CreateOK ==
  ASSUME TablesInv, NEW r \in Ids, Create(r)
  PROVE  TablesInv' /\ Grows
<1>1. PICK kind \in Kinds : Store(r, kind, <<r, 1>>)
  BY DEF Create
<1>2. KindOK(kind) /\ <<r, 1>> \in Contents
  BY ResourcesAssumption DEF KindOK, Contents
<1>3. Creates(r, kind, <<r, 1>>)
  BY <1>1, <1>2 DEF Create, Creates
<1>4. StoreOK' /\ WritingOK' /\ Grows
  BY <1>3, StoreStep
<1> QED
  BY <1>4, SameSnapshots DEF Create

LEMMA CopyOnWriteOK ==
  ASSUME TablesInv, NEW r \in Ids, CopyOnWrite(r)
  PROVE  TablesInv' /\ Grows
<1>1. KindOK(CowKind) /\ <<r, 1>> \in Contents
  BY DEF KindOK, CowKind, Contents, ResourceSemantic
<1>2. Creates(r, CowKind, <<r, 1>>)
  BY <1>1 DEF CopyOnWrite, Creates
<1>3. StoreOK' /\ WritingOK' /\ Grows
  BY <1>2, StoreStep
<1> QED
  BY <1>3, SameSnapshots DEF CopyOnWrite

LEMMA SnapshotReadPlanOK ==
  ASSUME TablesInv, NEW r \in Ids, NEW ref \in Held, SnapshotReadPlan(r, ref)
  PROVE  TablesInv' /\ Grows
<1>1. StoreOK /\ ref \in Refs /\ ref.id \in DOMAIN resources
  BY DEF TablesInv, Held
<1>2. resources[ref.id].generation = ref.generation /\ ref.generation = ref.version
  BY <1>1 DEF SnapshotReadPlan, Readable, Refs, Ref
<1>3. ResourceOK(ref.id) /\ ref.version = resources[ref.id].version
  BY <1>1, <1>2 DEF StoreOK, ResourceOK
<1>4. /\ Bytes(ref.id) \in Contents /\ Bytes(ref.id) \in {Torn, Data(ref.id)}
      /\ Data(ref.id) = resources[ref.id].data[ref.version]
  BY <1>1, <1>3, DataOK
<1>5. KindOK(SnapshotKind)
  BY DEF KindOK, SnapshotKind, ResourceSemantic
<1>10. Creates(r, SnapshotKind, Bytes(ref.id))
  BY <1>4, <1>5 DEF SnapshotReadPlan, Creates
<1>6. /\ StoreOK' /\ WritingOK' /\ Grows /\ r \in DOMAIN resources'
      /\ resources'[r].data = <<Bytes(ref.id)>>
      /\ resources'[ref.id] = resources[ref.id]
  BY <1>1, <1>10, StoreStep
<1> DEFINE new == [snapshot |-> r, source |-> ref]
<1>7. snapshots' = snapshots \cup {new}
  BY DEF SnapshotReadPlan
<1>8. /\ new.snapshot \in DOMAIN resources' /\ new.source.id \in DOMAIN resources'
      /\ new.source.version \in 1..Len(resources'[new.source.id].data)
      /\ resources'[new.snapshot].data[1]
           \in {Torn, resources'[new.source.id].data[new.source.version]}
  <2>1. ref.id \in DOMAIN resources'
    BY <1>1, <1>6 DEF Grows, Extends
  <2>2. ref.version \in 1..Len(resources[ref.id].data)
    BY <1>1, <1>3, DataOK, ResourcesAssumption DEF ResourceOK
  <2> QED
    BY <1>4, <1>6, <2>1, <2>2
<1>9. SnapshotsOK'
  <2> SUFFICES ASSUME NEW d \in snapshots'
               PROVE  /\ d.snapshot \in DOMAIN resources' /\ d.source.id \in DOMAIN resources'
                      /\ d.source.version \in 1..Len(resources'[d.source.id].data)
                      /\ resources'[d.snapshot].data[1]
                           \in {Torn, resources'[d.source.id].data[d.source.version]}
    BY DEF SnapshotsOK, SnapshotOfItsVersion
  <2>1. d \in snapshots \/ d = new
    BY <1>7
  <2> HIDE DEF new
  <2> QED
    BY <1>1, <1>6, <1>8, <2>1, SnapshotsKept DEF TablesInv
<1> QED
  BY <1>6, <1>9 DEF TablesInv

LEMMA PackValueOK ==
  ASSUME TablesInv, NEW r \in Ids, PackValue(r)
  PROVE  TablesInv' /\ Grows
<1>1. /\ resources' = resources /\ files' = files /\ tokens' = tokens /\ now' = now
      /\ writing' = writing /\ snapshots' = snapshots
  BY DEF PackValue
<1>2. values' \subseteq Ids \ DOMAIN resources
  BY DEF PackValue, Fresh, TablesInv, StoreOK
<1>3. ASSUME NEW x \in DOMAIN resources PROVE ResourceOK(x)'
  BY <1>1, <1>3 DEF TablesInv, StoreOK, ResourceOK, Data
<1>4. StoreOK'
  BY <1>1, <1>2, <1>3 DEF TablesInv, StoreOK
<1>5. WritingOK'
  BY <1>1 DEF TablesInv, WritingOK
<1> QED
  BY <1>1, <1>4, <1>5, SameResources, SameSnapshots DEF TablesInv

--------------------------------------------------------------------------------
(* Leases and writes *)

LEMMA TokenOK ==
  ASSUME StoreOK, NEW r \in DOMAIN resources, NEW owner \in {"runner", "resource-plan"},
         NEW expires \in Nat \cup {None}, NEW base \in Nat
  PROVE  LET token == NewToken(r, owner, expires, base)
         IN /\ token \in Tokens /\ token # None /\ token.id = r /\ token.base = base
            /\ tokens \cup {token} \subseteq Tokens /\ IsFiniteSet(tokens \cup {token})
<1>1. r \in Ids /\ resources[r].generation \in Nat
  BY ResourcesAssumption DEF StoreOK, ResourceOK, Records
<1>2. Cardinality(tokens) + 1 \in Nat
  BY FS_CardinalityType DEF StoreOK
<1>3. NewToken(r, owner, expires, base) \in Tokens
  BY <1>1, <1>2 DEF NewToken, Tokens
<1>4. NewToken(r, owner, expires, base) # None
  BY <1>3, ResourcesAssumption
<1>5. IsFiniteSet(tokens \cup {NewToken(r, owner, expires, base)})
  BY FS_AddElement DEF StoreOK
<1> QED
  BY <1>3, <1>4, <1>5 DEF NewToken, StoreOK

\* A lease is taken: the record gets it, and a file may be torn under it.
Leases(r, token) ==
  /\ r \in DOMAIN resources /\ token \in Tokens /\ token # None
  /\ token.id = r /\ token.base = resources[r].version
  /\ resources' = [resources EXCEPT ![r].lease = token]
  /\ files' = files \/ files' = [files EXCEPT ![r] = Torn]
  /\ tokens \subseteq tokens' /\ token \in tokens'
  /\ tokens' \subseteq Tokens /\ IsFiniteSet(tokens')
  /\ values' = values /\ now' = now

LEMMA LeaseStep ==
  ASSUME TablesInv, NEW r, NEW token, Leases(r, token)
  PROVE  /\ StoreOK' /\ Grows /\ DOMAIN resources' = DOMAIN resources
         /\ resources'[r].lease = token /\ resources'[r].version = resources[r].version
         /\ \A x \in DOMAIN resources \ {r} : resources'[x] = resources[x]
<1> USE DEF Leases
<1>1. StoreOK /\ ResourceOK(r) /\ r \in Ids /\ r \notin values
  BY DEF TablesInv, StoreOK
<1>2. /\ DOMAIN resources' = DOMAIN resources
      /\ resources'[r] = [resources[r] EXCEPT !.lease = token]
      /\ \A x \in DOMAIN resources \ {r} : resources'[x] = resources[x]
  OBVIOUS
<1>3. resources[r] \in Records
  BY <1>1 DEF ResourceOK
<1>4. /\ resources'[r].semantic = resources[r].semantic
      /\ resources'[r].file = resources[r].file
      /\ resources'[r].version = resources[r].version
      /\ resources'[r].generation = resources[r].generation
      /\ resources'[r].data = resources[r].data
      /\ resources'[r].lease = token
      /\ resources'[r] \in Records
  BY <1>2, <1>3 DEF Records
<1>5. /\ files' \in [Ids -> Contents \cup {None}]
      /\ \A x \in Ids \ {r} : files'[x] = files[x]
      /\ files'[r] = files[r] \/ files'[r] = Torn
  BY <1>1 DEF StoreOK, Contents
<1>6. ResourceOK(r)'
  <2>1. Data(r)' = Data(r)
    BY <1>4 DEF Data
  <2> QED
    BY <1>1, <1>4, <1>5, <2>1 DEF ResourceOK
<1>7. Touches(r)
  <2>1. DOMAIN resources' = DOMAIN resources \cup {r}
    BY <1>2
  <2> QED
    BY <1>1, <1>2, <1>5, <2>1 DEF Touches
<1>8. StoreOK'
  BY <1>1, <1>6, <1>7, StoreKept
<1>9. Grows
  <2> SUFFICES ASSUME NEW x \in DOMAIN resources PROVE Extends(x)
    BY DEF Grows
  <2>1. Len(resources[x].data) \in Nat
    BY <1>1, DataOK, ResourcesAssumption
  <2> QED
    BY <1>2, <1>4, <2>1 DEF Extends
<1> QED
  BY <1>2, <1>4, <1>8, <1>9

LEMMA AcquireLeases ==
  ASSUME TablesInv, NEW r \in Ids, NEW expires \in Expiries, AcquireWriteLease(r, expires)
  PROVE  Leases(r, NewToken(r, "runner", expires, resources[r].version))
<1> DEFINE token == NewToken(r, "runner", expires, resources[r].version)
<1>1. /\ r \in DOMAIN resources /\ resources' = [resources EXCEPT ![r].lease = token]
      /\ tokens' = tokens \cup {token} /\ snapshots' = snapshots
      /\ writing' = None /\ files' = files /\ values' = values /\ now' = now
  BY DEF AcquireWriteLease, Leasable, Idle
<1>2. StoreOK /\ resources[r].version \in Nat /\ expires \in Nat \cup {None}
  BY <1>1, ResourcesAssumption DEF TablesInv, StoreOK, ResourceOK, Records
<1>3. /\ token \in Tokens /\ token # None /\ token.id = r /\ token.base = resources[r].version
      /\ tokens \cup {token} \subseteq Tokens /\ IsFiniteSet(tokens \cup {token})
  BY <1>1, <1>2, TokenOK
<1> HIDE DEF token
<1>4. Leases(r, token)
  BY <1>1, <1>3 DEF Leases
<1> QED
  BY <1>4 DEF token

LEMMA AcquireWriteLeaseOK ==
  ASSUME TablesInv, NEW r \in Ids, NEW expires \in Expiries, AcquireWriteLease(r, expires)
  PROVE  TablesInv' /\ Grows
<1>1. StoreOK' /\ Grows
  BY AcquireLeases, LeaseStep
<1>2. WritingOK' /\ snapshots' = snapshots
  BY DEF AcquireWriteLease, Idle, WritingOK
<1> QED
  BY <1>1, <1>2, SameSnapshots

LEMMA StartWritingOK ==
  ASSUME TablesInv, NEW token, Leases(token.id, token), StartWriting(token),
         snapshots' = snapshots
  PROVE  TablesInv' /\ Grows
<1>1. /\ StoreOK' /\ Grows /\ DOMAIN resources' = DOMAIN resources
      /\ resources'[token.id].lease = token
      /\ resources'[token.id].version = resources[token.id].version
  BY LeaseStep
<1>2. WritingOK'
  BY <1>1 DEF WritingOK, StartWriting, Leases
<1> QED
  BY <1>1, <1>2, SameSnapshots

LEMMA WriteLeases ==
  ASSUME TablesInv, NEW token \in tokens, WriteWithLease(token)
  PROVE  Leases(token.id, token) /\ resources[token.id].lease = token
<1>1. /\ token.id \in DOMAIN resources /\ resources[token.id].lease = token
      /\ StartWriting(token) /\ tokens' = tokens /\ snapshots' = snapshots
      /\ values' = values /\ now' = now
  BY DEF WriteWithLease, MayWrite
<1>2. token \in Tokens /\ token # None /\ tokens \subseteq Tokens /\ IsFiniteSet(tokens)
  BY ResourcesAssumption DEF TablesInv, StoreOK
<1>3. token.base = resources[token.id].version
  BY <1>1, <1>2 DEF TablesInv, StoreOK, ResourceOK
<1>4. Leases(token.id, token)
  BY <1>1, <1>2, <1>3 DEF Leases, StartWriting
<1> QED
  BY <1>1, <1>4

LEMMA WriteWithLeaseOK ==
  ASSUME TablesInv, NEW token \in tokens, WriteWithLease(token)
  PROVE  TablesInv' /\ Grows
<1>1. StartWriting(token) /\ snapshots' = snapshots
  BY DEF WriteWithLease
<1> QED
  BY <1>1, WriteLeases, StartWritingOK

LEMMA CommitLeases ==
  ASSUME TablesInv, NEW ref \in Held, CommitWritePlan(BuildWritePlan(ref))
  PROVE  LET token == NewToken(ref.id, "resource-plan", None, ref.version)
         IN Leases(token.id, token) /\ StartWriting(token) /\ token.id = ref.id
<1> DEFINE r == ref.id
           token == NewToken(r, "resource-plan", None, ref.version)
<1>1. /\ r \in DOMAIN resources /\ resources[r].generation = ref.generation
      /\ StartWriting(token) /\ tokens' = tokens \cup {token}
      /\ snapshots' = snapshots /\ values' = values /\ now' = now
  BY DEF CommitWritePlan, MayCommit, Readable, BuildWritePlan
<1>2. ref.version = resources[r].version /\ ref.version \in Nat
  <2>1. ref.generation = ref.version
    BY DEF Held, Refs, Ref
  <2> QED
    BY <1>1, <2>1, ResourcesAssumption DEF TablesInv, StoreOK, ResourceOK, Records
<1>3. /\ token \in Tokens /\ token # None /\ token.id = r /\ token.base = ref.version
      /\ tokens \cup {token} \subseteq Tokens /\ IsFiniteSet(tokens \cup {token})
  BY <1>1, <1>2, TokenOK DEF TablesInv
<1> HIDE DEF token
<1>4. Leases(token.id, token)
  BY <1>1, <1>2, <1>3 DEF Leases, StartWriting
<1> QED
  BY <1>1, <1>3, <1>4 DEF token

LEMMA CommitWritePlanOK ==
  ASSUME TablesInv, NEW ref \in Held, CommitWritePlan(BuildWritePlan(ref))
  PROVE  TablesInv' /\ Grows
<1> DEFINE token == NewToken(ref.id, "resource-plan", None, ref.version)
<1>1. Leases(token.id, token) /\ StartWriting(token)
  BY CommitLeases
<1>2. snapshots' = snapshots
  BY DEF CommitWritePlan
<1> HIDE DEF token
<1> QED
  BY <1>1, <1>2, StartWritingOK

LEMMA WriteEndsOK ==
  ASSUME TablesInv, WriteEnds
  PROVE  TablesInv' /\ Grows
<1>0. PICK r : r = writing.id
  OBVIOUS
<1> DEFINE v == resources[r].version + 1
           new == <<r, v>>
<1>1. /\ writing \in Tokens /\ r \in DOMAIN resources /\ r \in Ids
      /\ resources[r].version < MaxVersion
      /\ StoreOK /\ ResourceOK(r) /\ r \notin values
  BY <1>0 DEF WriteEnds, TablesInv, WritingOK, StoreOK
<1>2. /\ resources[r] \in Records /\ v \in 1..MaxVersion /\ v \in Nat
      /\ new \in Contents /\ resources[r].data \in Seq(Contents)
      /\ Len(resources[r].data) = resources[r].version
      /\ resources[r].generation + 1 = v
  BY <1>1, ResourcesAssumption DEF ResourceOK, Records, Contents
<1> DEFINE data == Append(resources[r].data, new)
           record == [resources[r] EXCEPT !.version = v, !.generation = @ + 1,
                                          !.data = Append(@, new), !.lease = None]
<1>3. /\ files' = (IF resources[r].file THEN [files EXCEPT ![r] = new] ELSE files)
      /\ resources' = [resources EXCEPT ![r] = record]
      /\ writing' = None /\ values' = values /\ tokens' = tokens /\ snapshots' = snapshots
      /\ now' = now
  <2>1. resources' = [resources EXCEPT ![r] = record]
    BY <1>0, <1>1, <1>2 DEF WriteEnds, Records
  <2>2. files' = (IF resources[r].file THEN [files EXCEPT ![r] = new] ELSE files)
    BY <1>0, <1>1, <1>2 DEF WriteEnds, Records
  <2> QED
    BY <2>1, <2>2, Zenon DEF WriteEnds
<1>4. /\ data \in Seq(Contents) /\ Len(data) = v /\ Last(data) = new
      /\ \A i \in 1..Len(resources[r].data) : data[i] = resources[r].data[i]
  BY <1>2, AppendOK
<1>5. /\ record.version = v /\ record.generation = v /\ record.data = data
      /\ record.lease = None /\ record.file = resources[r].file
      /\ record.semantic = resources[r].semantic /\ record \in Records
  BY <1>2, <1>4 DEF Records
<1> HIDE DEF record, data, new
<1>6. /\ DOMAIN resources' = DOMAIN resources /\ resources'[r] = record
      /\ \A x \in DOMAIN resources \ {r} : resources'[x] = resources[x]
  BY <1>1, <1>3
<1>7. /\ files' \in [Ids -> Contents \cup {None}]
      /\ \A x \in Ids \ {r} : files'[x] = files[x]
      /\ record.file => files'[r] = new
  BY <1>1, <1>2, <1>3, <1>5 DEF StoreOK
<1>8. ResourceOK(r)'
  <2>1. Data(r)' = new
    BY <1>4, <1>5, <1>6 DEF Data
  <2> QED
    BY <1>4, <1>5, <1>6, <1>7, <2>1 DEF ResourceOK
<1>9. Touches(r)
  BY <1>1, <1>3, <1>6, <1>7 DEF Touches, StoreOK
<1>10. StoreOK'
  BY <1>1, <1>8, <1>9, StoreKept
<1>11. Grows
  <2> SUFFICES ASSUME NEW x \in DOMAIN resources PROVE Extends(x)
    BY DEF Grows
  <2>1. Len(resources[x].data) \in Nat
    BY <1>1, DataOK, ResourcesAssumption
  <2>2. CASE x = r
    BY <1>2, <1>4, <1>5, <1>6, <2>1, <2>2 DEF Extends
  <2>3. CASE x # r
    BY <1>6, <2>1, <2>3 DEF Extends
  <2> QED
    BY <2>2, <2>3
<1>12. WritingOK'
  BY <1>3 DEF WritingOK
<1> QED
  BY <1>3, <1>10, <1>11, <1>12, SameSnapshots

LEMMA WriteFailsOK ==
  ASSUME TablesInv, WriteFails
  PROVE  TablesInv' /\ Grows
<1>1. /\ writing' = None
      /\ UNCHANGED <<resources, values, files, tokens, snapshots, now>>
  BY DEF WriteFails
<1>2. StoreOK'
  BY <1>1 DEF TablesInv, StoreOK, ResourceOK, Data
<1>3. WritingOK'
  BY <1>1 DEF WritingOK
<1> QED
  BY <1>1, <1>2, <1>3, SameResources, SameSnapshots DEF TablesInv

\* Ticks, the steps of the worker, and stuttering.
LEMMA SameTables ==
  ASSUME TablesInv, now' \in 0..MaxStep,
         UNCHANGED <<resources, values, files, tokens, writing, snapshots>>
  PROVE  TablesInv' /\ Grows
<1>1. StoreOK'
  BY DEF TablesInv, StoreOK, ResourceOK, Data
<1>2. WritingOK'
  BY DEF TablesInv, WritingOK
<1> QED
  BY <1>1, <1>2, SameResources, SameSnapshots DEF TablesInv

--------------------------------------------------------------------------------
(* The worker *)

\* A command executed: a step or a compensation, and which.
Marks == {"step", "compensation"} \X Nat

\* The frame of a request: what the thread knows on its way through it.
Frames == [request : Exports \cup Batches \cup Sagas, at : Nat, receipts : Seq(Refs),
           output : Contents \cup {None}, failed_step : Nat, compensation_failures : Nat,
           ran : Seq(Marks),
           phase : {"find", "read", "steps", "compensate", "done", "failed"}]

FrameOK == worker # None => worker \in Frames

\* An export finds its resource, and the version its reference names stays there.
ExportOK ==
  /\ At("find") \/ At("read") => worker.request.type = "export" /\ worker.ran = <<>>
                                   /\ worker.failed_step = 0
  /\ At("read") \/ (At("done") /\ worker.request.type = "export") =>
       /\ worker.request.export.id \in DOMAIN resources
       /\ worker.request.export.version
            \in 1..Len(resources[worker.request.export.id].data)
  /\ At("read") => resources[worker.request.export.id].file

Receipts(steps, n) == [i \in 1..n |-> steps[i].capability]

StepsTried(n) == [i \in 1..n |-> <<"step", i>>]

CompensationsTried(n, m) == [i \in 1..m |-> <<"compensation", n + 1 - i>>]

\* The commands before the current one have been executed, and have their receipts.
StepsOK ==
  At("steps") =>
    /\ worker.request.type # "export"
    /\ worker.at \in 1..Len(worker.request.steps)
    /\ worker.receipts = Receipts(worker.request.steps, worker.at - 1)
    /\ worker.ran = StepsTried(worker.at - 1)
    /\ worker.failed_step = 0

\* So have the compensations after the current one, after the steps up to the failed one.
CompensateOK ==
  At("compensate") =>
    LET n == Len(worker.request.compensations)
    IN /\ worker.request.type = "saga"
       /\ worker.at \in 1..n
       /\ worker.ran = StepsTried(worker.failed_step) \o CompensationsTried(n, n - worker.at)

WorkerInv == FrameOK /\ ExportOK /\ StepsOK /\ CompensateOK /\ RequestEndsWhole /\ ExportedBytes

(* Sequences of commands executed *)

LEMMA StepsTriedOK ==
  ASSUME NEW n \in Nat
  PROVE  /\ StepsTried(n) \in Seq(Marks) /\ Len(StepsTried(n)) = n
         /\ StepsTried(n) = Tried("step", UpTo(n))
         /\ Append(StepsTried(n), <<"step", n + 1>>) = StepsTried(n + 1)
         /\ StepsTried(0) = <<>>
<1>1. \A i \in 1..n : <<"step", i>> \in Marks
  BY DEF Marks
<1>2. StepsTried(n) \in Seq(Marks)
  BY <1>1, IsASeq DEF StepsTried
<1>3. Len(StepsTried(n)) = n
  BY DEF StepsTried
<1>4. StepsTried(n) = Tried("step", UpTo(n))
  BY DEF StepsTried, Tried, UpTo
<1>5. Append(StepsTried(n), <<"step", n + 1>>) = StepsTried(n + 1)
  BY DEF StepsTried
<1>6. StepsTried(0) = <<>>
  BY DEF StepsTried
<1> QED
  BY <1>2, <1>3, <1>4, <1>5, <1>6

LEMMA CompensationsTriedOK ==
  ASSUME NEW n \in Nat, NEW m \in 0..n
  PROVE  /\ CompensationsTried(n, m) \in Seq(Marks) /\ Len(CompensationsTried(n, m)) = m
         /\ m < n => Append(CompensationsTried(n, m), <<"compensation", n - m>>)
                       = CompensationsTried(n, m + 1)
         /\ CompensationsTried(n, 0) = <<>>
         /\ CompensationsTried(n, n) = Tried("compensation", Reverse(UpTo(n)))
<1>1. \A i \in 1..m : <<"compensation", n + 1 - i>> \in Marks
  BY DEF Marks
<1>2. CompensationsTried(n, m) \in Seq(Marks)
  BY <1>1, IsASeq DEF CompensationsTried
<1>3. Len(CompensationsTried(n, m)) = m
  BY DEF CompensationsTried
<1>4. m < n => Append(CompensationsTried(n, m), <<"compensation", n - m>>)
                 = CompensationsTried(n, m + 1)
  BY DEF CompensationsTried
<1>5. CompensationsTried(n, 0) = <<>>
  BY DEF CompensationsTried
<1>6. CompensationsTried(n, n) = Tried("compensation", Reverse(UpTo(n)))
  <2>1. Len(UpTo(n)) = n /\ \A i \in 1..n : UpTo(n)[i] = i
    BY DEF UpTo
  <2>2. Reverse(UpTo(n)) = [i \in 1..n |-> n - i + 1]
    BY <2>1 DEF Reverse
  <2> QED
    BY <2>2 DEF CompensationsTried, Tried
<1> QED
  BY <1>2, <1>3, <1>4, <1>5, <1>6

LEMMA ReceiptsOK ==
  ASSUME NEW steps \in Seq(Commands), NEW n \in 0..Len(steps)
  PROVE  /\ Receipts(steps, n) \in Seq(Refs) /\ Receipts(steps, 0) = <<>>
         /\ n < Len(steps) => /\ steps[n + 1].capability \in Refs
                              /\ Append(Receipts(steps, n), steps[n + 1].capability)
                                   = Receipts(steps, n + 1)
         /\ Receipts(steps, Len(steps)) = [i \in DOMAIN steps |-> steps[i].capability]
<1>1. Len(steps) \in Nat /\ \A i \in 1..Len(steps) : steps[i].capability \in Refs
  <2>1. Len(steps) \in Nat /\ \A i \in 1..Len(steps) : steps[i] \in Commands
    BY ElementOfSeq, LenProperties
  <2> QED
    BY <2>1 DEF Commands
<1>2. Receipts(steps, n) \in Seq(Refs)
  BY <1>1, IsASeq DEF Receipts
<1>3. Receipts(steps, 0) = <<>>
  BY DEF Receipts
<1>4. n < Len(steps) => Append(Receipts(steps, n), steps[n + 1].capability)
                          = Receipts(steps, n + 1)
  BY <1>1 DEF Receipts
<1>5. DOMAIN steps = 1..Len(steps)
  OBVIOUS
<1>6. Receipts(steps, Len(steps)) = [i \in DOMAIN steps |-> steps[i].capability]
  BY <1>5 DEF Receipts
<1> QED
  BY <1>1, <1>2, <1>3, <1>4, <1>6

LEMMA ConcatOK ==
  ASSUME NEW s \in Seq(Marks), NEW t \in Seq(Marks), NEW e \in Marks
  PROVE  /\ s \o t \in Seq(Marks) /\ Append(s \o t, e) = s \o Append(t, e)
         /\ s \o <<>> = s
<1>1. s \o t \in Seq(Marks) /\ s \o <<>> = s
  BY ConcatProperties, ConcatEmptySeq
<1>2. <<e>> \in Seq(Marks)
  OBVIOUS
<1>3. Append(s \o t, e) = (s \o t) \o <<e>> /\ Append(t, e) = t \o <<e>>
  BY <1>1, AppendIsConcat
<1>4. (s \o t) \o <<e>> = s \o (t \o <<e>>)
  BY <1>2, ConcatAssociative
<1> QED
  BY <1>1, <1>3, <1>4

LEMMA RequestOK ==
  ASSUME NEW q \in Exports \cup Batches \cup Sagas
  PROVE  /\ q.type \in {"export", "batch", "saga"} /\ q.rollback_guarantee \in BOOLEAN
         /\ q.type = "export" => q.export \in Refs
         /\ q.type # "export" => q.steps \in Seq(Commands)
         /\ q.type = "saga" => q.compensations \in Seq(Commands) /\ ~q.rollback_guarantee
<1>1. CASE q \in Exports
  BY <1>1 DEF Exports
<1>2. CASE q \in Batches
  BY <1>2 DEF Batches
<1>3. CASE q \in Sagas
  BY <1>3 DEF Sagas
<1> QED
  BY <1>1, <1>2, <1>3

--------------------------------------------------------------------------------
(* Steps of the worker *)

\* Runner code only adds versions to what the thread reads.
LEMMA LoopKeepsWorker ==
  ASSUME TablesInv, TablesInv', WorkerInv, Grows, worker' = worker
  PROVE  WorkerInv'
<1>1. FrameOK' /\ StepsOK' /\ CompensateOK' /\ RequestEndsWhole'
  BY DEF WorkerInv, FrameOK, StepsOK, CompensateOK, RequestEndsWhole, At
<1> DEFINE r == worker.request.export.id
           v == worker.request.export.version
<1>2. ASSUME r \in DOMAIN resources, v \in 1..Len(resources[r].data)
      PROVE  /\ Len(resources[r].data) \in Nat /\ Len(resources'[r].data) \in Nat
             /\ r \in DOMAIN resources' /\ resources'[r].file = resources[r].file
             /\ Len(resources'[r].data) >= Len(resources[r].data)
             /\ \A i \in 1..Len(resources[r].data) : resources'[r].data[i] = resources[r].data[i]
  <2>1. Extends(r)
    BY <1>2 DEF Grows
  <2>2. Len(resources[r].data) \in Nat
    BY <1>2, DataOK, ResourcesAssumption DEF TablesInv
  <2>3. Len(resources'[r].data) \in Nat
    BY <2>1 DEF Extends, TablesInv, StoreOK, ResourceOK, Records
  <2> QED
    BY <2>1, <2>2, <2>3 DEF Extends
<1>3. ExportOK'
  <2>1. ASSUME At("read") \/ (At("done") /\ worker.request.type = "export")
        PROVE  r \in DOMAIN resources' /\ v \in 1..Len(resources'[r].data)
    <3>1. r \in DOMAIN resources /\ v \in 1..Len(resources[r].data)
      BY <2>1 DEF WorkerInv, ExportOK
    <3> QED
      BY <1>2, <3>1
  <2>2. ASSUME At("read") PROVE resources'[r].file
    <3>1. r \in DOMAIN resources /\ v \in 1..Len(resources[r].data) /\ resources[r].file
      BY <2>2 DEF WorkerInv, ExportOK
    <3> QED
      BY <1>2, <3>1
  <2>3. At("find") \/ At("read") => worker.request.type = "export" /\ worker.ran = <<>>
                                     /\ worker.failed_step = 0
    BY DEF WorkerInv, ExportOK
  <2> QED
    BY <2>1, <2>2, <2>3 DEF ExportOK, At
<1>4. ExportedBytes'
  <2> SUFFICES ASSUME At("done"), worker.request.type = "export"
               PROVE  \E i \in v..Len(resources'[r].data) :
                        \/ i = v /\ worker.output = resources'[r].data[i]
                        \/ resources'[r].file /\ worker.output \in {Torn, resources'[r].data[i]}
    BY DEF ExportedBytes, At
  <2>1. r \in DOMAIN resources /\ v \in 1..Len(resources[r].data)
    BY DEF WorkerInv, ExportOK
  <2>2. PICK i \in v..Len(resources[r].data) :
          \/ i = v /\ worker.output = resources[r].data[i]
          \/ resources[r].file /\ worker.output \in {Torn, resources[r].data[i]}
    BY DEF WorkerInv, ExportedBytes
  <2>3. i \in v..Len(resources'[r].data) /\ resources'[r].data[i] = resources[r].data[i]
    BY <1>2, <2>1
  <2> QED
    BY <1>2, <2>1, <2>2, <2>3
<1> QED
  BY <1>1, <1>3, <1>4 DEF WorkerInv

LEMMA StartRequestOK ==
  ASSUME NEW q \in Requests, StartRequest(q)
  PROVE  WorkerInv'
<1> DEFINE phase == IF q.type = "export" THEN "find"
                    ELSE IF q.rollback_guarantee THEN "failed"
                    ELSE IF q.steps = <<>> THEN "done" ELSE "steps"
           frame == [request |-> q, at |-> 1, receipts |-> <<>>, output |-> None,
                     failed_step |-> 0, compensation_failures |-> 0, ran |-> <<>>,
                     phase |-> phase]
<1>1. worker' = frame
  BY Zenon DEF StartRequest
<1>2. /\ q \in Exports \cup Batches \cup Sagas
      /\ q.type \in {"export", "batch", "saga"} /\ q.rollback_guarantee \in BOOLEAN
      /\ q.type # "export" => q.steps \in Seq(Commands)
      /\ q.type = "saga" => ~q.rollback_guarantee
  BY ResourcesAssumption, RequestOK
<1>3. /\ q.type = "export" => phase = "find"
      /\ q.type # "export" /\ q.rollback_guarantee => phase = "failed"
      /\ q.type # "export" /\ ~q.rollback_guarantee /\ q.steps = <<>> => phase = "done"
      /\ q.type # "export" /\ ~q.rollback_guarantee /\ q.steps # <<>> => phase = "steps"
  BY <1>2
<1>4. phase \in {"find", "failed", "done", "steps"}
  BY <1>2, <1>3
<1> HIDE DEF phase
<1>10. /\ frame.request = q /\ frame.at = 1 /\ frame.receipts = <<>> /\ frame.failed_step = 0
       /\ frame.ran = <<>> /\ frame.output = None /\ frame.phase = phase
  OBVIOUS
<1>5. frame \in Frames
  <2>1. <<>> \in Seq(Refs) /\ <<>> \in Seq(Marks) /\ None \in Contents \cup {None}
    OBVIOUS
  <2> QED
    BY <1>2, <1>4, <2>1 DEF Frames
<1> HIDE DEF frame
<1>6. FrameOK' /\ ExportOK' /\ CompensateOK'
  BY <1>1, <1>2, <1>3, <1>4, <1>5, <1>10 DEF FrameOK, ExportOK, CompensateOK, At
<1>7. StepsOK'
  <2> SUFFICES ASSUME phase = "steps"
               PROVE  /\ q.type # "export" /\ 1 \in 1..Len(q.steps)
                      /\ <<>> = Receipts(q.steps, 0) /\ <<>> = StepsTried(0)
    BY <1>1, <1>10 DEF StepsOK, At
  <2>1. q.steps \in Seq(Commands) /\ q.steps # <<>> /\ q.type # "export"
    BY <1>2, <1>3
  <2>2. Len(q.steps) \in Nat \ {0}
    BY <2>1, EmptySeq
  <2> QED
    <3>1. Receipts(q.steps, 0) = <<>>
      BY <2>1, <2>2, ReceiptsOK
    <3>2. StepsTried(0) = <<>>
      BY StepsTriedOK
    <3> QED
      BY <2>1, <2>2, <3>1, <3>2
<1>8. RequestEndsWhole'
  <2>1. ASSUME phase = "done"
        PROVE  /\ <<>> = [i \in DOMAIN q.steps |-> q.steps[i].capability]
               /\ <<>> = Tried("step", UpTo(Len(q.steps)))
    <3>1. q.steps = <<>> /\ Len(<<>>) = 0
      BY <1>2, <1>3, <2>1
    <3>2. <<>> = Tried("step", UpTo(0))
      BY StepsTriedOK
    <3> QED
      BY <3>1, <3>2
  <2>2. ASSUME phase = "failed"
        PROVE  <<>> = Tried("step", UpTo(0)) \o Tried("compensation", Reverse(UpTo(Len(<<>>))))
    <3>1. Len(<<>>) = 0 /\ <<>> \in Seq(Marks)
      OBVIOUS
    <3>2. Tried("step", UpTo(0)) = <<>> /\ Tried("compensation", Reverse(UpTo(0))) = <<>>
      BY StepsTriedOK, CompensationsTriedOK
    <3> QED
      BY <3>1, <3>2, ConcatEmptySeq
  <2>3. phase = "failed" => q.type # "saga"
    BY <1>2, <1>3
  <2> QED
    BY <1>1, <1>10, <2>1, <2>2, <2>3 DEF RequestEndsWhole, At
<1>9. ExportedBytes'
  BY <1>1, <1>2, <1>3, <1>10 DEF ExportedBytes, At
<1> QED
  BY <1>6, <1>7, <1>8, <1>9 DEF WorkerInv

\* An export ends in an error.
LEMMA ExportFails ==
  ASSUME WorkerInv, At("find") \/ At("read"), worker' = [worker EXCEPT !.phase = "failed"],
         LoopUnchanged
  PROVE  WorkerInv'
<1>1. /\ worker \in Frames /\ worker.request.type = "export" /\ worker.ran = <<>>
      /\ worker.failed_step = 0
  BY DEF WorkerInv, FrameOK, ExportOK, At
<1>2. /\ worker' \in Frames /\ worker'.phase = "failed" /\ worker'.request = worker.request
      /\ worker'.ran = <<>> /\ worker'.failed_step = 0
  BY <1>1 DEF Frames
<1>3. <<>> = Tried("step", UpTo(0)) \o Tried("compensation", Reverse(UpTo(Len(<<>>))))
  <2>1. Len(<<>>) = 0 /\ <<>> \in Seq(Marks)
    OBVIOUS
  <2>2. Tried("step", UpTo(0)) = <<>> /\ Tried("compensation", Reverse(UpTo(0))) = <<>>
    BY StepsTriedOK, CompensationsTriedOK
  <2> QED
    BY <2>1, <2>2, ConcatEmptySeq
<1>4. FrameOK' /\ ExportOK' /\ StepsOK' /\ CompensateOK' /\ ExportedBytes'
  BY <1>2 DEF FrameOK, ExportOK, StepsOK, CompensateOK, ExportedBytes, At
<1>5. RequestEndsWhole'
  BY <1>1, <1>2, <1>3 DEF RequestEndsWhole, At
<1> QED
  BY <1>4, <1>5 DEF WorkerInv

\* An export ends with bytes that ExportedBytes allows.
MayAnswer(ref, bytes) ==
  /\ ref.id \in DOMAIN resources /\ ref.version \in 1..Len(resources[ref.id].data)
  /\ bytes \in Contents
  /\ \E v \in ref.version..Len(resources[ref.id].data) :
       \/ v = ref.version /\ bytes = resources[ref.id].data[v]
       \/ resources[ref.id].file /\ bytes \in {Torn, resources[ref.id].data[v]}

LEMMA ExportAnswers ==
  ASSUME WorkerInv, At("find") \/ At("read"), NEW bytes, MayAnswer(worker.request.export, bytes),
         worker' = [worker EXCEPT !.phase = "done", !.output = bytes], LoopUnchanged
  PROVE  WorkerInv'
<1>1. /\ worker \in Frames /\ worker.request.type = "export" /\ worker.ran = <<>>
      /\ worker.failed_step = 0
  BY DEF WorkerInv, FrameOK, ExportOK, At
<1>2. bytes \in Contents \cup {None}
  BY DEF MayAnswer
<1>3. /\ worker' \in Frames /\ worker'.phase = "done" /\ worker'.request = worker.request
      /\ worker'.output = bytes
  BY <1>1, <1>2 DEF Frames
<1>4. FrameOK' /\ StepsOK' /\ CompensateOK'
  BY <1>3 DEF FrameOK, StepsOK, CompensateOK, At
<1>5. RequestEndsWhole'
  BY <1>1, <1>3 DEF RequestEndsWhole, At
<1>6. ExportOK'
  BY <1>3 DEF ExportOK, At, MayAnswer, LoopUnchanged
<1>7. ExportedBytes'
  BY <1>3 DEF ExportedBytes, At, MayAnswer, LoopUnchanged
<1> QED
  BY <1>4, <1>5, <1>6, <1>7 DEF WorkerInv

LEMMA FindExportedOK ==
  ASSUME TablesInv, WorkerInv, FindExported
  PROVE  WorkerInv'
<1> DEFINE ref == worker.request.export
<1>1. /\ worker \in Frames /\ worker.request.type = "export" /\ worker.ran = <<>>
      /\ worker.failed_step = 0 /\ At("find") /\ LoopUnchanged /\ worker # None
  BY DEF WorkerInv, FrameOK, ExportOK, FindExported, At
<1>2. ref \in Refs
  <2>1. worker.request \in Exports \cup Batches \cup Sagas
    BY <1>1 DEF Frames
  <2> QED
    BY <1>1, <2>1, RequestOK
<1>3. ASSUME Readable(ref)
      PROVE  /\ ref.id \in DOMAIN resources /\ ref.version = resources[ref.id].version
             /\ ref.version \in 1..Len(resources[ref.id].data)
             /\ ref.version = Len(resources[ref.id].data)
             /\ Data(ref.id) = resources[ref.id].data[ref.version] /\ Data(ref.id) \in Contents
  <2>1. ref.id \in DOMAIN resources /\ resources[ref.id].generation = ref.generation
    BY <1>3 DEF Readable
  <2>2. ref.generation = ref.version
    BY <1>2 DEF Refs, Ref
  <2>3. /\ resources[ref.id].generation = resources[ref.id].version
        /\ Len(resources[ref.id].data) = resources[ref.id].version
    BY <2>1 DEF TablesInv, StoreOK, ResourceOK
  <2> QED
    BY <2>1, <2>2, <2>3, DataOK, ResourcesAssumption DEF TablesInv
<1>4. \/ worker' = [worker EXCEPT !.phase = "failed"]
      \/ Readable(ref) /\ resources[ref.id].file /\ worker' = [worker EXCEPT !.phase = "read"]
      \/ Readable(ref) /\ worker' = [worker EXCEPT !.phase = "done", !.output = Data(ref.id)]
  BY DEF FindExported, Decodes
<1>5. CASE worker' = [worker EXCEPT !.phase = "failed"]
  BY <1>1, <1>5, ExportFails
<1>6. CASE Readable(ref) /\ resources[ref.id].file /\ worker' = [worker EXCEPT !.phase = "read"]
  <2>1. /\ worker' \in Frames /\ worker'.phase = "read" /\ worker'.request = worker.request
        /\ worker'.ran = <<>> /\ worker'.failed_step = 0
    BY <1>1, <1>6 DEF Frames
  <2>2. FrameOK' /\ StepsOK' /\ CompensateOK' /\ RequestEndsWhole' /\ ExportedBytes'
    BY <2>1 DEF FrameOK, StepsOK, CompensateOK, RequestEndsWhole, ExportedBytes, At
  <2>3. ExportOK'
    BY <1>1, <1>3, <1>6, <2>1 DEF ExportOK, At, LoopUnchanged
  <2> QED
    BY <2>2, <2>3 DEF WorkerInv
<1>7. CASE Readable(ref) /\ worker' = [worker EXCEPT !.phase = "done", !.output = Data(ref.id)]
  <2>1. MayAnswer(ref, Data(ref.id))
    BY <1>3, <1>7 DEF MayAnswer
  <2> QED
    BY <1>1, <1>7, <2>1, ExportAnswers
<1> QED
  BY <1>4, <1>5, <1>6, <1>7

LEMMA ReadExportedOK ==
  ASSUME TablesInv, WorkerInv, ReadExported
  PROVE  WorkerInv'
<1> DEFINE ref == worker.request.export
           bytes == files[ref.id]
<1>1. /\ At("read") /\ LoopUnchanged /\ ref.id \in DOMAIN resources
      /\ ref.version \in 1..Len(resources[ref.id].data) /\ resources[ref.id].file
  BY DEF WorkerInv, ExportOK, ReadExported
<1>2. bytes \in {Torn, Data(ref.id)} /\ bytes \in Contents
  BY <1>1, DataOK DEF TablesInv, Bytes
<1>3. Data(ref.id) = resources[ref.id].data[Len(resources[ref.id].data)]
  <2>1. Len(resources[ref.id].data) = resources[ref.id].version
    BY <1>1 DEF TablesInv, StoreOK, ResourceOK
  <2> QED
    BY <1>1, <2>1, DataOK DEF TablesInv
<1>4. MayAnswer(ref, bytes)
  <2>1. Len(resources[ref.id].data) \in ref.version..Len(resources[ref.id].data)
    BY <1>1, DataOK, ResourcesAssumption DEF TablesInv
  <2> QED
    BY <1>1, <1>2, <1>3, <2>1 DEF MayAnswer
<1>5. \/ worker' = [worker EXCEPT !.phase = "failed"]
      \/ worker' = [worker EXCEPT !.phase = "done", !.output = bytes]
  BY DEF ReadExported, Decodes
<1>6. CASE worker' = [worker EXCEPT !.phase = "failed"]
  BY <1>1, <1>6, ExportFails
<1>7. CASE worker' = [worker EXCEPT !.phase = "done", !.output = bytes]
  BY <1>1, <1>4, <1>7, ExportAnswers
<1> QED
  BY <1>5, <1>6, <1>7

LEMMA Countdown ==
  ASSUME NEW n \in Nat, NEW at \in 1..n
  PROVE  /\ n - at \in 0..n /\ n - at < n /\ n - (n - at) = at
         /\ (n - at) + 1 = n - (at - 1) /\ n - (at - 1) \in 0..n /\ at - 1 \in Nat
         /\ IF at = 1 THEN n - (at - 1) = n ELSE at - 1 \in 1..n
  OBVIOUS

LEMMA RunCommandOK ==
  ASSUME WorkerInv, RunCommand
  PROVE  WorkerInv'
<1> DEFINE steps == worker.request.steps
           comps == worker.request.compensations
           at == worker.at
           w == [worker EXCEPT !.ran = Append(@, <<"step", worker.at>>)]
<1>1. /\ worker \in Frames /\ worker.request.type # "export" /\ at \in 1..Len(steps)
      /\ worker.receipts = Receipts(steps, at - 1) /\ worker.ran = StepsTried(at - 1)
      /\ worker.failed_step = 0 /\ worker # None /\ worker.phase = "steps"
  BY DEF WorkerInv, FrameOK, StepsOK, RunCommand, At
<1>2. /\ worker.request \in Exports \cup Batches \cup Sagas
      /\ steps \in Seq(Commands) /\ Len(steps) \in Nat /\ at \in Nat /\ at - 1 \in 0..Len(steps)
      /\ worker.request.type = "saga" => comps \in Seq(Commands)
  <2>1. worker.request \in Exports \cup Batches \cup Sagas
    BY <1>1 DEF Frames
  <2>2. steps \in Seq(Commands)
    BY <1>1, <2>1, RequestOK
  <2> QED
    BY <1>1, <2>1, <2>2, RequestOK, LenProperties
<1>3. Append(StepsTried(at - 1), <<"step", at>>) = StepsTried(at) /\ StepsTried(at) \in Seq(Marks)
  <2>1. at - 1 \in Nat /\ (at - 1) + 1 = at
    BY <1>1, <1>2
  <2> QED
    BY <1>2, <2>1, StepsTriedOK
<1>4. /\ w \in Frames /\ w.request = worker.request /\ w.at = at
      /\ w.receipts = worker.receipts /\ w.failed_step = 0 /\ w.phase = "steps"
      /\ w.ran = StepsTried(at)
  BY <1>1, <1>3 DEF Frames
<1>5. \/ worker' = AfterFailure(w)
      \/ worker' = [w EXCEPT !.receipts = Append(@, steps[w.at].capability),
                             !.phase = IF w.at = Len(steps) THEN "done" ELSE "steps",
                             !.at = @ + 1]
  BY Zenon DEF RunCommand
<1> HIDE DEF w
<1>6. CASE worker' = AfterFailure(w) /\ w.request.type = "saga" /\ comps # <<>>
  <2>1. /\ comps \in Seq(Commands) /\ Len(comps) \in Nat \ {0}
        /\ worker' = [w EXCEPT !.phase = "compensate", !.failed_step = w.at, !.at = Len(comps)]
    BY <1>2, <1>4, <1>6, EmptySeq DEF AfterFailure
  <2>2. /\ worker' \in Frames /\ worker'.phase = "compensate" /\ worker'.request = worker.request
        /\ worker'.at = Len(comps) /\ worker'.failed_step = at /\ worker'.ran = StepsTried(at)
    BY <1>2, <1>4, <2>1 DEF Frames
  <2>3. worker'.ran = StepsTried(at) \o CompensationsTried(Len(comps), Len(comps) - Len(comps))
    <3>1. CompensationsTried(Len(comps), 0) = <<>> /\ Len(comps) - Len(comps) = 0
      BY <2>1, CompensationsTriedOK
    <3> QED
      BY <1>3, <2>2, <3>1, ConcatEmptySeq
  <2>4. CompensateOK'
    <3>1. worker.request.type = "saga" /\ Len(comps) \in 1..Len(comps)
      BY <1>4, <1>6, <2>1
    <3> QED
      BY <2>2, <2>3, <3>1 DEF CompensateOK, At
  <2>5. FrameOK' /\ ExportOK' /\ StepsOK' /\ RequestEndsWhole' /\ ExportedBytes'
    BY <2>2 DEF FrameOK, ExportOK, StepsOK, RequestEndsWhole, ExportedBytes, At
  <2> QED
    BY <2>4, <2>5 DEF WorkerInv
<1>7. CASE worker' = AfterFailure(w) /\ ~(w.request.type = "saga" /\ comps # <<>>)
  <2>1. worker' = [w EXCEPT !.phase = "failed", !.failed_step = w.at]
    BY <1>4, <1>7 DEF AfterFailure
  <2>2. /\ worker' \in Frames /\ worker'.phase = "failed" /\ worker'.request = worker.request
        /\ worker'.failed_step = at /\ worker'.ran = StepsTried(at)
    BY <1>2, <1>4, <2>1 DEF Frames
  <2>3. StepsTried(at) = Tried("step", UpTo(at))
                           \o Tried("compensation", Reverse(UpTo(Len(<<>>))))
    <3>1. Tried("compensation", Reverse(UpTo(0))) = <<>> /\ Len(<<>>) = 0
      BY CompensationsTriedOK
    <3>2. StepsTried(at) = Tried("step", UpTo(at))
      BY <1>2, StepsTriedOK
    <3> QED
      BY <1>3, <3>1, <3>2, ConcatEmptySeq
  <2>4. RequestEndsWhole'
    BY <1>4, <1>7, <2>2, <2>3 DEF RequestEndsWhole, At
  <2>5. FrameOK' /\ ExportOK' /\ StepsOK' /\ CompensateOK' /\ ExportedBytes'
    BY <2>2 DEF FrameOK, ExportOK, StepsOK, CompensateOK, ExportedBytes, At
  <2> QED
    BY <2>4, <2>5 DEF WorkerInv
<1>8. CASE worker' = [w EXCEPT !.receipts = Append(@, steps[w.at].capability),
                               !.phase = IF w.at = Len(steps) THEN "done" ELSE "steps",
                               !.at = @ + 1]
  <2>1. /\ Append(w.receipts, steps[w.at].capability) = Receipts(steps, at)
        /\ Receipts(steps, at) \in Seq(Refs)
        /\ Receipts(steps, Len(steps)) = [i \in DOMAIN steps |-> steps[i].capability]
    <3>1. at - 1 < Len(steps) /\ (at - 1) + 1 = at /\ at \in 0..Len(steps)
      BY <1>1, <1>2
    <3>2. Append(Receipts(steps, at - 1), steps[at].capability) = Receipts(steps, at)
      BY <1>2, <3>1, ReceiptsOK
    <3>3. Receipts(steps, at) \in Seq(Refs)
      BY <1>2, <3>1, ReceiptsOK
    <3> QED
      BY <1>1, <1>2, <1>4, <3>1, <3>2, <3>3, ReceiptsOK
  <2> DEFINE phase == IF w.at = Len(steps) THEN "done" ELSE "steps"
  <2>2. phase \in {"done", "steps"} /\ (phase = "done" <=> at = Len(steps))
    BY <1>4
  <2>3. worker' = [w EXCEPT !.receipts = Receipts(steps, at), !.phase = phase, !.at = at + 1]
    BY <1>4, <1>8, <2>1
  <2> HIDE DEF phase
  <2>8. at + 1 \in Nat
    BY <1>2
  <2>4. /\ worker' \in Frames /\ worker'.phase = phase /\ worker'.request = worker.request
        /\ worker'.receipts = Receipts(steps, at) /\ worker'.at = at + 1
        /\ worker'.ran = StepsTried(at) /\ worker'.failed_step = 0
    <3> DEFINE receipts == Receipts(steps, at)
               next == at + 1
    <3>1. worker' = [w EXCEPT !.receipts = receipts, !.phase = phase, !.at = next]
      BY <2>3
    <3>2. receipts \in Seq(Refs) /\ next \in Nat
      BY <2>1, <2>8
    <3> HIDE DEF receipts, next
    <3>3. /\ worker' \in Frames /\ worker'.phase = phase /\ worker'.request = w.request
          /\ worker'.receipts = receipts /\ worker'.at = next
          /\ worker'.ran = w.ran /\ worker'.failed_step = w.failed_step
      BY <1>4, <2>2, <3>1, <3>2 DEF Frames
    <3> QED
      BY <1>4, <3>3 DEF receipts, next
  <2>5. FrameOK' /\ ExportOK' /\ CompensateOK' /\ ExportedBytes'
    BY <1>1, <2>2, <2>4 DEF FrameOK, ExportOK, CompensateOK, ExportedBytes, At
  <2>6. StepsOK'
    <3>1. (at + 1) - 1 = at /\ (at # Len(steps) => at + 1 \in 1..Len(steps))
      BY <1>1, <1>2
    <3> QED
      BY <1>1, <2>2, <2>4, <3>1 DEF StepsOK, At
  <2>7. RequestEndsWhole'
    <3>1. StepsTried(Len(steps)) = Tried("step", UpTo(Len(steps)))
      BY <1>2, StepsTriedOK
    <3> QED
      BY <2>1, <2>2, <2>4, <3>1 DEF RequestEndsWhole, At
  <2> QED
    BY <2>5, <2>6, <2>7 DEF WorkerInv
<1> QED
  BY <1>5, <1>6, <1>7, <1>8

LEMMA CompensateStepOK ==
  ASSUME WorkerInv, Compensate
  PROVE  WorkerInv'
<1> DEFINE comps == worker.request.compensations
           n == Len(comps)
           at == worker.at
           failures == IF Executes(comps[at]) THEN worker.compensation_failures
                                              ELSE worker.compensation_failures + 1
           phase == IF at = 1 THEN "failed" ELSE "compensate"
<1>1. /\ worker \in Frames /\ worker.request.type = "saga" /\ at \in 1..n
      /\ worker.ran = StepsTried(worker.failed_step) \o CompensationsTried(n, n - at)
  BY DEF WorkerInv, FrameOK, CompensateOK, Compensate, At
<1>2. comps \in Seq(Commands) /\ n \in Nat /\ worker.failed_step \in Nat
  <2>1. worker.request \in Exports \cup Batches \cup Sagas /\ worker.failed_step \in Nat
    BY <1>1 DEF Frames
  <2>2. comps \in Seq(Commands)
    BY <1>1, <2>1, RequestOK
  <2> QED
    BY <2>1, <2>2, LenProperties
<1>3. worker' = [worker EXCEPT !.ran = Append(@, <<"compensation", at>>),
                               !.compensation_failures = failures, !.phase = phase, !.at = @ - 1]
  BY Zenon DEF Compensate
<1>4. /\ Append(worker.ran, <<"compensation", at>>)
           = StepsTried(worker.failed_step) \o CompensationsTried(n, n - (at - 1))
      /\ Append(worker.ran, <<"compensation", at>>) \in Seq(Marks)
  <2> DEFINE s == StepsTried(worker.failed_step)
             t == CompensationsTried(n, n - at)
             e == <<"compensation", at>>
  <2>1. s \in Seq(Marks)
    BY <1>2, StepsTriedOK
  <2>2. n - at \in 0..n /\ n - at < n /\ n - (n - at) = at /\ (n - at) + 1 = n - (at - 1)
        /\ n - (at - 1) \in 0..n
    BY <1>1, <1>2, Countdown
  <2>3. t \in Seq(Marks) /\ Append(t, <<"compensation", n - (n - at)>>)
                              = CompensationsTried(n, (n - at) + 1)
    BY <1>2, <2>2, CompensationsTriedOK
  <2>4. Append(t, e) = CompensationsTried(n, n - (at - 1))
    BY <2>2, <2>3
  <2>5. e \in Marks
    BY <1>1, <1>2 DEF Marks
  <2>6. CompensationsTried(n, n - (at - 1)) \in Seq(Marks)
    BY <1>2, <2>2, CompensationsTriedOK
  <2> HIDE DEF s, t, e
  <2>7. Append(s \o t, e) = s \o Append(t, e)
    BY <2>1, <2>3, <2>5, ConcatOK
  <2>8. s \o Append(t, e) \in Seq(Marks)
    BY <2>1, <2>4, <2>6, ConcatProperties
  <2> QED
    BY <1>1, <2>4, <2>7, <2>8 DEF s, t, e
<1>5. failures \in Nat /\ phase \in {"failed", "compensate"} /\ (phase = "failed" <=> at = 1)
      /\ at - 1 \in Nat
  BY <1>1, <1>2 DEF Frames
<1> HIDE DEF failures, phase
<1>6. /\ worker' \in Frames /\ worker'.phase = phase /\ worker'.request = worker.request
      /\ worker'.at = at - 1 /\ worker'.failed_step = worker.failed_step
      /\ worker'.ran = StepsTried(worker.failed_step) \o CompensationsTried(n, n - (at - 1))
  BY <1>1, <1>3, <1>4, <1>5 DEF Frames
<1>7. FrameOK' /\ ExportOK' /\ StepsOK' /\ ExportedBytes'
  BY <1>5, <1>6 DEF FrameOK, ExportOK, StepsOK, ExportedBytes, At
<1>8. CompensateOK'
  <2>1. at # 1 => at - 1 \in 1..n
    BY <1>1, <1>2
  <2> QED
    BY <1>1, <1>5, <1>6, <2>1 DEF CompensateOK, At
<1>9. RequestEndsWhole'
  <2>1. at = 1 => n - (at - 1) = n
    BY <1>1, <1>2, Countdown
  <2>2. CompensationsTried(n, n) = Tried("compensation", Reverse(UpTo(n)))
    <3>1. n \in 0..n
      BY <1>2
    <3> QED
      BY <1>2, <3>1, CompensationsTriedOK
  <2>3. StepsTried(worker.failed_step) = Tried("step", UpTo(worker.failed_step))
    BY <1>2, StepsTriedOK
  <2>4. phase = "failed" =>
          worker'.ran = Tried("step", UpTo(worker'.failed_step))
                          \o Tried("compensation", Reverse(UpTo(n)))
    BY <1>5, <1>6, <2>1, <2>2, <2>3
  <2> QED
    BY <1>1, <1>5, <1>6, <2>4 DEF RequestEndsWhole, At
<1> QED
  BY <1>7, <1>8, <1>9 DEF WorkerInv

LEMMA RequestEndsOK ==
  ASSUME RequestEnds
  PROVE  WorkerInv'
<1>1. worker' = None
  BY DEF RequestEnds
<1> QED
  BY <1>1 DEF WorkerInv, FrameOK, ExportOK, StepsOK, CompensateOK, RequestEndsWhole,
              ExportedBytes, At

--------------------------------------------------------------------------------
(* The invariant of the specification *)

ResourcesInv == TablesInv /\ WorkerInv

LEMMA InitInv == Init => ResourcesInv
<1> SUFFICES ASSUME Init PROVE ResourcesInv
  OBVIOUS
<1>1. StoreOK
  <2>1. IsFiniteSet({}) /\ 0 \in 0..MaxStep
    BY FS_EmptySet, ResourcesAssumption
  <2> QED
    BY <2>1 DEF Init, StoreOK
<1>2. WritingOK /\ SnapshotsOK
  BY DEF Init, WritingOK, SnapshotsOK, SnapshotOfItsVersion
<1>3. WorkerInv
  BY DEF Init, WorkerInv, FrameOK, ExportOK, StepsOK, CompensateOK, RequestEndsWhole,
         ExportedBytes, At
<1> QED
  BY <1>1, <1>2, <1>3 DEF ResourcesInv, TablesInv

LEMMA LoopStep ==
  ASSUME ResourcesInv, LoopNext
  PROVE  TablesInv' /\ Grows /\ worker' = worker
<1> USE DEF ResourcesInv
<1>1. CASE \E r \in Ids : Create(r)
  BY <1>1, CreateOK DEF Create
<1>2. CASE \E r \in Ids : CopyOnWrite(r)
  BY <1>2, CopyOnWriteOK DEF CopyOnWrite
<1>3. CASE \E r \in Ids : \E ref \in Held : SnapshotReadPlan(r, ref)
  BY <1>3, SnapshotReadPlanOK DEF SnapshotReadPlan
<1>4. CASE \E r \in Ids : PackValue(r)
  BY <1>4, PackValueOK DEF PackValue
<1>5. CASE \E r \in Ids : \E expires \in Expiries : AcquireWriteLease(r, expires)
  BY <1>5, AcquireWriteLeaseOK DEF AcquireWriteLease
<1>6. CASE \E token \in {t \in tokens : t.owner = "runner"} : WriteWithLease(token)
  BY <1>6, WriteWithLeaseOK DEF WriteWithLease
<1>7. CASE \E ref \in Held : CommitWritePlan(BuildWritePlan(ref))
  BY <1>7, CommitWritePlanOK DEF CommitWritePlan
<1>8. CASE WriteEnds
  BY <1>8, WriteEndsOK DEF WriteEnds
<1>9. CASE WriteFails
  BY <1>9, WriteFailsOK DEF WriteFails
<1>10. CASE Tick
  <2>1. now' \in 0..MaxStep
    BY <1>10, ResourcesAssumption DEF Tick, TablesInv, StoreOK
  <2> QED
    BY <1>10, <2>1, SameTables DEF Tick
<1> QED
  BY <1>1, <1>2, <1>3, <1>4, <1>5, <1>6, <1>7, <1>8, <1>9, <1>10 DEF LoopNext

LEMMA WorkerStep ==
  ASSUME ResourcesInv, WorkerNext
  PROVE  WorkerInv' /\ LoopUnchanged
<1> USE DEF ResourcesInv
<1>1. CASE \E q \in Requests : StartRequest(q)
  BY <1>1, StartRequestOK DEF StartRequest
<1>2. CASE FindExported
  BY <1>2, FindExportedOK DEF FindExported
<1>3. CASE ReadExported
  BY <1>3, ReadExportedOK DEF ReadExported
<1>4. CASE RunCommand
  BY <1>4, RunCommandOK DEF RunCommand
<1>5. CASE Compensate
  BY <1>5, CompensateStepOK DEF Compensate
<1>6. CASE RequestEnds
  BY <1>6, RequestEndsOK DEF RequestEnds
<1> QED
  BY <1>1, <1>2, <1>3, <1>4, <1>5, <1>6 DEF WorkerNext

LEMMA NextInv == ResourcesInv /\ [Next]_vars => ResourcesInv'
<1> SUFFICES ASSUME ResourcesInv, [Next]_vars PROVE ResourcesInv'
  OBVIOUS
<1>1. CASE LoopNext
  BY <1>1, LoopStep, LoopKeepsWorker DEF ResourcesInv
<1>2. CASE WorkerNext
  <2>1. now' \in 0..MaxStep /\ LoopUnchanged
    BY <1>2, WorkerStep DEF LoopUnchanged, ResourcesInv, TablesInv, StoreOK
  <2>2. TablesInv'
    BY <2>1, SameTables DEF LoopUnchanged, ResourcesInv
  <2> QED
    BY <1>2, <2>2, WorkerStep DEF ResourcesInv
<1>3. CASE UNCHANGED vars
  <2>1. now' \in 0..MaxStep /\ LoopUnchanged /\ worker' = worker
    BY <1>3 DEF vars, LoopUnchanged, ResourcesInv, TablesInv, StoreOK
  <2>2. TablesInv' /\ Grows
    BY <2>1, SameTables DEF LoopUnchanged, ResourcesInv
  <2> QED
    BY <2>1, <2>2, LoopKeepsWorker DEF ResourcesInv
<1> QED
  BY <1>1, <1>2, <1>3 DEF Next

LEMMA Invariance == Spec => []ResourcesInv
  BY InitInv, NextInv, PTL DEF Spec

\* The tables have the shape they are meant to have: an id names one thing, a generation
\* counts the versions, a lease is one that was issued, and a write has the lease.
THEOREM TypeCorrect == Spec => []TypeOK
<1>1. ResourcesInv => TypeOK
  BY DEF ResourcesInv, TablesInv, StoreOK, WritingOK, ResourceOK, Records, TypeOK
<1> QED
  BY Invariance, <1>1, PTL

\* A resource whose file does not hold its version has a lease, whichever write failed.
THEOREM TornFilesAreLeased == Spec => []TornIsLeased
<1>1. ResourcesInv => TornIsLeased
  BY DEF ResourcesInv, TablesInv, StoreOK, ResourceOK, TornIsLeased
<1> QED
  BY Invariance, <1>1, PTL

\* A snapshot keeps the bytes of the version it was taken of, whatever is written later.
THEOREM SnapshotsKeepTheirVersion == Spec => []SnapshotOfItsVersion
<1>1. ResourcesInv => SnapshotOfItsVersion
  BY DEF ResourcesInv, TablesInv, SnapshotsOK
<1> QED
  BY Invariance, <1>1, PTL

\* An export that races writes answers with its own version, or one not older.
THEOREM ExportsAreNotOlder == Spec => []ExportedBytes
<1>1. ResourcesInv => ExportedBytes
  BY DEF ResourcesInv, WorkerInv
<1> QED
  BY Invariance, <1>1, PTL

\* Batches and sagas of any length end whole: all receipts, or the steps up to the failed
\* one and every compensation, each once and in order.
THEOREM RequestsEndWhole == Spec => []RequestEndsWhole
<1>1. ResourcesInv => RequestEndsWhole
  BY DEF ResourcesInv, WorkerInv
<1> QED
  BY Invariance, <1>1, PTL

--------------------------------------------------------------------------------
(* The promise of LeasedStore *)

VersionOf(r) == IF r \in DOMAIN resources THEN resources[r].version ELSE 0
HolderOf(r)  == IF Lease(r) = None THEN 0 ELSE Lease(r).base

\* What a step of the tables is in the eyes of those who were promised.
Unseen == \A r \in Ids : VersionOf(r)' = VersionOf(r) /\ HolderOf(r)' = HolderOf(r)

OthersUnseen(r) ==
  \A x \in Ids \ {r} : VersionOf(x)' = VersionOf(x) /\ HolderOf(x)' = HolderOf(x)

Created(r)   == VersionOf(r) = 0 /\ VersionOf(r)' = 1 /\ HolderOf(r)' = HolderOf(r)
Admitted(r)  == /\ VersionOf(r) # 0 /\ HolderOf(r) = 0
                /\ HolderOf(r)' = VersionOf(r) /\ VersionOf(r)' = VersionOf(r)
Published(r) == HolderOf(r) # 0 /\ VersionOf(r)' = HolderOf(r) + 1 /\ HolderOf(r)' = 0

LEMMA UnseenStep ==
  ASSUME Unseen
  PROVE  UNCHANGED Promise!vars
  BY DEF Unseen, Promise!vars, VersionOf, HolderOf

LEMMA SeenStep ==
  ASSUME NEW r \in Ids, OthersUnseen(r), Created(r) \/ Admitted(r) \/ Published(r)
  PROVE  Promise!Next
<1> DEFINE version == [x \in Ids |-> VersionOf(x)]
           holder == [x \in Ids |-> HolderOf(x)]
<1>1. CASE Created(r)
  <2>1. version' = [version EXCEPT ![r] = 1] /\ holder' = holder /\ version[r] = 0
    BY <1>1 DEF Created, OthersUnseen
  <2>2. Promise!Create(r)
    BY <2>1 DEF Promise!Create, VersionOf, HolderOf
  <2> QED
    BY <2>2 DEF Promise!Next
<1>2. CASE Admitted(r)
  <2>1. /\ holder' = [holder EXCEPT ![r] = version[r]] /\ version' = version
        /\ version[r] # 0 /\ holder[r] = 0
    BY <1>2 DEF Admitted, OthersUnseen
  <2>2. Promise!Admit(r)
    BY <2>1 DEF Promise!Admit, VersionOf, HolderOf
  <2> QED
    BY <2>2 DEF Promise!Next
<1>3. CASE Published(r)
  <2>0. holder[r] = HolderOf(r)
    OBVIOUS
  <2>1. /\ version' = [version EXCEPT ![r] = holder[r] + 1] /\ holder' = [holder EXCEPT ![r] = 0]
        /\ holder[r] # 0
    <3>1. \A x \in Ids : VersionOf(x)' = IF x = r THEN holder[r] + 1 ELSE version[x]
      BY <1>3, <2>0 DEF Published, OthersUnseen
    <3>2. \A x \in Ids : HolderOf(x)' = IF x = r THEN 0 ELSE holder[x]
      BY <1>3 DEF Published, OthersUnseen
    <3> QED
      BY <1>3, <2>0, <3>1, <3>2 DEF Published
  <2>2. Promise!Publish(r)
    BY <2>1 DEF Promise!Publish, VersionOf, HolderOf
  <2> QED
    BY <2>2 DEF Promise!Next
<1> QED
  BY <1>1, <1>2, <1>3

\* The version and the holder of a resource whose record is in order.
LEMMA SeenOK ==
  ASSUME TablesInv, NEW r \in DOMAIN resources
  PROVE  /\ r \in Ids /\ VersionOf(r) = resources[r].version /\ VersionOf(r) \in Nat \ {0}
         /\ HolderOf(r) = IF resources[r].lease = None THEN 0 ELSE resources[r].version
<1>1. ResourceOK(r) /\ r \in Ids
  BY DEF TablesInv, StoreOK
<1>2. resources[r].version \in Nat \ {0}
  BY <1>1, ResourcesAssumption DEF ResourceOK, Records
<1>3. Lease(r) = resources[r].lease
  BY DEF Lease
<1> QED
  BY <1>1, <1>2, <1>3 DEF VersionOf, HolderOf, ResourceOK

LEMMA OthersSame ==
  ASSUME NEW r, DOMAIN resources' = DOMAIN resources \cup {r},
         \A x \in DOMAIN resources \ {r} : resources'[x] = resources[x]
  PROVE  OthersUnseen(r)
<1> SUFFICES ASSUME NEW x \in Ids \ {r}
             PROVE  VersionOf(x)' = VersionOf(x) /\ HolderOf(x)' = HolderOf(x)
  BY DEF OthersUnseen
<1>1. Lease(x)' = Lease(x)
  BY DEF Lease
<1> QED
  BY <1>1 DEF VersionOf, HolderOf

LEMMA CreatesSeen ==
  ASSUME NEW r \in Ids, NEW kind, NEW data, Fresh(r), Store(r, kind, data)
  PROVE  OthersUnseen(r) /\ Created(r)
<1>1. /\ r \notin DOMAIN resources /\ DOMAIN resources' = DOMAIN resources \cup {r}
      /\ resources'[r] = Record(kind, data)
      /\ \A x \in DOMAIN resources \ {r} : resources'[x] = resources[x]
  BY DEF Fresh, Store
<1>2. resources'[r].version = 1 /\ resources'[r].lease = None
  BY <1>1 DEF Record
<1>3. Lease(r) = None /\ Lease(r)' = None
  BY <1>1, <1>2 DEF Lease
<1>4. Created(r)
  BY <1>1, <1>2, <1>3 DEF Created, VersionOf, HolderOf
<1> QED
  BY <1>1, <1>4, OthersSame

LEMMA LeasesSeen ==
  ASSUME TablesInv, NEW r, NEW token, Leases(r, token)
  PROVE  /\ r \in Ids /\ OthersUnseen(r)
         /\ resources[r].lease = None => Admitted(r)
         /\ resources[r].lease = token => Unseen
<1>1. /\ r \in DOMAIN resources /\ token # None /\ token.base = resources[r].version
  BY DEF Leases
<1>2. /\ DOMAIN resources' = DOMAIN resources /\ resources'[r].lease = token
      /\ resources'[r].version = resources[r].version
      /\ \A x \in DOMAIN resources \ {r} : resources'[x] = resources[x]
  BY LeaseStep
<1>3. /\ r \in Ids /\ VersionOf(r) = resources[r].version /\ VersionOf(r) \in Nat \ {0}
      /\ HolderOf(r) = IF resources[r].lease = None THEN 0 ELSE resources[r].version
  BY <1>1, SeenOK
<1>4. DOMAIN resources' = DOMAIN resources \cup {r}
  BY <1>1, <1>2
<1>5. OthersUnseen(r)
  BY <1>2, <1>4, OthersSame
<1>6. VersionOf(r)' = VersionOf(r) /\ HolderOf(r)' = VersionOf(r)
  <2>1. Lease(r)' = token
    BY <1>1, <1>2 DEF Lease
  <2> QED
    BY <1>1, <1>2, <1>3, <2>1 DEF VersionOf, HolderOf
<1>7. resources[r].lease = None => Admitted(r)
  BY <1>3, <1>6 DEF Admitted
<1>8. resources[r].lease = token => Unseen
  BY <1>1, <1>3, <1>5, <1>6 DEF OthersUnseen, Unseen
<1> QED
  BY <1>3, <1>5, <1>7, <1>8

LEMMA WriteEndsSeen ==
  ASSUME TablesInv, WriteEnds, NEW r, r = writing.id
  PROVE  r \in Ids /\ OthersUnseen(r) /\ Published(r)
<1>1. /\ r \in DOMAIN resources /\ resources[r].lease # None
  BY DEF TablesInv, WritingOK, WriteEnds
<1>2. resources[r] \in Records
  BY <1>1 DEF TablesInv, StoreOK, ResourceOK
<1>3. /\ DOMAIN resources' = DOMAIN resources
      /\ \A x \in DOMAIN resources \ {r} : resources'[x] = resources[x]
      /\ resources'[r].version = resources[r].version + 1 /\ resources'[r].lease = None
  BY <1>1, <1>2 DEF WriteEnds, Records
<1>4. /\ r \in Ids /\ VersionOf(r) = resources[r].version /\ VersionOf(r) \in Nat \ {0}
      /\ HolderOf(r) = resources[r].version
  BY <1>1, SeenOK
<1>5. OthersUnseen(r)
  <2>1. DOMAIN resources' = DOMAIN resources \cup {r}
    BY <1>1, <1>3
  <2> QED
    BY <1>3, <2>1, OthersSame
<1>6. Lease(r)' = None
  BY <1>3 DEF Lease
<1> QED
  BY <1>1, <1>3, <1>4, <1>5, <1>6 DEF Published, VersionOf, HolderOf

LEMMA SameResourcesUnseen ==
  ASSUME resources' = resources
  PROVE  Unseen
<1>1. \A r \in Ids : Lease(r)' = Lease(r)
  BY DEF Lease
<1> QED
  BY <1>1 DEF Unseen, VersionOf, HolderOf

LEMMA PromiseStep == ResourcesInv /\ [Next]_vars => [Promise!Next]_(Promise!vars)
<1> SUFFICES ASSUME ResourcesInv, [Next]_vars
             PROVE  Promise!Next \/ UNCHANGED Promise!vars
  OBVIOUS
<1>1. TablesInv
  BY DEF ResourcesInv
<1>2. ASSUME NEW r \in Ids, Create(r) PROVE Promise!Next
  BY <1>2, CreatesSeen, SeenStep DEF Create
<1>3. ASSUME NEW r \in Ids, CopyOnWrite(r) PROVE Promise!Next
  BY <1>3, CreatesSeen, SeenStep DEF CopyOnWrite
<1>4. ASSUME NEW r \in Ids, NEW ref \in Held, SnapshotReadPlan(r, ref) PROVE Promise!Next
  BY <1>4, CreatesSeen, SeenStep DEF SnapshotReadPlan
<1>5. ASSUME NEW r \in Ids, NEW expires \in Expiries, AcquireWriteLease(r, expires)
      PROVE  Promise!Next
  <2>1. resources[r].lease = None
    BY <1>5 DEF AcquireWriteLease, Leasable
  <2> QED
    BY <1>1, <1>5, <2>1, AcquireLeases, LeasesSeen, SeenStep
<1>6. ASSUME NEW token \in tokens, WriteWithLease(token) PROVE Unseen
  BY <1>1, <1>6, WriteLeases, LeasesSeen
<1>7. ASSUME NEW ref \in Held, CommitWritePlan(BuildWritePlan(ref)) PROVE Promise!Next
  <2> DEFINE token == NewToken(ref.id, "resource-plan", None, ref.version)
  <2>1. Leases(token.id, token) /\ token.id = ref.id
    BY <1>1, <1>7, CommitLeases
  <2>2. resources[ref.id].lease = None
    BY <1>7 DEF CommitWritePlan, MayCommit, Leasable, BuildWritePlan
  <2> HIDE DEF token
  <2> QED
    BY <1>1, <2>1, <2>2, LeasesSeen, SeenStep
<1>8. ASSUME WriteEnds PROVE Promise!Next
  <2>1. PICK r : r = writing.id
    OBVIOUS
  <2> QED
    BY <1>1, <1>8, <2>1, WriteEndsSeen, SeenStep
<1>9. ASSUME \/ \E r \in Ids : PackValue(r)
             \/ WriteFails \/ Tick \/ UNCHANGED vars
      PROVE  Unseen
  BY <1>9, SameResourcesUnseen DEF PackValue, WriteFails, Tick, vars
<1>10. ASSUME WorkerNext PROVE Unseen
  BY <1>10, WorkerStep, SameResourcesUnseen DEF LoopUnchanged
<1> QED
  BY <1>2, <1>3, <1>4, <1>5, <1>6, <1>7, <1>8, <1>9, <1>10, UnseenStep DEF Next, LoopNext

LEMMA PromiseInit == Init => Promise!Init
  BY DEF Init, Promise!Init, Lease

\* Whoever writes, and whichever writes fail, a version is built on the one it replaces by a
\* writer that had the resource alone.
THEOREM KeepsThePromise == Spec => ImplementsLeasedStore
  BY Invariance, PromiseInit, PromiseStep, PTL DEF Spec, ImplementsLeasedStore, Promise!Spec

==============================================================================
