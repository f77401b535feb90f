-------------------------- MODULE BranchIndex_proofs --------------------------
(* Proofs about BranchIndex, for any clients, branches, files and contents, and however long  *)
(* they run: what a branch lists is parsed, is one client's list, has a past that is a        *)
(* function while its commits do not overlap, and is what a reader is shown.                  *)
EXTENDS BranchIndex, FiniteSetTheorems, TLAPS

Stages == {"sending", "committing", "parsing", "seeing", "retiring"}

Work == [at : Stages, branch : Branches, files : Files, names : SUBSET Branches,
         known : {Default, None}, missing : SUBSET Contents, ts : Nat,
         todo : SUBSET Units, default : Branches \cup {None}]

Asked == [at : {"asking", "shown"}, branch : Branches, key : Branches \X Nat,
          since : SUBSET Files, shown : Files]

ClientTypes ==
    /\ clock \in Nat \ {0}
    /\ client \in [Clients -> Work \cup {Idle}]
    /\ \A c \in Clients : Running(c) => client[c].ts \in 1 .. clock

ReaderTypes ==
    /\ reader \in Asked \cup {NoRead}
    /\ dirs \subseteq [key : Branches \X Nat, files : Files]
    /\ overlapped \subseteq Branches

Types == TypeOK /\ ClientTypes /\ ReaderTypes

-----------------------------------------------------------------------------
(* Types *)

LEMMA UnitsType ==
  ASSUME NEW f \in Files
  PROVE  UnitsOf(f) \subseteq Units /\ ContentsOf(f) \subseteq Contents
  BY DEF Files, UnitsOf, ContentsOf, Units

LEMMA NoFilesType == NoFiles \in Files /\ UnitsOf(NoFiles) = {}
  BY DEF Files, NoFiles, UnitsOf

LEMMA LiveType ==
  ASSUME TypeOK, NEW b \in Branches
  PROVE  /\ \A r \in Live(b) : r \in rows /\ r.unit \in Units /\ r.branch = b
         /\ FilesOf(b) \in Files
  <1>1. \A r \in Live(b) : r \in rows /\ r.unit \in Units /\ r.branch = b
    BY DEF TypeOK, Live
  <1>2. ASSUME NEW p \in Paths, \E r \in Live(b) : r.unit[2] = p
        PROVE  (CHOOSE r \in Live(b) : r.unit[2] = p).unit[1] \in Contents
    BY <1>1, <1>2 DEF Units
  <1> QED BY <1>1, <1>2 DEF FilesOf, Files

(* A client at work has all the fields of its indexing. *)
LEMMA AtWork ==
  ASSUME ClientTypes, NEW c \in Clients, client[c].at # "idle"
  PROVE  /\ client[c] \in Work
         /\ client[c].at \in Stages /\ client[c].branch \in Branches /\ client[c].files \in Files
         /\ client[c].names \in SUBSET Branches /\ client[c].known \in {Default, None}
         /\ client[c].missing \in SUBSET Contents /\ client[c].ts \in Nat
         /\ client[c].todo \in SUBSET Units /\ client[c].default \in Branches \cup {None}
  <1>1. client[c] \in Work
    BY DEF ClientTypes, Idle
  <1> QED BY <1>1 DEF Work

(* Where one client's indexing goes, the clients keep their types. *)
LEMMA ClientGoes ==
  ASSUME ClientTypes, NEW c \in Clients, NEW e \in Work \cup {Idle},
         client' = [client EXCEPT ![c] = e], clock' \in Nat, clock <= clock',
         e.at \in {"parsing", "seeing", "retiring"} => e.ts \in 1 .. clock'
  PROVE  ClientTypes'
  <1>1. client' \in [Clients -> Work \cup {Idle}] /\ clock' \in Nat \ {0}
    BY DEF ClientTypes
  <1>2. ASSUME NEW d \in Clients, Running(d)' PROVE client'[d].ts \in 1 .. clock'
    <2>1. CASE d = c
      BY <1>2, <2>1 DEF ClientTypes, Running
    <2>2. CASE d # c
      BY <1>2, <2>2 DEF ClientTypes, Running
    <2> QED BY <2>1, <2>2
  <1> QED BY <1>1, <1>2 DEF ClientTypes

LEMMA Clock == Types => ClientTypes /\ clock \in Nat /\ clock <= clock
  BY DEF Types, ClientTypes

LEMMA InitTypes == Init => Types
  BY IndexAssumption DEF IndexAssumption, Init, Types, TypeOK, ClientTypes, ReaderTypes, NoRow, NoFiles, Files, Idle, Running,
         NoRead

LEMMA ManifestTypes ==
  ASSUME Types, NEW c \in Clients, Manifest(c)
  PROVE  Types'
  <1>1. PICK k \in Checkouts : client' = [client EXCEPT ![c] =
              [at |-> "sending", branch |-> k.branch, files |-> k.files, names |-> k.names,
               known |-> k.known, missing |-> ContentsOf(k.files) \ blobs,
               ts |-> 0, todo |-> {}, default |-> None]]
    BY DEF Manifest
  <1>2. k \in [branch : Branches, files : Files, names : SUBSET Branches, known : {Default, None}]
    BY IndexAssumption DEF IndexAssumption
  <1>3. PICK e : e = [at |-> "sending", branch |-> k.branch, files |-> k.files, names |-> k.names,
               known |-> k.known, missing |-> ContentsOf(k.files) \ blobs,
               ts |-> 0, todo |-> {}, default |-> None]
    OBVIOUS
  <1>4. e \in Work /\ e.at = "sending"
    BY <1>2, <1>3, UnitsType DEF Work, Stages
  <1>5. ClientTypes'
    BY <1>1, <1>3, <1>4, ClientGoes, Clock DEF Manifest
  <1> QED BY <1>5 DEF Types, TypeOK, ReaderTypes, Manifest

LEMMA UploadTypes ==
  ASSUME Types, NEW c \in Clients, Upload(c)
  PROVE  Types'
  <1>1. PICK e : e = [client[c] EXCEPT !.at = "committing", !.missing = {}]
    OBVIOUS
  <1>2. client' = [client EXCEPT ![c] = e]
    BY <1>1 DEF Upload, Types, ClientTypes
  <1>3. client[c] \in Work /\ client[c].missing \subseteq Contents
    BY AtWork DEF Upload, Types
  <1>4. e \in Work /\ e.at = "committing"
    BY <1>1, <1>3 DEF Work, Stages
  <1>5. ClientTypes'
    BY <1>2, <1>4, ClientGoes, Clock DEF Upload
  <1> QED BY <1>3, <1>5 DEF Types, TypeOK, ReaderTypes, Upload

LEMMA StartTypes ==
  ASSUME Types, NEW c \in Clients, StartCommit(c)
  PROVE  Types'
  <1>0. PICK t, d : t = clock' /\ d = default'
    OBVIOUS
  <1>1. PICK e : e = [client[c] EXCEPT !.at = "parsing", !.ts = t, !.default = d]
    OBVIOUS
  <1>2. client' = [client EXCEPT ![c] = e]
    BY <1>0, <1>1 DEF StartCommit, Types, ClientTypes
  <1>3. client[c] \in Work /\ client[c].files \in Files /\ client[c].branch \in Branches
        /\ client[c].known \in {Default, None}
    BY AtWork DEF StartCommit, Types
  <1>4. default' \in Branches \cup {None} /\ clock' = clock + 1 /\ clock \in Nat \ {0}
    BY <1>3, IndexAssumption DEF StartCommit, DefaultKept, Types, TypeOK, ClientTypes, IndexAssumption
  <1>5. e \in Work /\ e.at = "parsing" /\ e.ts = clock'
    <2>1. t \in Nat /\ d \in Branches \cup {None}
      BY <1>0, <1>4
    <2> QED BY <1>0, <1>1, <1>3, <2>1 DEF Work, Stages
  <1>6. ClientTypes'
    <2>1. clock' \in Nat /\ clock <= clock' /\ e.ts \in 1 .. clock'
      BY <1>4, <1>5
    <2> QED BY <1>2, <1>5, <2>1, ClientGoes, Clock
  <1>7. parse' \in [Units -> {"absent", "new", "parsed", "failed"}]
    BY DEF StartCommit, NewUnits, Types, TypeOK
  <1>8. ReaderTypes'
    BY <1>3 DEF StartCommit, Types, ReaderTypes
  <1>9. TypeOK'
    <2>1. branch' \in [Branches -> [indexed : 0 .. clock', seen : 0 .. clock', retired : BOOLEAN]]
      BY <1>4 DEF StartCommit, Types, TypeOK
    <2>2. rows' \subseteq [branch : Branches, unit : Units, from : 1 .. clock',
                           until : 1 .. clock' \cup {None}]
      BY <1>4 DEF StartCommit, Types, TypeOK
    <2> QED BY <1>4, <1>7, <2>1, <2>2 DEF StartCommit, Types, TypeOK
  <1> QED BY <1>6, <1>8, <1>9 DEF Types

LEMMA BatchTypes ==
  ASSUME Types, NEW c \in Clients, ParseBatchOf(c)
  PROVE  Types'
  <1>1. PICK T \in SUBSET Unparsed(c) : client' = [client EXCEPT ![c].todo = T]
    BY DEF ParseBatchOf, kSubset
  <1>2. PICK e : e = [client[c] EXCEPT !.todo = T]
    OBVIOUS
  <1>3. client' = [client EXCEPT ![c] = e]
    BY <1>1, <1>2 DEF Types, ClientTypes
  <1>4. client[c] \in Work /\ client[c].files \in Files
    BY AtWork DEF ParseBatchOf, Types
  <1>5. T \subseteq Units
    BY <1>4, UnitsType DEF Unparsed
  <1>6. e \in Work /\ e.at = "parsing" /\ e.ts = client[c].ts
    BY <1>2, <1>4, <1>5 DEF Work, ParseBatchOf
  <1>7. e.ts \in 1 .. clock /\ clock' = clock
    BY <1>6 DEF Types, ClientTypes, Running, ParseBatchOf
  <1>8. ClientTypes'
    BY <1>3, <1>6, <1>7, ClientGoes, Clock
  <1> QED BY <1>8 DEF Types, TypeOK, ReaderTypes, ParseBatchOf

(* A batch loses a unit. *)
LEMMA LeavesTypes ==
  ASSUME Types, NEW c \in Clients, NEW u, client[c].at = "parsing", clock' = clock,
         client' = [client EXCEPT ![c].todo = @ \ {u}]
  PROVE  ClientTypes'
  <1>1. PICK e : e = [client[c] EXCEPT !.todo = client[c].todo \ {u}]
    OBVIOUS
  <1>2. client' = [client EXCEPT ![c] = e]
    BY <1>1 DEF Types, ClientTypes
  <1>3. client[c] \in Work
    BY AtWork DEF Types
  <1>4. e \in Work /\ e.at = "parsing" /\ e.ts = client[c].ts
    BY <1>1, <1>3 DEF Work
  <1>5. e.ts \in 1 .. clock
    BY <1>4 DEF Types, ClientTypes, Running
  <1> QED BY <1>2, <1>4, <1>5, ClientGoes, Clock

LEMMA StoreTypes ==
  ASSUME Types, NEW c \in Clients, StoreParse(c) \/ RecordParseFailure(c)
  PROVE  Types'
  <1>1. PICK u \in client[c].todo :
          /\ client' = [client EXCEPT ![c].todo = @ \ {u}]
          /\ \/ /\ parse' = [parse EXCEPT ![u] = IF StillNew(u) THEN "parsed" ELSE @]
                /\ symbols' = IF StillNew(u) THEN symbols \cup {u} ELSE symbols
             \/ /\ parse' = [parse EXCEPT ![u] = IF StillNew(u) THEN "failed" ELSE @]
                /\ symbols' = symbols
    BY DEF StoreParse, RecordParseFailure
  <1>2. /\ client[c].at = "parsing"
        /\ UNCHANGED <<clock, blobs, default, branch, rows, vectors, embedder, dirs, reader, last,
                       overlapped>>
    BY DEF StoreParse, RecordParseFailure
  <1>3. u \in Units
    BY <1>2, AtWork DEF Types
  <1>4. ClientTypes'
    BY <1>1, <1>2, LeavesTypes
  <1>5. parse' \in [Units -> {"absent", "new", "parsed", "failed"}] /\ symbols' \subseteq Units
    BY <1>1, <1>3 DEF Types, TypeOK
  <1> QED BY <1>2, <1>4, <1>5 DEF Types, TypeOK, ReaderTypes

LEMMA CommitTypes ==
  ASSUME Types, NEW c \in Clients, CommitBranch(c)
  PROVE  Types'
  <1>1. PICK e : e = [client[c] EXCEPT !.at = "seeing", !.files = NoFiles]
    OBVIOUS
  <1>2. client' = [client EXCEPT ![c] = e]
    BY <1>1 DEF CommitBranch, Types, ClientTypes
  <1>3. /\ client[c] \in Work /\ client[c].files \in Files /\ client[c].branch \in Branches
        /\ client[c].ts \in 1 .. clock
    BY AtWork DEF CommitBranch, Types, ClientTypes, Running
  <1>4. e \in Work /\ e.at = "seeing" /\ e.ts = client[c].ts
    BY <1>1, <1>3, NoFilesType DEF Work, Stages
  <1>5. clock' = clock
    BY DEF CommitBranch
  <1>6. ClientTypes'
    BY <1>2, <1>3, <1>4, <1>5, ClientGoes, Clock
  <1>7. branch' \in [Branches -> [indexed : 0 .. clock, seen : 0 .. clock, retired : BOOLEAN]]
    BY <1>3 DEF CommitBranch, Types, TypeOK, ClientTypes
  <1>8. rows' \subseteq [branch : Branches, unit : Units, from : 1 .. clock,
                         until : 1 .. clock \cup {None}]
    <2>1. AddedUnits(c) \subseteq Units
      BY <1>3, UnitsType DEF AddedUnits, Wanted
    <2>2. RetiredRows(c) \subseteq rows
      BY <1>3, LiveType DEF RetiredRows, Types
    <2>3. \A r \in RetiredRows(c) :
             [r EXCEPT !.until = client[c].ts] \in
                [branch : Branches, unit : Units, from : 1 .. clock, until : 1 .. clock \cup {None}]
      BY <1>3, <2>2 DEF Types, TypeOK
    <2> QED BY <1>3, <2>1, <2>3 DEF CommitBranch, Types, TypeOK
  <1>9. last' \in [Branches -> Files]
    BY <1>3 DEF CommitBranch, Types, TypeOK
  <1>10. reader' \in Asked \cup {NoRead}
    <2>1. CASE reader.at # "idle" /\ reader.branch = client[c].branch
      <3>1. reader' = [reader EXCEPT !.since = reader.since \cup {client[c].files}]
        BY <2>1 DEF CommitBranch
      <3>2. reader \in Asked
        BY <2>1 DEF Types, ReaderTypes, NoRead
      <3> QED BY <1>3, <3>1, <3>2 DEF Asked
    <2>2. CASE ~(reader.at # "idle" /\ reader.branch = client[c].branch)
      BY <2>2 DEF CommitBranch, Types, ReaderTypes
    <2> QED BY <2>1, <2>2
  <1>11. ReaderTypes'
    BY <1>10 DEF CommitBranch, Types, ReaderTypes
  <1>12. TypeOK'
    BY <1>5, <1>7, <1>8, <1>9 DEF CommitBranch, Types, TypeOK
  <1> QED BY <1>6, <1>11, <1>12 DEF Types

LEMMA SeeTypes ==
  ASSUME Types, NEW c \in Clients, SeeBranches(c)
  PROVE  Types'
  <1>1. PICK e : e = [client[c] EXCEPT !.at = "retiring"]
    OBVIOUS
  <1>2. client' = [client EXCEPT ![c] = e] /\ client[c].at = "seeing" /\ clock' = clock
    BY <1>1 DEF SeeBranches, Goes, Types, ClientTypes
  <1>3. client[c] \in Work /\ client[c].ts \in 1 .. clock
    BY <1>2, AtWork DEF Types, ClientTypes, Running
  <1>4. e \in Work /\ e.at = "retiring" /\ e.ts = client[c].ts
    BY <1>1, <1>3 DEF Work, Stages
  <1>5. ClientTypes'
    BY <1>2, <1>3, <1>4, ClientGoes, Clock
  <1>6. branch' \in [Branches -> [indexed : 0 .. clock, seen : 0 .. clock, retired : BOOLEAN]]
    BY <1>3 DEF SeeBranches, Types, TypeOK, ClientTypes
  <1> QED BY <1>2, <1>5, <1>6 DEF SeeBranches, Types, TypeOK, ReaderTypes

LEMMA ToIdleTypes ==
  ASSUME Types, NEW c \in Clients, RetireUnseen(c) \/ Abandon(c)
  PROVE  Types'
  <1>1. client' = [client EXCEPT ![c] = Idle] /\ clock' = clock
    BY DEF RetireUnseen, Abandon
  <1>2. Idle.at \notin {"parsing", "seeing", "retiring"}
    BY DEF Idle
  <1>3. ClientTypes'
    BY <1>1, <1>2, ClientGoes, Clock
  <1>4. branch' \in [Branches -> [indexed : 0 .. clock, seen : 0 .. clock, retired : BOOLEAN]]
    <2>1. branch \in [Branches -> [indexed : 0 .. clock, seen : 0 .. clock, retired : BOOLEAN]]
      BY DEF Types, TypeOK
    <2>2. CASE RetireUnseen(c)
      <3>1. PICK S : branch' = [b \in Branches |-> IF b \in S THEN [branch[b] EXCEPT !.retired = TRUE]
                                                   ELSE branch[b]]
        BY <2>2 DEF RetireUnseen
      <3> QED BY <2>1, <3>1
    <2>3. CASE Abandon(c)
      BY <2>1, <2>3 DEF Abandon
    <2> QED BY <2>2, <2>3
  <1> QED BY <1>1, <1>3, <1>4 DEF RetireUnseen, Abandon, Types, TypeOK, ReaderTypes

LEMMA GapTypes ==
  ASSUME Types, Gap
  PROVE  Types'
  <1>1. clock' = clock + Window + 1 /\ clock \in Nat \ {0} /\ Window \in Nat
    BY IndexAssumption DEF Gap, Types, ClientTypes, IndexAssumption
  <1>2. clock' \in Nat \ {0} /\ clock <= clock'
    BY <1>1
  <1>3. ClientTypes'
    BY <1>2 DEF Gap, Types, ClientTypes, Running
  <1>4. branch' \in [Branches -> [indexed : 0 .. clock', seen : 0 .. clock', retired : BOOLEAN]]
    BY <1>1, <1>2 DEF Gap, Types, TypeOK
  <1>5. rows' \subseteq [branch : Branches, unit : Units, from : 1 .. clock',
                         until : 1 .. clock' \cup {None}]
    BY <1>1, <1>2 DEF Gap, Types, TypeOK
  <1> QED BY <1>3, <1>4, <1>5 DEF Gap, Types, TypeOK, ReaderTypes

LEMMA WorksTypes ==
  ASSUME Types, Works
  PROVE  Types'
  <1>1. UNCHANGED <<clock, blobs, parse, symbols, default, branch, rows, client, dirs, reader, last,
                    overlapped>>
    BY DEF Works, PendingEmbeddings, CommitVectors, EmbedFails
  <1>2. Leading(Lacking, EmbedBatch) \subseteq Contents
    BY DEF Leading, Lacking, Texts, LiveUnits, Types, TypeOK, Units
  <1>3. embedder' \subseteq Contents /\ vectors' \subseteq Contents
    BY <1>2 DEF Works, PendingEmbeddings, CommitVectors, EmbedFails, Types, TypeOK
  <1> QED BY <1>1, <1>3 DEF Types, TypeOK, ClientTypes, Running, ReaderTypes

LEMMA AskTypes ==
  ASSUME Types, ReadBranch
  PROVE  Types'
  <1>1. PICK b \in Branches : reader' = [at |-> "asking", branch |-> b, key |-> Key(b),
                                         since |-> {FilesOf(b)}, shown |-> NoFiles]
    BY DEF ReadBranch
  <1>2. Key(b) \in Branches \X Nat
    BY DEF Key, Types, TypeOK, ClientTypes
  <1>3. reader' \in Asked
    BY <1>1, <1>2, LiveType, NoFilesType DEF Asked, Types
  <1> QED BY <1>3 DEF ReadBranch, Types, TypeOK, ClientTypes, Running, ReaderTypes

LEMMA AskedFields ==
  ASSUME ReaderTypes, reader.at # "idle"
  PROVE  /\ reader \in Asked /\ reader.branch \in Branches /\ reader.key \in Branches \X Nat
         /\ reader.since \in SUBSET Files /\ reader.shown \in Files
  BY DEF ReaderTypes, NoRead, Asked

LEMMA ReadTypes ==
  ASSUME Types, ReadDirectory
  PROVE  Types'
  <1>1. reader \in Asked /\ reader.branch \in Branches /\ reader.key \in Branches \X Nat
    BY AskedFields DEF ReadDirectory, Types
  <1>2. PICK K : K = {d \in dirs : d.key = reader.key}
    OBVIOUS
  <1>3. PICK s : s = IF K = {} THEN FilesOf(reader.branch) ELSE (CHOOSE d \in K : TRUE).files
    OBVIOUS
  <1>4. s \in Files
    <2>1. CASE K = {}
      BY <1>1, <1>3, <2>1, LiveType DEF Types
    <2>2. CASE K # {}
      <3>1. (CHOOSE d \in K : TRUE) \in dirs
        BY <1>2, <2>2
      <3> QED BY <1>3, <2>2, <3>1 DEF Types, ReaderTypes
    <2> QED BY <2>1, <2>2
  <1>5. /\ dirs' = dirs \cup {[key |-> reader.key, files |-> s]}
        /\ reader' = [reader EXCEPT !.at = "shown", !.shown = s]
    BY <1>2, <1>3 DEF ReadDirectory
  <1>6. ReaderTypes'
    <2>1. reader' \in Asked
      BY <1>1, <1>4, <1>5 DEF Asked
    <2>2. dirs' \subseteq [key : Branches \X Nat, files : Files]
      BY <1>1, <1>4, <1>5 DEF Types, ReaderTypes
    <2> QED BY <2>1, <2>2 DEF ReadDirectory, Types, ReaderTypes
  <1> QED BY <1>6 DEF ReadDirectory, Types, TypeOK, ClientTypes, Running

LEMMA ReadEndsTypes == Types /\ ReadEnds => Types'
  BY DEF ReadEnds, Types, TypeOK, ClientTypes, Running, ReaderTypes

LEMMA TypesStep == Types /\ [Next]_vars => Types'
  <1> SUFFICES ASSUME Types, [Next]_vars PROVE Types'
    OBVIOUS
  <1>1. ASSUME NEW c \in Clients, Manifest(c) \/ Upload(c) \/ StartCommit(c) \/ ParseBatchOf(c)
        PROVE  Types'
    BY <1>1, ManifestTypes, UploadTypes, StartTypes, BatchTypes
  <1>2. ASSUME NEW c \in Clients, StoreParse(c) \/ RecordParseFailure(c) \/ CommitBranch(c)
        PROVE  Types'
    BY <1>2, StoreTypes, CommitTypes
  <1>3. ASSUME NEW c \in Clients, SeeBranches(c) \/ RetireUnseen(c) \/ Abandon(c)
        PROVE  Types'
    BY <1>3, SeeTypes, ToIdleTypes
  <1>4. CASE Gap \/ Works \/ ReadBranch \/ ReadDirectory \/ ReadEnds
    BY <1>4, GapTypes, WorksTypes, AskTypes, ReadTypes, ReadEndsTypes
  <1>5. CASE UNCHANGED vars
    BY <1>5 DEF vars, Types, TypeOK, ClientTypes, Running, ReaderTypes
  <1> QED BY <1>1, <1>2, <1>3, <1>4, <1>5 DEF Next

-----------------------------------------------------------------------------
(* What a step leaves *)

(* Whoever runs a commit has just started it, or ran it already: the same list of the same    *)
(* branch, at the same time.                                                                  *)
LEMMA StillRunning ==
  ASSUME Types, Next, NEW d \in Clients, Running(d)'
  PROVE  \/ StartCommit(d)
         \/ /\ Running(d)
            /\ client'[d].branch = client[d].branch /\ client'[d].ts = client[d].ts
            /\ client'[d].at = "parsing" =>
                 client[d].at = "parsing" /\ client'[d].files = client[d].files
  <1> DEFINE Same == /\ Running(d)
                     /\ client'[d].branch = client[d].branch /\ client'[d].ts = client[d].ts
                     /\ client'[d].at = "parsing" =>
                          client[d].at = "parsing" /\ client'[d].files = client[d].files
  <1> SUFFICES StartCommit(d) \/ Same
    OBVIOUS
  <1>0. client \in [Clients -> Work \cup {Idle}]
    BY DEF Types, ClientTypes
  <1>1. ASSUME client'[d] = client[d] PROVE Same
    BY <1>1 DEF Running
  <1>2. ASSUME NEW c \in Clients, Manifest(c) \/ Upload(c) \/ StartCommit(c)
        PROVE  StartCommit(d) \/ Same
    <2>1. CASE c = d
      <3>1. CASE Manifest(c)
        BY <1>0, <2>1, <3>1 DEF Manifest, Running
      <3>2. CASE Upload(c)
        <4>1. client[c] \in Work
          BY <3>2, AtWork DEF Upload, Types
        <4>2. client'[c] = [client[c] EXCEPT !.at = "committing", !.missing = {}]
          BY <1>0, <3>2 DEF Upload
        <4>3. client'[c].at = "committing"
          BY <4>1, <4>2 DEF Work
        <4> QED BY <2>1, <4>3 DEF Running
      <3> QED BY <1>2, <2>1, <3>1, <3>2
    <2>2. CASE c # d
      BY <1>0, <1>1, <1>2, <2>2 DEF Manifest, Upload, StartCommit
    <2> QED BY <2>1, <2>2
  <1>3. ASSUME NEW c \in Clients, ParseBatchOf(c) \/ StoreParse(c) \/ RecordParseFailure(c)
        PROVE  Same
    <2>1. client[c].at = "parsing" /\ \E T : client' = [client EXCEPT ![c].todo = T]
      BY <1>3 DEF ParseBatchOf, StoreParse, RecordParseFailure
    <2>2. client[c] \in Work
      BY <2>1, AtWork DEF Types
    <2>3. PICK T : client' = [client EXCEPT ![c].todo = T]
      BY <2>1
    <2>4. CASE c = d
      <3>1. client'[d] = [client[d] EXCEPT !.todo = T]
        BY <1>0, <2>3, <2>4
      <3>2. client'[d].at = client[d].at /\ client'[d].branch = client[d].branch
            /\ client'[d].ts = client[d].ts /\ client'[d].files = client[d].files
        BY <2>2, <2>4, <3>1 DEF Work
      <3> QED BY <2>1, <2>4, <3>2 DEF Running
    <2>5. CASE c # d
      BY <1>0, <1>1, <2>3, <2>5
    <2> QED BY <2>4, <2>5
  <1>4. ASSUME NEW c \in Clients, CommitBranch(c) \/ SeeBranches(c)
        PROVE  Same
    <2>1. client[c] \in Work /\ Running(c)
      BY <1>4, AtWork DEF Types, CommitBranch, SeeBranches, Goes, Running
    <2>2. CASE c = d
      <3>1. \/ client'[d] = [client[d] EXCEPT !.at = "seeing", !.files = NoFiles]
            \/ client'[d] = [client[d] EXCEPT !.at = "retiring"]
        BY <1>0, <1>4, <2>2 DEF CommitBranch, SeeBranches, Goes
      <3>2. client'[d].at # "parsing" /\ client'[d].branch = client[d].branch
            /\ client'[d].ts = client[d].ts
        BY <2>1, <2>2, <3>1 DEF Work
      <3> QED BY <2>1, <2>2, <3>2
    <2>3. CASE c # d
      BY <1>0, <1>1, <1>4, <2>3 DEF CommitBranch, SeeBranches, Goes
    <2> QED BY <2>2, <2>3
  <1>5. ASSUME NEW c \in Clients, RetireUnseen(c) \/ Abandon(c)
        PROVE  Same
    <2>1. client' = [client EXCEPT ![c] = Idle]
      BY <1>5 DEF RetireUnseen, Abandon
    <2> QED BY <1>0, <1>1, <2>1 DEF Running, Idle
  <1>6. CASE Gap \/ Works \/ ReadBranch \/ ReadDirectory \/ ReadEnds
    BY <1>1, <1>6 DEF Gap, Works, PendingEmbeddings, CommitVectors, EmbedFails, ReadBranch,
                      ReadDirectory, ReadEnds
  <1> HIDE DEF Same
  <1> QED BY <1>2, <1>3, <1>4, <1>5, <1>6 DEF Next

(* Only a commit writes what branches list. *)
LEMMA RowsOnlyCommitted ==
  ASSUME Types, Next
  PROVE  \/ \E c \in Clients : CommitBranch(c)
         \/ UNCHANGED <<rows, last>> /\ \A b \in Branches : branch'[b].indexed = branch[b].indexed
  <1>1. ASSUME NEW c \in Clients, Manifest(c) \/ Upload(c) \/ StartCommit(c) \/ ParseBatchOf(c)
        PROVE  UNCHANGED <<rows, last, branch>>
    BY <1>1 DEF Manifest, Upload, StartCommit, ParseBatchOf
  <1>2. ASSUME NEW c \in Clients, StoreParse(c) \/ RecordParseFailure(c) \/ Abandon(c)
        PROVE  UNCHANGED <<rows, last, branch>>
    BY <1>2 DEF StoreParse, RecordParseFailure, Abandon
  <1>3. ASSUME NEW c \in Clients, SeeBranches(c) \/ RetireUnseen(c)
        PROVE  UNCHANGED <<rows, last>>
               /\ \A b \in Branches : branch'[b].indexed = branch[b].indexed
    <2>1. UNCHANGED <<rows, last>>
      BY <1>3 DEF SeeBranches, RetireUnseen
    <2>2. ASSUME NEW b \in Branches
          PROVE  branch'[b].indexed = branch[b].indexed
      <3>1. \/ branch'[b] = branch[b]
            \/ branch'[b] = [branch[b] EXCEPT !.retired = TRUE]
            \/ branch'[b] = [branch[b] EXCEPT !.seen = client[c].ts]
        BY <1>3 DEF SeeBranches, RetireUnseen
      <3>2. branch[b] \in [indexed : 0 .. clock, seen : 0 .. clock, retired : BOOLEAN]
        BY <2>2 DEF Types, TypeOK
      <3> QED BY <3>1, <3>2
    <2> QED BY <2>1, <2>2
  <1>4. CASE Gap \/ Works \/ ReadBranch \/ ReadDirectory \/ ReadEnds
    BY <1>4 DEF Gap, Works, PendingEmbeddings, CommitVectors, EmbedFails, ReadBranch,
                ReadDirectory, ReadEnds
  <1> QED BY <1>1, <1>2, <1>3, <1>4 DEF Next

(* Only readers keep directories. *)
LEMMA DirsOnlyRead ==
  ASSUME Next
  PROVE  \/ ReadBranch \/ ReadDirectory \/ ReadEnds
         \/ dirs' = dirs /\ (reader' = reader \/ \E c \in Clients : CommitBranch(c))
  <1>1. ASSUME NEW c \in Clients, Manifest(c) \/ Upload(c) \/ StartCommit(c) \/ ParseBatchOf(c)
        PROVE  UNCHANGED <<dirs, reader>>
    BY <1>1 DEF Manifest, Upload, StartCommit, ParseBatchOf
  <1>2. ASSUME NEW c \in Clients, StoreParse(c) \/ RecordParseFailure(c) \/ Abandon(c)
               \/ SeeBranches(c) \/ RetireUnseen(c)
        PROVE  UNCHANGED <<dirs, reader>>
    BY <1>2 DEF StoreParse, RecordParseFailure, Abandon, SeeBranches, RetireUnseen
  <1>3. ASSUME NEW c \in Clients, CommitBranch(c)
        PROVE  dirs' = dirs
    BY <1>3 DEF CommitBranch
  <1>4. CASE Gap \/ Works
    BY <1>4 DEF Gap, Works, PendingEmbeddings, CommitVectors, EmbedFails
  <1> QED BY <1>1, <1>2, <1>3, <1>4 DEF Next

-----------------------------------------------------------------------------
(* What a branch lists is parsed *)

Parsed ==
    /\ LiveIsParsed
    /\ \A c \in Clients : client[c].at = "parsing" =>
         \A u \in UnitsOf(client[c].files) : u[1] \in blobs /\ parse[u] # "absent"

(* The host forgets neither a content nor that it was asked to parse it. *)
LEMMA ParseKept ==
  ASSUME Types, Next
  PROVE  /\ blobs \subseteq blobs'
         /\ \A u \in Units : parse[u] # "absent" =>
              parse'[u] # "absent" /\ (parse[u] # "new" => parse'[u] = parse[u])
  <1>0. parse \in [Units -> {"absent", "new", "parsed", "failed"}]
    BY DEF Types, TypeOK
  <1>1. ASSUME NEW c \in Clients, Manifest(c) \/ Upload(c) \/ ParseBatchOf(c) \/ Abandon(c)
        PROVE  blobs \subseteq blobs' /\ parse' = parse
    BY <1>1 DEF Manifest, Upload, ParseBatchOf, Abandon
  <1>2. ASSUME NEW c \in Clients, StartCommit(c)
        PROVE  /\ blobs' = blobs
               /\ \A u \in Units : parse[u] # "absent" => parse'[u] = parse[u]
    BY <1>2 DEF StartCommit, NewUnits
  <1>3. ASSUME NEW c \in Clients, StoreParse(c) \/ RecordParseFailure(c)
        PROVE  /\ blobs' = blobs
               /\ \A u \in Units : parse[u] # "absent" =>
                    parse'[u] # "absent" /\ (parse[u] # "new" => parse'[u] = parse[u])
    <2>1. PICK u, x : /\ parse' = [parse EXCEPT ![u] = IF parse[u] = "new" THEN x ELSE parse[u]]
                      /\ x # "absent"
      <3>1. CASE StoreParse(c)
        BY <3>1 DEF StoreParse, StillNew
      <3>2. CASE RecordParseFailure(c)
        BY <3>2 DEF RecordParseFailure, StillNew
      <3> QED BY <1>3, <3>1, <3>2
    <2>2. blobs' = blobs
      BY <1>3 DEF StoreParse, RecordParseFailure
    <2> QED BY <1>0, <2>1, <2>2
  <1>4. ASSUME NEW c \in Clients, CommitBranch(c) \/ SeeBranches(c) \/ RetireUnseen(c)
        PROVE  UNCHANGED <<blobs, parse>>
    BY <1>4 DEF CommitBranch, SeeBranches, RetireUnseen
  <1>5. CASE Gap \/ Works \/ ReadBranch \/ ReadDirectory \/ ReadEnds
    BY <1>5 DEF Gap, Works, PendingEmbeddings, CommitVectors, EmbedFails, ReadBranch,
                ReadDirectory, ReadEnds
  <1> QED BY <1>1, <1>2, <1>3, <1>4, <1>5 DEF Next

LEMMA SymbolsStep ==
  ASSUME Types, Next, symbols = {u \in Units : parse[u] = "parsed"}
  PROVE  symbols' = {u \in Units : parse'[u] = "parsed"}
  <1>0. parse \in [Units -> {"absent", "new", "parsed", "failed"}]
    BY DEF Types, TypeOK
  <1>1. ASSUME NEW c \in Clients, Manifest(c) \/ Upload(c) \/ ParseBatchOf(c) \/ Abandon(c)
        PROVE  UNCHANGED <<symbols, parse>>
    BY <1>1 DEF Manifest, Upload, ParseBatchOf, Abandon
  <1>2. ASSUME NEW c \in Clients, StartCommit(c)
        PROVE  /\ symbols' = symbols
               /\ \A u \in Units : parse'[u] = "parsed" <=> parse[u] = "parsed"
    BY <1>2 DEF StartCommit, NewUnits
  <1>3. ASSUME NEW c \in Clients, StoreParse(c)
        PROVE  symbols' = {u \in Units : parse'[u] = "parsed"}
    <2>1. PICK u \in client[c].todo :
             /\ parse' = [parse EXCEPT ![u] = IF parse[u] = "new" THEN "parsed" ELSE parse[u]]
             /\ symbols' = IF parse[u] = "new" THEN symbols \cup {u} ELSE symbols
      BY <1>3 DEF StoreParse, StillNew
    <2>2. u \in Units
      BY <1>3, <2>1, AtWork DEF StoreParse, Types
    <2> QED BY <1>0, <2>1, <2>2
  <1>4. ASSUME NEW c \in Clients, RecordParseFailure(c)
        PROVE  symbols' = {u \in Units : parse'[u] = "parsed"}
    <2>1. PICK u :
             parse' = [parse EXCEPT ![u] = IF parse[u] = "new" THEN "failed" ELSE parse[u]]
      BY <1>4 DEF RecordParseFailure, StillNew
    <2>2. symbols' = symbols
      BY <1>4 DEF RecordParseFailure
    <2> QED BY <1>0, <2>1, <2>2
  <1>5. ASSUME NEW c \in Clients, CommitBranch(c) \/ SeeBranches(c) \/ RetireUnseen(c)
        PROVE  UNCHANGED <<symbols, parse>>
    BY <1>5 DEF CommitBranch, SeeBranches, RetireUnseen
  <1>6. CASE Gap \/ Works \/ ReadBranch \/ ReadDirectory \/ ReadEnds
    BY <1>6 DEF Gap, Works, PendingEmbeddings, CommitVectors, EmbedFails, ReadBranch,
                ReadDirectory, ReadEnds
  <1> QED BY <1>1, <1>2, <1>3, <1>4, <1>5, <1>6 DEF Next

(* A commit leaves a row, closes it, or adds it for a unit of its list. *)
LEMMA CommittedRows ==
  ASSUME Types, NEW c \in Clients, CommitBranch(c), NEW r \in rows'
  PROVE  \/ r \in rows \ RetiredRows(c)
         \/ \E q \in RetiredRows(c) : r = [q EXCEPT !.until = client[c].ts]
         \/ \E u \in AddedUnits(c) :
              r = [branch |-> client[c].branch, unit |-> u, from |-> client[c].ts, until |-> None]
  BY DEF CommitBranch

LEMMA ParsedStep ==
  ASSUME Types, Parsed, Next
  PROVE  Parsed'
  <1>1. symbols' = {u \in Units : parse'[u] = "parsed"}
    BY SymbolsStep DEF Parsed, LiveIsParsed
  <1>2. ASSUME NEW r \in rows'
        PROVE  r.unit \in Units /\ r.unit[1] \in blobs /\ parse[r.unit] \in {"parsed", "failed"}
    <2>1. ASSUME NEW q \in rows
          PROVE  q.unit \in Units /\ q.unit[1] \in blobs /\ parse[q.unit] \in {"parsed", "failed"}
      BY DEF Types, TypeOK, Parsed, LiveIsParsed
    <2>2. ASSUME NEW c \in Clients, CommitBranch(c)
          PROVE  r.unit \in Units /\ r.unit[1] \in blobs /\ parse[r.unit] \in {"parsed", "failed"}
      <3>1. client[c].at = "parsing" /\ Unparsed(c) = {} /\ client[c].files \in Files
            /\ client[c].branch \in Branches
        BY <2>2, AtWork DEF CommitBranch, AllParsed, Types
      <3>2. CASE r \in rows
        BY <2>1, <3>2
      <3>3. ASSUME NEW q \in RetiredRows(c), r = [q EXCEPT !.until = client[c].ts]
            PROVE  q \in rows /\ r.unit = q.unit
        <4>1. q \in rows
          BY <3>1, LiveType DEF RetiredRows, Types
        <4> QED BY <3>3, <4>1 DEF Types, TypeOK
      <3>4. ASSUME NEW u \in AddedUnits(c), r.unit = u
            PROVE  r.unit \in Units /\ r.unit[1] \in blobs /\ parse[r.unit] \in {"parsed", "failed"}
        <4>1. u \in UnitsOf(client[c].files) /\ u \in Units
          BY <3>1, UnitsType DEF AddedUnits, Wanted
        <4>2. u[1] \in blobs /\ parse[u] # "absent"
          BY <3>1, <4>1 DEF Parsed
        <4>3. parse[u] # "new"
          BY <3>1, <4>1 DEF Unparsed
        <4> QED BY <3>4, <4>1, <4>2, <4>3 DEF Types, TypeOK
      <3> QED BY <2>1, <2>2, <3>2, <3>3, <3>4, CommittedRows
    <2> QED BY <2>1, <2>2, RowsOnlyCommitted
  <1>3. \A r \in rows' : r.unit[1] \in blobs' /\ parse'[r.unit] \in {"parsed", "failed"}
    BY <1>2, ParseKept
  <1>4. ASSUME NEW d \in Clients, client'[d].at = "parsing", NEW u \in UnitsOf(client'[d].files)
        PROVE  u[1] \in blobs' /\ parse'[u] # "absent"
    <2>1. CASE StartCommit(d)
      <3>1. client[d] \in Work /\ client[d].files \in Files
        BY <2>1, AtWork DEF StartCommit, Types
      <3>2. client'[d].files = client[d].files
        BY <2>1, <3>1 DEF StartCommit, Types, ClientTypes, Work
      <3>3. u \in UnitsOf(client[d].files) /\ u \in Units
        BY <1>4, <3>1, <3>2, UnitsType
      <3>4. u[1] \in blobs /\ blobs' = blobs
        BY <2>1, <3>3 DEF StartCommit, ContentsOf
      <3>5. parse'[u] # "absent"
        BY <2>1, <3>3 DEF StartCommit, NewUnits
      <3> QED BY <3>4, <3>5
    <2>2. CASE ~StartCommit(d)
      <3>1. client[d].at = "parsing" /\ client'[d].files = client[d].files
        BY <1>4, <2>2, StillRunning DEF Running
      <3>2. u \in Units
        BY <1>4, <3>1, AtWork, UnitsType DEF Types
      <3>3. u[1] \in blobs /\ parse[u] # "absent"
        BY <1>4, <3>1 DEF Parsed
      <3> QED BY <3>2, <3>3, ParseKept
    <2> QED BY <2>1, <2>2
  <1> QED BY <1>1, <1>3, <1>4 DEF Parsed, LiveIsParsed

(* Whatever a branch lists the host has and has tried to parse, and a unit has its symbols    *)
(* exactly when it counts as parsed without an error (branch-code.service.ts:72-106,          *)
(* branch-code.ts:165-174, 267-273).                                                          *)
THEOREM ListedIsParsed == Spec => []LiveIsParsed
  <1>1. Init => Parsed
    BY DEF Init, Parsed, LiveIsParsed, Idle
  <1>2. Types /\ Parsed /\ [Next]_vars => Parsed'
    <2>1. Types /\ Parsed /\ UNCHANGED vars => Parsed'
      BY DEF vars, Parsed, LiveIsParsed
    <2> QED BY <2>1, ParsedStep
  <1>3. Parsed => LiveIsParsed
    BY DEF Parsed
  <1> QED BY <1>1, <1>2, <1>3, InitTypes, TypesStep, PTL DEF Spec

-----------------------------------------------------------------------------
(* What a branch lists is one commit's *)

LEMMA CommitFacts ==
  ASSUME Types, NEW c \in Clients, CommitBranch(c)
  PROVE  /\ client[c].at = "parsing" /\ Running(c)
         /\ client[c].branch \in Branches /\ client[c].files \in Files
         /\ client[c].ts \in 1 .. clock /\ client[c].ts # None
         /\ UnitsOf(client[c].files) \subseteq Units
         /\ \A r \in RetiredRows(c) : r \in rows /\ r.branch = client[c].branch /\ r.until = None
  <1>1. client[c].at = "parsing" /\ Running(c)
    BY DEF CommitBranch, Running
  <1>2. client[c].branch \in Branches /\ client[c].files \in Files /\ client[c].ts \in 1 .. clock
    BY <1>1, AtWork DEF Types, ClientTypes
  <1>3. client[c].ts # None
    BY <1>2, IndexAssumption DEF IndexAssumption
  <1>4. \A r \in RetiredRows(c) : r \in rows /\ r.branch = client[c].branch /\ r.until = None
    BY DEF RetiredRows, Live
  <1> QED BY <1>1, <1>2, <1>3, <1>4, UnitsType

(* What is live after a commit was live and is still listed, or is listed and new. *)
LEMMA CommittedLive ==
  ASSUME Types, NEW c \in Clients, CommitBranch(c), NEW x \in Branches, NEW r
  PROVE  r \in Live(x)' <=>
           \/ r \in Live(x) /\ (x = client[c].branch => r.unit \in Wanted(c))
           \/ /\ x = client[c].branch
              /\ \E u \in AddedUnits(c) :
                   r = [branch |-> x, unit |-> u, from |-> client[c].ts, until |-> None]
  <1> DEFINE b == client[c].branch
             ts == client[c].ts
             New == {[branch |-> b, unit |-> u, from |-> ts, until |-> None] : u \in AddedUnits(c)}
             Closed == {[q EXCEPT !.until = ts] : q \in RetiredRows(c)}
  <1>1. rows' = (rows \ RetiredRows(c)) \cup Closed \cup New
    BY DEF CommitBranch
  <1>2. \A q \in Closed : q.until # None
    BY CommitFacts DEF Types, TypeOK
  <1>3. \A q \in New : q.branch = b /\ q.until = None
    OBVIOUS
  <1>4. r \in Live(x)' <=> r \in rows' /\ r.branch = x /\ r.until = None
    BY DEF Live
  <1>5. r \in Live(x)' <=> \/ r \in Live(x) \ RetiredRows(c)
                           \/ r \in New /\ x = b
    <2> HIDE DEF New, Closed
    <2> QED BY <1>1, <1>2, <1>3, <1>4 DEF Live
  <1>6. r \in Live(x) => (r \in RetiredRows(c) <=> x = b /\ r.unit \notin Wanted(c))
    BY DEF RetiredRows, Live
  <1> QED BY <1>5, <1>6

LEMMA ListedOnce ==
  ASSUME NEW f \in Files, NEW u \in UnitsOf(f), NEW v \in UnitsOf(f), u[2] = v[2]
  PROVE  u = v
  BY DEF UnitsOf

LEMMA OneCommitStep ==
  ASSUME Types, LiveIsOneCommit, Next
  PROVE  LiveIsOneCommit'
  <1>1. ASSUME UNCHANGED <<rows, last>> PROVE LiveIsOneCommit'
    BY <1>1 DEF LiveIsOneCommit, Live
  <1>2. ASSUME NEW c \in Clients, CommitBranch(c), NEW x \in Branches
        PROVE  /\ {r.unit : r \in Live(x)'} = UnitsOf(last'[x])
               /\ \A r, s \in Live(x)' : r.unit[2] = s.unit[2] => r = s
    <2>1. CASE x # client[c].branch
      <3>1. \A r : r \in Live(x)' <=> r \in Live(x)
        BY <1>2, <2>1, CommittedLive
      <3>2. last'[x] = last[x]
        BY <1>2, <2>1 DEF CommitBranch, Types, TypeOK
      <3> QED BY <3>1, <3>2 DEF LiveIsOneCommit
    <2>2. CASE x = client[c].branch
      <3> DEFINE Entry(u) == [branch |-> x, unit |-> u, from |-> client[c].ts, until |-> None]
      <3>1. \A r : r \in Live(x)' <=> \/ r \in Live(x) /\ r.unit \in Wanted(c)
                                      \/ \E u \in AddedUnits(c) : r = Entry(u)
        BY <1>2, <2>2, CommittedLive
      <3>2. last'[x] = client[c].files
        BY <1>2, <2>2 DEF CommitBranch, Types, TypeOK
      <3>3. AddedUnits(c) = Wanted(c) \ {r.unit : r \in Live(x)} /\ Wanted(c) = UnitsOf(client[c].files)
        BY <2>2 DEF AddedUnits, Wanted
      <3>4. \A u : Entry(u).unit = u
        OBVIOUS
      <3> HIDE DEF Entry
      <3>5. \A r \in Live(x)' : r.unit \in Wanted(c)
        BY <3>1, <3>3, <3>4
      <3>6. ASSUME NEW u \in Wanted(c) PROVE \E r \in Live(x)' : r.unit = u
        <4>1. CASE u \in AddedUnits(c)
          <5>1. Entry(u) \in Live(x)'
            BY <3>1, <4>1
          <5> QED BY <3>4, <5>1
        <4>2. CASE u \notin AddedUnits(c)
          <5>1. PICK r \in Live(x) : r.unit = u
            BY <3>3, <4>2
          <5> QED BY <3>1, <5>1
        <4> QED BY <4>1, <4>2
      <3>7. {r.unit : r \in Live(x)'} = Wanted(c)
        BY <3>5, <3>6
      <3>8. ASSUME NEW r \in Live(x)', NEW s \in Live(x)', r.unit[2] = s.unit[2]
            PROVE  r = s
        <4>1. r.unit = s.unit
          <5>1. client[c].files \in Files
            BY <1>2, CommitFacts
          <5> QED BY <3>3, <3>5, <3>8, <5>1, ListedOnce
        <4>2. CASE r \in Live(x) /\ s \in Live(x)
          BY <3>8, <4>2 DEF LiveIsOneCommit
        <4>3. CASE r \notin Live(x)
          <5>1. PICK u \in AddedUnits(c) : r = Entry(u)
            BY <3>1, <4>3
          <5>2. s \notin Live(x) \/ s.unit # u
            BY <3>3
          <5>3. PICK v \in AddedUnits(c) : s = Entry(v)
            BY <3>1, <3>4, <4>1, <5>1, <5>2
          <5> QED BY <3>4, <4>1, <5>1, <5>3
        <4>4. CASE s \notin Live(x)
          <5>1. PICK u \in AddedUnits(c) : s = Entry(u)
            BY <3>1, <4>4
          <5>2. r \notin Live(x) \/ r.unit # u
            BY <3>3
          <5>3. PICK v \in AddedUnits(c) : r = Entry(v)
            BY <3>1, <3>4, <4>1, <5>1, <5>2
          <5> QED BY <3>4, <4>1, <5>1, <5>3
        <4> QED BY <4>2, <4>3, <4>4
      <3> QED BY <3>2, <3>3, <3>7, <3>8
    <2> QED BY <2>1, <2>2
  <1>3. ASSUME NEW c \in Clients, CommitBranch(c) PROVE LiveIsOneCommit'
    BY <1>2, <1>3 DEF LiveIsOneCommit
  <1> QED BY <1>1, <1>3, RowsOnlyCommitted

LEMMA InitOneCommit == Init => LiveIsOneCommit
  BY NoFilesType DEF Init, LiveIsOneCommit, Live

LEMMA OneCommitNext == Types /\ LiveIsOneCommit /\ [Next]_vars => LiveIsOneCommit'
  <1>1. LiveIsOneCommit /\ UNCHANGED vars => LiveIsOneCommit'
    BY DEF vars, LiveIsOneCommit, Live
  <1> QED BY <1>1, OneCommitStep

(* A branch's live files are one client's list, that of the commit that came last            *)
(* (branch-code.ts:275-334).                                                                  *)
THEOREM ListedIsOneCommit == Spec => []LiveIsOneCommit
  BY InitTypes, TypesStep, InitOneCommit, OneCommitNext, PTL DEF Spec

-----------------------------------------------------------------------------
(* The past of a branch *)

(* Two clients run commits of one branch at once only where that is on record. *)
Alone ==
    \A c, d \in Clients : Running(c) /\ Running(d) /\ c # d /\ client[c].branch = client[d].branch
                          => client[c].branch \in overlapped

(* Where it is not, a commit's time is after all that its branch has seen. *)
Before ==
    \A c \in Clients : client[c].at = "parsing" /\ client[c].branch \notin overlapped =>
        \A r \in rows : r.branch = client[c].branch =>
            r.from < client[c].ts /\ (r.until # None => r.until < client[c].ts)

LEMMA OverlapsKept ==
  ASSUME Next
  PROVE  overlapped \subseteq overlapped'
  <1>1. ASSUME NEW c \in Clients, Manifest(c) \/ Upload(c) \/ StartCommit(c) \/ ParseBatchOf(c)
        PROVE  overlapped \subseteq overlapped'
    BY <1>1 DEF Manifest, Upload, StartCommit, ParseBatchOf
  <1>2. ASSUME NEW c \in Clients, StoreParse(c) \/ RecordParseFailure(c) \/ Abandon(c)
               \/ CommitBranch(c) \/ SeeBranches(c) \/ RetireUnseen(c)
        PROVE  overlapped' = overlapped
    BY <1>2 DEF StoreParse, RecordParseFailure, Abandon, CommitBranch, SeeBranches, RetireUnseen
  <1>3. CASE Gap \/ Works \/ ReadBranch \/ ReadDirectory \/ ReadEnds
    BY <1>3 DEF Gap, Works, PendingEmbeddings, CommitVectors, EmbedFails, ReadBranch,
                ReadDirectory, ReadEnds
  <1> QED BY <1>1, <1>2, <1>3 DEF Next

(* A commit starts with a time of its own and moves nobody else. *)
LEMMA Starts ==
  ASSUME Types, NEW c \in Clients, StartCommit(c)
  PROVE  /\ clock' = clock + 1 /\ client'[c].ts = clock + 1 /\ client'[c].at = "parsing"
         /\ client'[c].branch = client[c].branch /\ client[c].at = "committing"
         /\ \A d \in Clients \ {c} : client'[d] = client[d]
         /\ rows' = rows /\ branch' = branch
         /\ \A d \in Clients \ {c} : Running(d) /\ client[d].branch = client[c].branch
                                     => client[c].branch \in overlapped'
  <1>1. client[c] \in Work /\ client \in [Clients -> Work \cup {Idle}]
    BY AtWork DEF StartCommit, Types, ClientTypes
  <1>2. PICK t, d : client' = [client EXCEPT ![c].at = "parsing", ![c].ts = t, ![c].default = d]
                    /\ t = clock + 1
    BY DEF StartCommit
  <1>3. client'[c] = [client[c] EXCEPT !.at = "parsing", !.ts = t, !.default = d]
        /\ \A e \in Clients \ {c} : client'[e] = client[e]
    BY <1>1, <1>2
  <1>4. client'[c].ts = clock + 1 /\ client'[c].at = "parsing"
        /\ client'[c].branch = client[c].branch
    BY <1>1, <1>2, <1>3 DEF Work
  <1> QED BY <1>3, <1>4 DEF StartCommit

LEMMA AloneStep ==
  ASSUME Types, Alone, Next
  PROVE  Alone'
  <1> SUFFICES ASSUME NEW c \in Clients, NEW d \in Clients, Running(c)', Running(d)', c # d,
                      client'[c].branch = client'[d].branch
               PROVE  client'[c].branch \in overlapped'
    BY DEF Alone
  <1>1. CASE StartCommit(c)
    <2>1. client'[d] = client[d] /\ client'[c].branch = client[c].branch
      BY <1>1, Starts
    <2>2. Running(d) /\ client[d].branch = client[c].branch
      BY <2>1 DEF Running
    <2> QED BY <1>1, <2>1, <2>2, Starts
  <1>2. CASE StartCommit(d)
    <2>1. client'[c] = client[c] /\ client'[d].branch = client[d].branch
      BY <1>2, Starts
    <2>2. Running(c) /\ client[d].branch = client[c].branch
      BY <2>1 DEF Running
    <2> QED BY <1>2, <2>1, <2>2, Starts
  <1>3. CASE ~StartCommit(c) /\ ~StartCommit(d)
    <2>1. /\ Running(c) /\ client'[c].branch = client[c].branch
          /\ Running(d) /\ client'[d].branch = client[d].branch
      BY <1>3, StillRunning
    <2> QED BY <2>1, OverlapsKept DEF Alone
  <1> QED BY <1>1, <1>2, <1>3

(* The client that commits is no longer parsing. *)
LEMMA CommitEnds ==
  ASSUME Types, NEW c \in Clients, CommitBranch(c)
  PROVE  client'[c].at = "seeing" /\ clock' = clock /\ overlapped' = overlapped
  <1>1. client[c] \in Work /\ client \in [Clients -> Work \cup {Idle}]
    BY AtWork DEF CommitBranch, Types, ClientTypes
  <1>2. client'[c] = [client[c] EXCEPT !.at = "seeing", !.files = NoFiles]
    BY <1>1 DEF CommitBranch
  <1> QED BY <1>1, <1>2 DEF CommitBranch, Work

LEMMA BeforeStep ==
  ASSUME Types, Alone, Before, Next
  PROVE  Before'
  <1> SUFFICES ASSUME NEW d \in Clients, client'[d].at = "parsing",
                      client'[d].branch \notin overlapped',
                      NEW r \in rows', r.branch = client'[d].branch
               PROVE  r.from < client'[d].ts /\ (r.until # None => r.until < client'[d].ts)
    BY DEF Before
  <1>1. CASE StartCommit(d)
    <2>1. r \in rows /\ client'[d].ts = clock + 1
      BY <1>1, Starts
    <2>2. r.from \in 1 .. clock /\ r.until \in 1 .. clock \cup {None} /\ clock \in Nat
      BY <2>1 DEF Types, TypeOK, ClientTypes
    <2> QED BY <2>1, <2>2
  <1>2. CASE ~StartCommit(d)
    <2>1. /\ Running(d) /\ client[d].at = "parsing"
          /\ client'[d].branch = client[d].branch /\ client'[d].ts = client[d].ts
      BY <1>2, StillRunning DEF Running
    <2>2. client[d].branch \notin overlapped
      BY <2>1, OverlapsKept
    <2>3. r \in rows
      <3>1. ASSUME NEW c \in Clients, CommitBranch(c) PROVE r \in rows
        <4>1. c # d
          BY <3>1, CommitEnds
        <4>2. client[c].branch # client[d].branch
          BY <2>1, <2>2, <3>1, <4>1, CommitFacts DEF Alone
        <4>3. ASSUME NEW q \in RetiredRows(c), r = [q EXCEPT !.until = client[c].ts]
              PROVE  r.branch = client[c].branch
          BY <3>1, <4>3, CommitFacts DEF Types, TypeOK
        <4>4. r.branch # client[c].branch
          BY <2>1, <4>2
        <4>5. r \in rows \ RetiredRows(c)
          BY <3>1, <4>3, <4>4, CommittedRows
        <4> QED BY <4>5
      <3> QED BY <3>1, RowsOnlyCommitted
    <2> QED BY <2>1, <2>2, <2>3 DEF Before
  <1> QED BY <1>1, <1>2

(* Where a row of after a commit comes from. *)
LEMMA RowOrigin ==
  ASSUME Types, NEW c \in Clients, CommitBranch(c), NEW r \in rows'
  PROVE  \/ \E q \in rows :
              /\ r.branch = q.branch /\ r.unit = q.unit /\ r.from = q.from
              /\ q \notin RetiredRows(c) => r = q
              /\ q \in RetiredRows(c) => r = [q EXCEPT !.until = client[c].ts]
              /\ q \in RetiredRows(c) => q.until = None /\ r.until = client[c].ts
         \/ \E u \in AddedUnits(c) :
              r = [branch |-> client[c].branch, unit |-> u, from |-> client[c].ts, until |-> None]
  <1>1. ASSUME NEW q \in RetiredRows(c), r = [q EXCEPT !.until = client[c].ts]
        PROVE  /\ q \in rows /\ q.until = None /\ r.branch = q.branch /\ r.unit = q.unit
               /\ r.from = q.from /\ r.until = client[c].ts
    BY <1>1, CommitFacts DEF Types, TypeOK
  <1> QED BY <1>1, CommittedRows

Follows(r, s) == r.until # None /\ r.until <= s.from

LEMMA HistoryStep ==
  ASSUME Types, LiveIsOneCommit, Alone, Before, HistoryUnlessOverlapped, Next
  PROVE  HistoryUnlessOverlapped'
  <1> SUFFICES ASSUME NEW r \in rows', NEW s \in rows', r.branch \notin overlapped',
                      r.branch = s.branch, r.unit[2] = s.unit[2], r # s
               PROVE  Follows(r, s) \/ Follows(s, r)
    BY DEF HistoryUnlessOverlapped, Follows
  <1>1. r.branch \notin overlapped
    BY OverlapsKept
  <1>2. ASSUME NEW p \in rows, NEW q \in rows, p.branch = r.branch, q.branch = r.branch,
               p.unit[2] = q.unit[2], p # q
        PROVE  Follows(p, q) \/ Follows(q, p)
    BY <1>1, <1>2 DEF HistoryUnlessOverlapped, Follows
  <1>3. CASE rows' = rows
    BY <1>2, <1>3
  <1>4. ASSUME NEW c \in Clients, CommitBranch(c)
        PROVE  Follows(r, s) \/ Follows(s, r)
    <2> DEFINE Entry(u) == [branch |-> client[c].branch, unit |-> u, from |-> client[c].ts,
                            until |-> None]
               From(x, q) == /\ x.branch = q.branch /\ x.unit = q.unit /\ x.from = q.from
                             /\ q \notin RetiredRows(c) => x = q
                             /\ q \in RetiredRows(c) => x = [q EXCEPT !.until = client[c].ts]
                             /\ q \in RetiredRows(c) => q.until = None /\ x.until = client[c].ts
    <2>1. ASSUME NEW x \in rows'
          PROVE  (\E q \in rows : From(x, q)) \/ (\E u \in AddedUnits(c) : x = Entry(u))
      BY <1>4, RowOrigin
    <2>2. ASSUME NEW p \in rows, NEW q \in rows, From(r, p), From(s, q)
          PROVE  Follows(r, s) \/ Follows(s, r)
      <3>1. p # q
        BY <2>2
      <3>2. Follows(p, q) \/ Follows(q, p)
        BY <1>2, <2>2, <3>1
      <3> QED BY <2>2, <3>2 DEF Follows
    <2>3. ASSUME NEW x \in rows', NEW q \in rows, From(x, q), q.branch = r.branch,
                 NEW u \in AddedUnits(c), client[c].branch = r.branch, q.unit[2] = u[2]
          PROVE  x.until # None /\ x.until <= client[c].ts
      <3>1. /\ client[c].at = "parsing" /\ client[c].ts \in Nat /\ client[c].ts # None
            /\ client[c].files \in Files
        BY <1>4, CommitFacts DEF Types, ClientTypes
      <3>2. CASE q.until # None
        <4>1. q.until \in Nat
          BY <3>2 DEF Types, TypeOK, ClientTypes
        <4>2. q.until < client[c].ts
          BY <1>1, <2>3, <3>1, <3>2 DEF Before
        <4>3. x = q
          BY <2>3, <3>2
        <4> QED BY <3>1, <3>2, <4>1, <4>2, <4>3
      <3>3. CASE q.until = None
        <4>1. q \in Live(client[c].branch)
          BY <2>3, <3>3 DEF Live
        <4>2. u \in Wanted(c) /\ q.unit # u
          BY <4>1 DEF AddedUnits
        <4>3. q.unit \notin Wanted(c)
          BY <2>3, <3>1, <4>2, ListedOnce DEF Wanted
        <4>4. q \in RetiredRows(c)
          BY <4>1, <4>3 DEF RetiredRows
        <4> QED BY <2>3, <3>1, <4>4
      <3> QED BY <3>2, <3>3
    <2>4. ASSUME NEW u \in AddedUnits(c), NEW v \in AddedUnits(c), r = Entry(u), s = Entry(v)
          PROVE  FALSE
      <3>1. u[2] = v[2] /\ u \in Wanted(c) /\ v \in Wanted(c)
        BY <2>4 DEF AddedUnits
      <3>2. u = v
        BY <1>4, <3>1, ListedOnce, CommitFacts DEF Wanted
      <3> QED BY <2>4, <3>2
    <2>5. \A u : Entry(u).branch = client[c].branch /\ Entry(u).unit = u
                 /\ Entry(u).from = client[c].ts
      OBVIOUS
    <2> HIDE DEF Entry, From
    <2>6. ASSUME NEW p \in rows, From(r, p), NEW u \in AddedUnits(c), s = Entry(u)
          PROVE  Follows(r, s)
      <3>1. p.branch = r.branch /\ p.unit = r.unit
        BY <2>6 DEF From
      <3>2. s.branch = client[c].branch /\ s.unit = u /\ s.from = client[c].ts
        BY <2>5, <2>6
      <3> QED BY <2>3, <2>6, <3>1, <3>2 DEF Follows
    <2>7. ASSUME NEW p \in rows, From(s, p), NEW u \in AddedUnits(c), r = Entry(u)
          PROVE  Follows(s, r)
      <3>1. p.branch = s.branch /\ p.unit = s.unit
        BY <2>7 DEF From
      <3>2. r.branch = client[c].branch /\ r.unit = u /\ r.from = client[c].ts
        BY <2>5, <2>7
      <3> QED BY <2>3, <2>7, <3>1, <3>2 DEF Follows
    <2> QED BY <2>1, <2>2, <2>4, <2>6, <2>7
  <1> QED BY <1>3, <1>4, RowsOnlyCommitted

PastInv == LiveIsOneCommit /\ Alone /\ Before /\ HistoryUnlessOverlapped

LEMMA InitPast == Init => PastInv
  BY InitOneCommit DEF Init, PastInv, Alone, Before, HistoryUnlessOverlapped, Running, Idle

LEMMA PastNext == Types /\ PastInv /\ [Next]_vars => PastInv'
  <1>1. PastInv /\ UNCHANGED vars => PastInv'
    BY DEF vars, PastInv, Alone, Before, HistoryUnlessOverlapped, LiveIsOneCommit, Live, Running
  <1> QED BY <1>1, OneCommitStep, AloneStep, BeforeStep, HistoryStep DEF PastInv

(* A branch two commits of which never ran at once had one content of a path at any time     *)
(* (branch-code.ts:763-783).                                                                  *)
THEOREM PastIsFunction == Spec => []HistoryUnlessOverlapped
  <1>1. PastInv => HistoryUnlessOverlapped
    BY DEF PastInv
  <1> QED BY <1>1, InitTypes, TypesStep, InitPast, PastNext, PTL DEF Spec

-----------------------------------------------------------------------------
(* What a reader is shown *)

(* The keys in use: of what is indexed, of a kept directory, of the reader. *)
Taken(k) == \/ \E b \in Branches : k = Key(b)
            \/ \E d \in dirs : k = d.key
            \/ reader.at # "idle" /\ k = reader.key

(* A commit's time is its own: no key of its branch bears it before it has committed. *)
Stamped ==
    /\ \A k \in Branches \X Nat : Taken(k) => k[2] <= clock
    /\ \A c \in Clients : client[c].at = "parsing" =>
         /\ ~Taken(<<client[c].branch, client[c].ts>>)
         /\ \A d \in Clients : d # c /\ client[d].at = "parsing" => client[d].ts # client[c].ts

(* A directory under a branch's present key is what the branch lists; one under the key a     *)
(* reader asks for was what it listed since.                                                  *)
Kept ==
    /\ \A d \in dirs, b \in Branches : Indexed(b) /\ d.key = Key(b) => d.files = last[b]
    /\ reader.at # "idle" => reader.key[1] = reader.branch
    /\ reader.at = "asking" =>
         /\ last[reader.branch] \in reader.since
         /\ \A d \in dirs : d.key = reader.key => d.files \in reader.since

LEMMA FilesAreLast ==
  ASSUME TypeOK, LiveIsOneCommit, NEW b \in Branches
  PROVE  FilesOf(b) = last[b]
  <1>1. last[b] \in Files /\ FilesOf(b) \in Files
    BY LiveType DEF TypeOK
  <1>2. {r.unit : r \in Live(b)} = UnitsOf(last[b])
    BY DEF LiveIsOneCommit
  <1>3. ASSUME NEW p \in Paths PROVE FilesOf(b)[p] = last[b][p]
    <2>1. CASE \E r \in Live(b) : r.unit[2] = p
      <3>1. PICK r \in Live(b) : r.unit[2] = p /\ FilesOf(b)[p] = r.unit[1]
        BY <2>1 DEF FilesOf
      <3>2. r.unit \in UnitsOf(last[b])
        BY <1>2
      <3> QED BY <3>1, <3>2 DEF UnitsOf
    <2>2. CASE ~ \E r \in Live(b) : r.unit[2] = p
      <3>1. FilesOf(b)[p] = None
        BY <2>2 DEF FilesOf
      <3>2. CASE last[b][p] # None
        <4>1. <<last[b][p], p>> \in UnitsOf(last[b])
          BY <3>2 DEF UnitsOf
        <4>2. PICK r \in Live(b) : r.unit = <<last[b][p], p>>
          BY <1>2, <4>1
        <4> QED BY <2>2, <4>2
      <3> QED BY <3>1, <3>2
    <2> QED BY <2>1, <2>2
  <1> QED BY <1>1, <1>3 DEF Files

LEMMA ClockRuns == Types /\ Next => clock <= clock'
  <1> SUFFICES ASSUME Types, Next PROVE clock <= clock'
    OBVIOUS
  <1>0. clock \in Nat /\ Window \in Nat
    BY IndexAssumption DEF Types, ClientTypes, IndexAssumption
  <1>1. ASSUME NEW c \in Clients, Manifest(c) \/ Upload(c) \/ ParseBatchOf(c) \/ Abandon(c)
        PROVE  clock' = clock
    BY <1>1 DEF Manifest, Upload, ParseBatchOf, Abandon
  <1>2. ASSUME NEW c \in Clients, StartCommit(c)
        PROVE  clock <= clock'
    BY <1>0, <1>2 DEF StartCommit
  <1>3. ASSUME NEW c \in Clients, StoreParse(c) \/ RecordParseFailure(c) \/ CommitBranch(c)
               \/ SeeBranches(c) \/ RetireUnseen(c)
        PROVE  clock' = clock
    BY <1>3 DEF StoreParse, RecordParseFailure, CommitBranch, SeeBranches, RetireUnseen
  <1>4. CASE Gap
    BY <1>0, <1>4 DEF Gap
  <1>5. CASE Works \/ ReadBranch \/ ReadDirectory \/ ReadEnds
    <2>1. clock' = clock
      BY <1>5 DEF Works, PendingEmbeddings, CommitVectors, EmbedFails, ReadBranch,
                  ReadDirectory, ReadEnds
    <2> QED BY <1>0, <2>1
  <1> QED BY <1>0, <1>1, <1>2, <1>3, <1>4, <1>5 DEF Next

(* A commit makes its branch's key that of its time. *)
LEMMA CommitKeys ==
  ASSUME Types, NEW c \in Clients, CommitBranch(c)
  PROVE  /\ dirs' = dirs
         /\ \A b \in Branches : Key(b)' = IF b = client[c].branch THEN <<b, client[c].ts>> ELSE Key(b)
         /\ \A b \in Branches : last'[b] = IF b = client[c].branch THEN client[c].files ELSE last[b]
         /\ reader'.at = reader.at
         /\ reader.at # "idle" => /\ reader'.key = reader.key /\ reader'.branch = reader.branch
                                  /\ reader'.shown = reader.shown
                                  /\ reader.since \subseteq reader'.since
                                  /\ reader.branch = client[c].branch =>
                                       client[c].files \in reader'.since
  <1>1. \A b \in Branches : branch'[b].indexed = IF b = client[c].branch THEN client[c].ts
                                                 ELSE branch[b].indexed
    BY DEF CommitBranch, Types, TypeOK
  <1>2. CASE reader.at # "idle" /\ reader.branch = client[c].branch
    <2>1. reader' = [reader EXCEPT !.since = reader.since \cup {client[c].files}]
      BY <1>2 DEF CommitBranch
    <2>2. reader \in Asked
      BY <1>2, AskedFields DEF Types
    <2>3. /\ reader'.at = reader.at /\ reader'.key = reader.key /\ reader'.branch = reader.branch
          /\ reader'.shown = reader.shown
          /\ reader'.since = reader.since \cup {client[c].files}
      BY <2>1, <2>2 DEF Asked
    <2> QED BY <1>1, <2>3 DEF CommitBranch, Types, TypeOK, Key
  <1>3. CASE ~(reader.at # "idle" /\ reader.branch = client[c].branch)
    <2>1. reader' = reader
      BY <1>3 DEF CommitBranch
    <2> QED BY <1>1, <1>3, <2>1 DEF CommitBranch, Types, TypeOK, Key
  <1> QED BY <1>2, <1>3

LEMMA ReadBranchFacts ==
  ASSUME Types, ReadBranch
  PROVE  \E b \in Branches :
           /\ Indexed(b) /\ reader'.at = "asking" /\ reader'.branch = b /\ reader'.key = Key(b)
           /\ reader'.since = {FilesOf(b)}
           /\ UNCHANGED <<dirs, last, branch, clock, client>>
  BY DEF ReadBranch

LEMMA ReadDirectoryFacts ==
  ASSUME Types, ReadDirectory
  PROVE  /\ reader.at = "asking" /\ reader'.at = "shown" /\ reader'.branch = reader.branch
         /\ reader'.key = reader.key /\ reader'.since = reader.since
         /\ dirs' = dirs \cup {[key |-> reader.key, files |-> reader'.shown]}
         /\ \/ \E d \in dirs : d.key = reader.key /\ reader'.shown = d.files
            \/ reader'.shown = FilesOf(reader.branch)
         /\ UNCHANGED <<last, branch, clock, client>>
  <1>1. PICK K : K = {d \in dirs : d.key = reader.key}
    OBVIOUS
  <1>2. PICK s : s = IF K = {} THEN FilesOf(reader.branch) ELSE (CHOOSE d \in K : TRUE).files
    OBVIOUS
  <1>3. /\ reader.at = "asking"
        /\ dirs' = dirs \cup {[key |-> reader.key, files |-> s]}
        /\ reader' = [reader EXCEPT !.at = "shown", !.shown = s]
        /\ UNCHANGED <<last, branch, clock, client>>
    BY <1>1, <1>2 DEF ReadDirectory
  <1>4. reader \in Asked
    BY <1>3, AskedFields DEF Types
  <1>5. /\ reader'.at = "shown" /\ reader'.branch = reader.branch /\ reader'.key = reader.key
        /\ reader'.since = reader.since /\ reader'.shown = s
    BY <1>3, <1>4 DEF Asked
  <1>6. (\E d \in dirs : d.key = reader.key /\ s = d.files) \/ s = FilesOf(reader.branch)
    <2>1. CASE K = {}
      BY <1>2, <2>1
    <2>2. CASE K # {}
      <3>1. (CHOOSE d \in K : TRUE) \in K
        BY <2>2
      <3> QED BY <1>1, <1>2, <2>2, <3>1
    <2> QED BY <2>1, <2>2
  <1> QED BY <1>3, <1>5, <1>6

(* A key is new only where a commit has just made it. *)
LEMMA TakenStep ==
  ASSUME Types, Next, NEW k, Taken(k)'
  PROVE  Taken(k) \/ \E c \in Clients : CommitBranch(c) /\ k = <<client[c].branch, client[c].ts>>
  <1>1. ASSUME NEW c \in Clients, CommitBranch(c)
        PROVE  Taken(k) \/ k = <<client[c].branch, client[c].ts>>
    BY <1>1, CommitKeys DEF Taken
  <1>2. CASE ~ \E c \in Clients : CommitBranch(c)
    <2>1. \A b \in Branches : Key(b)' = Key(b)
      BY <1>2, RowsOnlyCommitted DEF Key
    <2>2. CASE dirs' = dirs /\ reader' = reader
      BY <2>1, <2>2 DEF Taken
    <2>3. CASE ReadBranch
      BY <2>1, <2>3, ReadBranchFacts DEF Taken
    <2>4. CASE ReadDirectory
      BY <2>1, <2>4, ReadDirectoryFacts DEF Taken
    <2>5. CASE ReadEnds
      BY <2>1, <2>5 DEF Taken, ReadEnds, NoRead
    <2> QED BY <1>2, <2>2, <2>3, <2>4, <2>5, DirsOnlyRead
  <1> QED BY <1>1, <1>2

LEMMA StampedStep ==
  ASSUME Types, Stamped, Next
  PROVE  Stamped'
  <1>0. clock \in Nat /\ clock' \in Nat /\ clock <= clock'
    BY TypesStep, ClockRuns DEF Types, ClientTypes
  <1>1. ASSUME NEW k \in Branches \X Nat, Taken(k)' PROVE k[2] <= clock'
    <2>1. CASE Taken(k)
      BY <1>0, <2>1 DEF Stamped
    <2>2. ASSUME NEW c \in Clients, CommitBranch(c), k = <<client[c].branch, client[c].ts>>
          PROVE  k[2] <= clock'
      BY <1>0, <2>2, CommitFacts
    <2> QED BY <1>1, <2>1, <2>2, TakenStep
  <1>2. ASSUME NEW d \in Clients, client'[d].at = "parsing"
        PROVE  /\ ~Taken(<<client[d].branch, client[d].ts>>)'
               /\ \A e \in Clients : e # d /\ client'[e].at = "parsing" => client'[e].ts # client'[d].ts
    <2>1. CASE StartCommit(d)
      <3>1. /\ client'[d].ts = clock + 1 /\ clock' = clock + 1
            /\ client'[d].branch = client[d].branch /\ client[d].at = "committing"
            /\ \A e \in Clients \ {d} : client'[e] = client[e]
        BY <2>1, Starts
      <3>2. client[d].branch \in Branches
        BY <3>1, AtWork DEF Types
      <3>3. PICK k : k = <<client'[d].branch, client'[d].ts>>
        OBVIOUS
      <3>4. ~Taken(k)
        BY <1>0, <3>1, <3>2, <3>3 DEF Stamped
      <3>5. \A c \in Clients : ~CommitBranch(c)
        BY <1>0, <3>1, CommitEnds
      <3>6. ~Taken(k)'
        BY <3>4, <3>5, TakenStep
      <3>7. ASSUME NEW e \in Clients, e # d, client'[e].at = "parsing"
            PROVE  client'[e].ts # client'[d].ts
        <4>1. client'[e] = client[e] /\ client[e].ts \in 1 .. clock
          BY <3>1, <3>7 DEF Types, ClientTypes, Running
        <4> QED BY <1>0, <3>1, <4>1
      <3> QED BY <3>3, <3>6, <3>7 DEF Taken
    <2>2. CASE ~StartCommit(d)
      <3>1. /\ client[d].at = "parsing"
            /\ client'[d].branch = client[d].branch /\ client'[d].ts = client[d].ts
        BY <1>2, <2>2, StillRunning DEF Running
      <3>2. PICK k : k = <<client'[d].branch, client'[d].ts>>
        OBVIOUS
      <3>3. ~Taken(k)
        BY <3>1, <3>2 DEF Stamped
      <3>4. ASSUME NEW c \in Clients, CommitBranch(c) PROVE k # <<client[c].branch, client[c].ts>>
        <4>1. c # d /\ client[c].at = "parsing"
          BY <1>2, <3>4, CommitEnds, CommitFacts
        <4>2. client[c].ts # client[d].ts
          BY <3>1, <4>1 DEF Stamped
        <4> QED BY <3>1, <3>2, <4>2
      <3>5. ~Taken(k)'
        BY <3>3, <3>4, TakenStep
      <3>6. ASSUME NEW e \in Clients, e # d, client'[e].at = "parsing"
            PROVE  client'[e].ts # client'[d].ts
        <4>1. CASE StartCommit(e)
          <5>1. client'[e].ts = clock + 1 /\ client[d].ts \in 1 .. clock
            BY <3>1, <4>1, Starts DEF Types, ClientTypes, Running
          <5> QED BY <1>0, <3>1, <5>1
        <4>2. CASE ~StartCommit(e)
          <5>1. client[e].at = "parsing" /\ client'[e].ts = client[e].ts
            BY <3>6, <4>2, StillRunning DEF Running
          <5> QED BY <3>1, <3>6, <5>1 DEF Stamped
        <4> QED BY <4>1, <4>2
      <3> QED BY <3>2, <3>5, <3>6 DEF Taken
    <2> QED BY <2>1, <2>2
  <1> QED BY <1>1, <1>2 DEF Stamped

LEMMA KeptStep ==
  ASSUME Types, LiveIsOneCommit, Stamped, Kept, DirectoryIsFresh, Next
  PROVE  Kept' /\ DirectoryIsFresh'
  <1>0. \A b \in Branches : Indexed(b) <=> Key(b)[2] # 0
    BY DEF Indexed, Key
  <1>1. ASSUME NEW c \in Clients, CommitBranch(c) PROVE Kept' /\ DirectoryIsFresh'
    <2>1. \A d \in dirs : d.key # <<client[c].branch, client[c].ts>>
      BY <1>1, CommitFacts DEF Stamped, Taken
    <2>2. ASSUME NEW d \in dirs', NEW b \in Branches, Indexed(b)', d.key = Key(b)'
          PROVE  d.files = last'[b]
      <3>1. d \in dirs /\ b # client[c].branch
        BY <1>1, <2>1, <2>2, CommitKeys
      <3>2. Key(b)' = Key(b) /\ last'[b] = last[b]
        BY <1>1, <3>1, CommitKeys
      <3>3. Indexed(b)
        BY <2>2, <3>2 DEF Indexed, Key
      <3> QED BY <2>2, <3>1, <3>2, <3>3 DEF Kept
    <2>3. reader'.at # "idle" => reader'.key[1] = reader'.branch
      BY <1>1, CommitKeys DEF Kept
    <2>4. ASSUME reader'.at = "asking"
          PROVE  /\ last'[reader'.branch] \in reader'.since
                 /\ \A d \in dirs' : d.key = reader'.key => d.files \in reader'.since
      <3>1. /\ reader.at = "asking" /\ reader'.branch = reader.branch /\ reader'.key = reader.key
            /\ reader.since \subseteq reader'.since /\ dirs' = dirs
            /\ reader.branch = client[c].branch => client[c].files \in reader'.since
        BY <1>1, <2>4, CommitKeys
      <3>2. reader.branch \in Branches
        BY <3>1, AskedFields DEF Types
      <3>3. last'[reader.branch] \in reader'.since
        BY <1>1, <3>1, <3>2, CommitKeys DEF Kept
      <3> QED BY <3>1, <3>3 DEF Kept
    <2>5. DirectoryIsFresh'
      BY <1>1, CommitKeys DEF DirectoryIsFresh
    <2> QED BY <2>2, <2>3, <2>4, <2>5 DEF Kept
  <1>2. CASE ~ \E c \in Clients : CommitBranch(c)
    <2>1. /\ last' = last
          /\ \A b \in Branches : Key(b)' = Key(b) /\ (Indexed(b)' <=> Indexed(b))
      BY <1>2, RowsOnlyCommitted DEF Key, Indexed
    <2>2. CASE dirs' = dirs /\ reader' = reader
      BY <2>1, <2>2 DEF Kept, DirectoryIsFresh
    <2>3. CASE ReadBranch
      <3>1. PICK b \in Branches :
             /\ Indexed(b) /\ reader'.at = "asking" /\ reader'.branch = b /\ reader'.key = Key(b)
             /\ reader'.since = {FilesOf(b)} /\ dirs' = dirs
        BY <2>3, ReadBranchFacts
      <3>2. FilesOf(b) = last[b] /\ Key(b)[1] = b
        BY FilesAreLast DEF Types, Key
      <3>3. \A d \in dirs : d.key = Key(b) => d.files = last[b]
        BY <3>1 DEF Kept
      <3>4. Kept'
        BY <2>1, <3>1, <3>2, <3>3 DEF Kept
      <3> QED BY <3>1, <3>4 DEF DirectoryIsFresh
    <2>4. CASE ReadDirectory
      <3>1. /\ reader.at = "asking" /\ reader'.at = "shown" /\ reader'.branch = reader.branch
            /\ reader'.key = reader.key /\ reader'.since = reader.since
            /\ dirs' = dirs \cup {[key |-> reader.key, files |-> reader'.shown]}
            /\ \/ \E d \in dirs : d.key = reader.key /\ reader'.shown = d.files
               \/ reader'.shown = FilesOf(reader.branch)
        BY <2>4, ReadDirectoryFacts
      <3>2. reader.branch \in Branches /\ reader.key[1] = reader.branch
        BY <3>1, AskedFields DEF Types, Kept
      <3>3. FilesOf(reader.branch) = last[reader.branch]
        BY <3>2, FilesAreLast DEF Types
      <3>4. reader'.shown \in reader.since
        BY <3>1, <3>3 DEF Kept
      <3>5. ASSUME NEW b \in Branches, Indexed(b), reader.key = Key(b)
            PROVE  reader'.shown = last[b]
        <4>1. b = reader.branch
          BY <3>2, <3>5 DEF Key
        <4> QED BY <3>1, <3>3, <3>5, <4>1 DEF Kept
      <3>6. Kept'
        BY <2>1, <3>1, <3>2, <3>5 DEF Kept
      <3> QED BY <3>1, <3>4, <3>6 DEF DirectoryIsFresh
    <2>5. CASE ReadEnds
      BY <2>1, <2>5 DEF Kept, DirectoryIsFresh, ReadEnds, NoRead
    <2> QED BY <1>2, <2>2, <2>3, <2>4, <2>5, DirsOnlyRead
  <1> QED BY <1>1, <1>2

FreshInv == LiveIsOneCommit /\ Stamped /\ Kept /\ DirectoryIsFresh

LEMMA InitFresh == Init => FreshInv
  <1> SUFFICES ASSUME Init PROVE FreshInv
    OBVIOUS
  <1>1. \A b \in Branches : Key(b) = <<b, 0>> /\ ~Indexed(b)
    BY DEF Init, Key, Indexed, NoRow
  <1>2. Stamped
    BY <1>1 DEF Init, Stamped, Taken, Idle, NoRead
  <1>3. Kept /\ DirectoryIsFresh
    BY DEF Init, Kept, DirectoryIsFresh, NoRead
  <1> QED BY <1>2, <1>3, InitOneCommit DEF FreshInv

LEMMA FreshNext == Types /\ FreshInv /\ [Next]_vars => FreshInv'
  <1>1. FreshInv /\ UNCHANGED vars => FreshInv'
    <2> SUFFICES ASSUME FreshInv, UNCHANGED vars PROVE FreshInv'
      OBVIOUS
    <2>1. LiveIsOneCommit' /\ DirectoryIsFresh'
      BY DEF vars, FreshInv, LiveIsOneCommit, Live, DirectoryIsFresh
    <2>2. Stamped'
      BY DEF vars, FreshInv, Stamped, Taken, Key
    <2>3. Kept'
      BY DEF vars, FreshInv, Kept, Key, Indexed
    <2> QED BY <2>1, <2>2, <2>3 DEF FreshInv
  <1> QED BY <1>1, OneCommitStep, StampedStep, KeptStep DEF FreshInv

(* A reader is shown the branch as it was at some moment since it asked, though directories  *)
(* are cached over commits (code-read.service.ts:340-370).                                    *)
THEOREM ShownIsFresh == Spec => []DirectoryIsFresh
  <1>1. FreshInv => DirectoryIsFresh
    BY DEF FreshInv
  <1> QED BY <1>1, InitTypes, TypesStep, InitFresh, FreshNext, PTL DEF Spec

(* Every variable keeps its type, and every interval of a branch's past is of times the host *)
(* has seen.                                                                                  *)
THEOREM TypeCorrect == Spec => []TypeOK
  <1>1. Types => TypeOK
    BY DEF Types
  <1> QED BY <1>1, InitTypes, TypesStep, PTL DEF Spec

=============================================================================
