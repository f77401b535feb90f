----------------------------- MODULE BranchIndex -----------------------------
(* The code index of one repository, per branch: clients that hash a checkout, ask what the     *)
(* host lacks, upload it and commit a branch's file list; the host that parses what is new and  *)
(* makes the list the branch's live set; branches that are retired when nobody has them; the    *)
(* worker that embeds symbol summaries; a reader with a cached directory of a branch.           *)
(*                                                                                              *)
(* A unit is a content at a path; the summary of its symbols is that of its content. Each SQL   *)
(* statement or transaction is a step, and commits interleave between them.                     *)
EXTENDS Integers, FiniteSets, FiniteSetsExt

CONSTANTS
    None,
    Clients, Branches, Paths,
    Contents,      \* hashes: naturals, in their order
    BadContents,   \* those the parser refuses
    RefusedTexts,  \* those the embedding model refuses
    Default,       \* the default branch, recorded by an earlier commit
    Checkouts,     \* what a client may index: a branch, its files, the branches it names and
                   \* the default branch it knows
    ParseBatch, EmbedBatch, Window,
    MaxCommits, MaxStops, MaxOutages, MaxGaps, MaxReads   \* bounds

Units == Contents \X Paths
Files == [Paths -> Contents \cup {None}]

ASSUME IndexAssumption ==
    /\ Contents \subseteq Nat /\ BadContents \subseteq Contents /\ RefusedTexts \subseteq Contents
    /\ Default \in Branches
    /\ Checkouts \subseteq [branch : Branches, files : Files, names : SUBSET Branches,
                            known : {Default, None}]
    /\ ParseBatch \in Nat \ {0} /\ EmbedBatch \in Nat \ {0} /\ Window \in Nat \ {0}
    /\ None \notin Contents \cup Nat

VARIABLES
    clock,     \* the host's, at the starts of commits
    blobs,     \* code_blobs
    parse,     \* code_units: absent, new, parsed or failed
    symbols,   \* the units with rows in code_symbols
    default,   \* code_repos.default_branch
    branch,    \* code_branches
    rows,      \* code_branch_files
    client,    \* where each client's indexing is
    vectors,   \* code_vectors: the texts that have one
    embedder,  \* the batch CodeEmbeddingWorker is at, if any
    dirs,      \* the directories a reader's process keeps, by branch and indexed_at
    reader,
    used,      \* how much of each bound is used
    last,      \* history: the list committed last, per branch
    overlapped \* history: the branches two commits of which ran at once

vars == <<clock, blobs, parse, symbols, default, branch, rows, client, vectors, embedder, dirs,
          reader, used, last, overlapped>>

NoRow == [indexed |-> 0, seen |-> 0, retired |-> FALSE]
NoFiles == [p \in Paths |-> None]
Idle == [at |-> "idle"]
NoRead == [at |-> "idle"]

Init ==
    /\ clock = 1 /\ blobs = {} /\ parse = [u \in Units |-> "absent"] /\ symbols = {}
    /\ default = Default
    /\ branch = [b \in Branches |-> NoRow] /\ rows = {}
    /\ client = [c \in Clients |-> Idle]
    /\ vectors = {} /\ embedder = {} /\ dirs = {} /\ reader = NoRead
    /\ used = [commits |-> 0, stops |-> 0, outages |-> 0, gaps |-> 0, reads |-> 0]
    /\ last = [b \in Branches |-> NoFiles] /\ overlapped = {}

UnitsOf(files) == {<<files[p], p>> : p \in {q \in Paths : files[q] # None}}
ContentsOf(files) == {u[1] : u \in UnitsOf(files)}
Live(b) == {r \in rows : r.branch = b /\ r.until = None}
LiveUnits == {r.unit : r \in {q \in rows : q.until = None}}
FilesOf(b) == [p \in Paths |-> IF \E r \in Live(b) : r.unit[2] = p
                               THEN (CHOOSE r \in Live(b) : r.unit[2] = p).unit[1] ELSE None]
Indexed(b) == branch[b].indexed # 0

Goes(c, from, to) == client[c].at = from /\ client' = [client EXCEPT ![c].at = to]
Uses(kind) == used' = [used EXCEPT ![kind] = @ + 1]

\* Commits being worked on by the host.
Running(c) == client[c].at \in {"parsing", "seeing", "retiring"}

----------------------------------------------------------------------------
(* The client *)

\* indexCheckout reads every indexable file once, then asks which contents the host lacks.
Manifest(c) ==
    /\ client[c].at = "idle" /\ used.commits < MaxCommits /\ Uses("commits")
    /\ \E k \in Checkouts :
          client' = [client EXCEPT ![c] =
              [at |-> "sending", branch |-> k.branch, files |-> k.files, names |-> k.names,
               known |-> k.known, missing |-> ContentsOf(k.files) \ blobs,
               ts |-> 0, todo |-> {}, default |-> None]]
    /\ UNCHANGED <<clock, blobs, parse, symbols, default, branch, rows, vectors, embedder, dirs,
                   reader, last, overlapped>>

\* Frames of blobs; one that the host has by now is known, not stored again.
Upload(c) ==
    /\ client[c].at = "sending"
    /\ blobs' = blobs \cup client[c].missing
    /\ client' = [client EXCEPT ![c].at = "committing", ![c].missing = {}]
    /\ UNCHANGED <<clock, parse, symbols, default, branch, rows, vectors, embedder, dirs, reader,
                   used, last, overlapped>>

----------------------------------------------------------------------------
(* The host: code_commit *)

DefaultKept(c) == IF client[c].known = None THEN default ELSE client[c].known

NewUnits(c) == [u \in Units |-> IF u \in UnitsOf(client[c].files) /\ parse[u] = "absent"
                                THEN "new" ELSE parse[u]]

\* The clock is read, the contents are asked for, the repository and the units are recorded:
\* steps of their own in the code, whose writes nobody but this commit reads in between.
StartCommit(c) ==
    /\ client[c].at = "committing"
    /\ ContentsOf(client[c].files) \subseteq blobs
    /\ clock' = clock + 1
    /\ default' = DefaultKept(c)
    /\ parse' = NewUnits(c)
    /\ client' = [client EXCEPT ![c].at = "parsing", ![c].ts = clock', ![c].default = default']
    /\ overlapped' = IF \E d \in Clients \ {c} : Running(d) /\ client[d].branch = client[c].branch
                     THEN overlapped \cup {client[c].branch} ELSE overlapped
    /\ UNCHANGED <<blobs, symbols, branch, rows, vectors, embedder, dirs, reader, used, last>>

Unparsed(c) == {u \in UnitsOf(client[c].files) : parse[u] = "new"}
(* slip: a batch is parsed for the first time, whoever else is at it *)
ParsedAgain(u) == TRUE
StillNew(u) == parse[u] = "new"

\* unparsedUnits, and the parse of a batch of them by the code worker.
ParseBatchOf(c) ==
    /\ client[c].at = "parsing" /\ client[c].todo = {} /\ Unparsed(c) # {}
    /\ \E todo \in kSubset(IF Cardinality(Unparsed(c)) < ParseBatch
                           THEN Cardinality(Unparsed(c)) ELSE ParseBatch, Unparsed(c)) :
          client' = [client EXCEPT ![c].todo = todo]
    /\ UNCHANGED <<clock, blobs, parse, symbols, default, branch, rows, vectors, embedder, dirs,
                   reader, used, last, overlapped>>

\* storeParse takes the row's lock and leaves a unit that was parsed meanwhile.
StoreParse(c) ==
    /\ client[c].at = "parsing"
    /\ \E u \in client[c].todo :
          /\ u[1] \notin BadContents
          /\ parse' = [parse EXCEPT ![u] = IF StillNew(u) THEN "parsed" ELSE @]
          /\ symbols' = IF StillNew(u) THEN symbols \cup {u} ELSE symbols
          /\ client' = [client EXCEPT ![c].todo = @ \ {u}]
    /\ UNCHANGED <<clock, blobs, default, branch, rows, vectors, embedder, dirs, reader, used, last,
                   overlapped>>

\* A content the parser refuses, or the store refuses the symbols of: the unit counts as parsed.
RecordParseFailure(c) ==
    /\ client[c].at = "parsing"
    /\ \E u \in client[c].todo :
          /\ \/ u[1] \in BadContents /\ UNCHANGED used
             \/ u[1] \notin BadContents /\ used.outages < MaxOutages /\ Uses("outages")
          /\ parse' = [parse EXCEPT ![u] = IF StillNew(u) THEN "failed" ELSE @]
          /\ client' = [client EXCEPT ![c].todo = @ \ {u}]
    /\ UNCHANGED <<clock, blobs, symbols, default, branch, rows, vectors, embedder, dirs, reader,
                   last, overlapped>>

AllParsed(c) == client[c].todo = {} /\ Unparsed(c) = {}

Wanted(c) == UnitsOf(client[c].files)
(* slip: a file the list no longer has is left *)
RetiredChanged(c) ==
    {r \in Live(client[c].branch) : \E u \in Wanted(c) : u[2] = r.unit[2] /\ u # r.unit}
RetiredRows(c) == {r \in Live(client[c].branch) : r.unit \notin Wanted(c)}
(* slip: a file that did not change is added again *)
AllUnits(c) == Wanted(c)
AddedUnits(c) == Wanted(c) \ {r.unit : r \in Live(client[c].branch)}

\* commitBranch, in one transaction, once unparsedUnits finds nothing more.
CommitBranch(c) ==
    LET b == client[c].branch ts == client[c].ts IN
    /\ client[c].at = "parsing" /\ AllParsed(c)
    /\ client' = [client EXCEPT ![c].at = "seeing", ![c].files = NoFiles]
    /\ branch' = [branch EXCEPT ![b] = [indexed |-> ts, seen |-> ts, retired |-> FALSE]]
    /\ rows' = (rows \ RetiredRows(c))
               \cup {[r EXCEPT !.until = ts] : r \in RetiredRows(c)}
               \cup {[branch |-> b, unit |-> u, from |-> ts, until |-> None] : u \in AddedUnits(c)}
    /\ last' = [last EXCEPT ![b] = client[c].files]
    /\ reader' = IF reader.at # "idle" /\ reader.branch = b
                 THEN [reader EXCEPT !.since = @ \cup {client[c].files}] ELSE reader
    /\ UNCHANGED <<clock, blobs, parse, symbols, default, vectors, embedder, dirs, used, overlapped>>

SeeBranches(c) ==
    /\ Goes(c, "seeing", "retiring")
    /\ branch' = [b \in Branches |->
                    IF b \in client[c].names /\ Indexed(b) /\ branch[b].seen < client[c].ts
                    THEN [branch[b] EXCEPT !.seen = client[c].ts] ELSE branch[b]]
    /\ UNCHANGED <<clock, blobs, parse, symbols, default, rows, vectors, embedder, dirs, reader,
                   used, last, overlapped>>

Unseen(c) ==
    {b \in Branches : Indexed(b) /\ branch[b].seen < client[c].ts - Window
                      /\ b \notin {client[c].branch, client[c].default}}

RetireUnseen(c) ==
    /\ client[c].at = "retiring"
    /\ client' = [client EXCEPT ![c] = Idle]
    /\ branch' = [b \in Branches |-> IF b \in Unseen(c) THEN [branch[b] EXCEPT !.retired = TRUE]
                                     ELSE branch[b]]
    /\ UNCHANGED <<clock, blobs, parse, symbols, default, rows, vectors, embedder, dirs, reader,
                   used, last, overlapped>>

\* The client goes, the daemon stops, or the code worker dies and its batch rejects.
Abandon(c) ==
    /\ client[c].at # "idle" /\ used.stops < MaxStops /\ Uses("stops")
    /\ client' = [client EXCEPT ![c] = Idle]
    /\ UNCHANGED <<clock, blobs, parse, symbols, default, branch, rows, vectors, embedder, dirs,
                   reader, last, overlapped>>

\* Two weeks go by, with no commit at work.
Gap ==
    /\ used.gaps < MaxGaps /\ Uses("gaps") /\ \A c \in Clients : ~Running(c)
    /\ clock' = clock + Window + 1
    /\ UNCHANGED <<blobs, parse, symbols, default, branch, rows, client, vectors, embedder, dirs,
                   reader, last, overlapped>>

----------------------------------------------------------------------------
(* The embedding of summaries *)

Texts == {u[1] : u \in symbols \cap LiveUnits}
(* slip: what has its vector is asked for again *)
HavingOrNot == Texts
Lacking == Texts \ vectors
Leading(S, n) == {x \in S : Cardinality({y \in S : y < x}) < n}

PendingEmbeddings ==
    /\ embedder = {} /\ Lacking # {}
    /\ embedder' = Leading(Lacking, EmbedBatch)
    /\ UNCHANGED <<clock, blobs, parse, symbols, default, branch, rows, client, vectors, dirs, reader,
                   used, last, overlapped>>

CommitVectors ==
    /\ embedder # {} /\ embedder \cap RefusedTexts = {}
    /\ vectors' = vectors \cup embedder /\ embedder' = {}
    /\ UNCHANGED <<clock, blobs, parse, symbols, default, branch, rows, client, dirs, reader, used,
                   last, overlapped>>

\* The batch fails as a whole; the worker waits and asks again.
EmbedFails ==
    /\ embedder # {}
    /\ \/ embedder \cap RefusedTexts # {} /\ UNCHANGED used
       \/ used.outages < MaxOutages /\ Uses("outages")
    /\ embedder' = {}
    /\ UNCHANGED <<clock, blobs, parse, symbols, default, branch, rows, client, vectors, dirs, reader,
                   last, overlapped>>

----------------------------------------------------------------------------
(* A reader of a branch's directory *)

(* slip: the directory is kept by branch alone *)
KeyOfBranch(b) == <<b, 0>>
Key(b) == <<b, branch[b].indexed>>

ReadBranch ==
    /\ reader.at = "idle" /\ used.reads < MaxReads /\ Uses("reads")
    /\ \E b \in {x \in Branches : Indexed(x) /\ ~branch[x].retired} :
          reader' = [at |-> "asking", branch |-> b, key |-> Key(b), since |-> {FilesOf(b)},
                     shown |-> NoFiles]
    /\ UNCHANGED <<clock, blobs, parse, symbols, default, branch, rows, client, vectors, embedder, dirs,
                   last, overlapped>>

\* From the cache, or loaded and kept.
ReadDirectory ==
    /\ reader.at = "asking"
    /\ LET kept == {d \in dirs : d.key = reader.key}
           shown == IF kept = {} THEN FilesOf(reader.branch) ELSE (CHOOSE d \in kept : TRUE).files
       IN  /\ dirs' = dirs \cup {[key |-> reader.key, files |-> shown]}
           /\ reader' = [reader EXCEPT !.at = "shown", !.shown = shown]
    /\ UNCHANGED <<clock, blobs, parse, symbols, default, branch, rows, client, vectors, embedder, used,
                   last, overlapped>>

ReadEnds ==
    /\ reader.at = "shown" /\ reader' = NoRead
    /\ UNCHANGED <<clock, blobs, parse, symbols, default, branch, rows, client, vectors, embedder, dirs,
                   used, last, overlapped>>

----------------------------------------------------------------------------
Works == PendingEmbeddings \/ CommitVectors \/ EmbedFails

Next ==
    \/ \E c \in Clients :
          \/ Manifest(c) \/ Upload(c) \/ StartCommit(c)
          \/ ParseBatchOf(c) \/ StoreParse(c) \/ RecordParseFailure(c)
          \/ CommitBranch(c) \/ SeeBranches(c) \/ RetireUnseen(c) \/ Abandon(c)
    \/ Gap \/ Works \/ ReadBranch \/ ReadDirectory \/ ReadEnds

Spec == Init /\ [][Next]_vars

\* The daemon's loop comes back to the embedding of code (daemon.ts:235-239).
FairSpec == Spec /\ WF_vars(Works)

----------------------------------------------------------------------------
(* Properties *)

(* Every variable has its type, and a row's interval is one of times the host has seen. *)
TypeOK ==
    /\ blobs \subseteq Contents /\ symbols \subseteq Units /\ vectors \subseteq Contents
    /\ parse \in [Units -> {"absent", "new", "parsed", "failed"}]
    /\ default \in Branches \cup {None}
    /\ branch \in [Branches -> [indexed : 0 .. clock, seen : 0 .. clock, retired : BOOLEAN]]
    /\ rows \subseteq [branch : Branches, unit : Units, from : 1 .. clock,
                       until : 1 .. clock \cup {None}]
    /\ embedder \subseteq Contents /\ last \in [Branches -> Files]

(* Whatever a branch lists, the host has the content of and has tried to parse, though units    *)
(* are parsed in batches and other clients are at the same ones; and a unit has its symbols      *)
(* exactly when it counts as parsed without an error: a failure of one client's does not hide    *)
(* what another stored, nor is a parse stored over a failure (branch-code.service.ts:72-106,     *)
(* branch-code.ts:165-174, 267-273).                                                             *)
LiveIsParsed ==
    /\ \A r \in rows : r.unit[1] \in blobs /\ parse[r.unit] \in {"parsed", "failed"}
    /\ symbols = {u \in Units : parse[u] = "parsed"}

(* A branch's live files are one client's list, that of the commit that came last: never a mix *)
(* of two, nor two contents of one path (branch-code.ts:275-334).                              *)
LiveIsOneCommit ==
    \A b \in Branches :
        /\ {r.unit : r \in Live(b)} = UnitsOf(last[b])
        /\ \A r, s \in Live(b) : r.unit[2] = s.unit[2] => r = s

(* The past of a branch two commits of which never ran at once is a function: no time has two   *)
(* contents of a path, so a read as of that time shows what was live (branch-code.ts:763-783).  *)
HistoryUnlessOverlapped ==
    \A r, s \in {q \in rows : q.branch \notin overlapped} :
        r.branch = s.branch /\ r.unit[2] = s.unit[2] /\ r # s =>
            \/ r.until # None /\ r.until <= s.from
            \/ s.until # None /\ s.until <= r.from

(* A reader is shown the branch as it was at some moment since it asked, though directories are *)
(* cached over commits (code-read.service.ts:340-370).                                          *)
DirectoryIsFresh == reader.at = "shown" => reader.shown \in reader.since

(* After any outage every summary that is live on a branch gets its vector, unless one that the  *)
(* model refuses is in the batch of the first that lack theirs: it holds up all behind it, as    *)
(* nothing parks it (code-embedding.worker.ts:31-62).                                            *)
LiveIsEmbedded ==
    LET lacking == {u[1] : u \in {v \in symbols \cap LiveUnits : v[1] \notin vectors}} IN
    []<>(lacking = {} \/ Leading(lacking, EmbedBatch) \cap RefusedTexts # {})
=============================================================================
