----------------------------- MODULE MemoryGraph -----------------------------
(* The graph of notes: nodes that are live or retired, edges with a type and *)
(* a provenance (PgNodesRepo, PgEdgesRepo), the calls that write and link    *)
(* (NodeService.createNode, LocalLinkNodes), supersede, restore and merge,   *)
(* and what the consolidation sweep does to edges (ConsolidationWorker).     *)
(*                                                                           *)
(* A step is one transaction or one read.  A call that links checks each end *)
(* with a read of its own and writes later; the sweep lists edges, follows   *)
(* supersedes or asks the model, and then cuts and inserts one edge at a     *)
(* time.  One hop of terminalLiveSuccessors is one step.                     *)
(*                                                                           *)
(* Notes only: mirrors of code have an index of their own.  Weights, and     *)
(* with them the degree caps and the order of lists, are left out: a sweep   *)
(* may link any pair of a family, and prune any of the similarities.         *)
EXTENDS Naturals, FiniteSets

CONSTANTS
    Nodes,      \* ids
    Written,    \* the notes that are written at first
    Related,    \* the relations the sweep has drawn between them
    Episodes,   \* the ids of episodic notes, which may be distilled
    Family,     \* the project family of each node
    Age,        \* ids are ULIDs: their order is that of their writing
    EdgeTypes,  \* the types of edge in use
    Stages,     \* the stages of the sweep in use (a posture turns off some at once)
    Clients,    \* calls of write or link that may be in flight at once
    Sweeps,     \* consolidation workers
    Batch,      \* edges a sweep moves off superseded notes, 200 by default
    MaxLinks,   \* bound: links of a new note
    MaxWrites,  \* bound: how often a call or a find of the sweep starts a change
    None

Edges == Nodes \X Nodes \X EdgeTypes

(* What `link` refuses to draw, of the types that join notes. *)
SystemTypes == {"similar_to", "duplicate_of"}

(* What the sweep draws between notes it believes unconnected. *)
RelationTypes == {"relates_to", "references", "derived_from"}

(* What the model may say of two notes a and b; `from` is the one that       *)
(* refers or replaces.  A duplicate is related, and a candidate besides.     *)
Verdicts == [relation : {"none", "relates_to", "duplicate_of"}, from : {"a"}]
              \cup [relation : {"references", "supersedes"}, from : {"a", "b"}]

ASSUME GraphAssumption ==
    /\ Episodes \subseteq Nodes /\ Written \subseteq Nodes
    /\ {"similar_to", "relates_to", "supersedes"} \subseteq EdgeTypes
    /\ EdgeTypes \subseteq RelationTypes \cup SystemTypes \cup {"supersedes", "documents"}
    /\ Related \subseteq Written \X Written \X {"relates_to"}
    /\ \A e, f \in Related : e[1] # e[2] /\ ({e[1], e[2]} = {f[1], f[2]} => e = f)
    /\ Age \in [Nodes -> Nat]
    /\ Batch \in Nat \ {0}
    /\ MaxLinks \in Nat /\ MaxWrites \in Nat
    /\ None \notin Nodes \cup Edges \cup Verdicts

VARIABLES
    node,          \* "absent", "live" or "retired"
    edge,          \* "none", "dead", or the provenance of a live edge
    consolidated,  \* the episodes that have been distilled
    client,        \* the calls in flight
    sweep,         \* where each sweep is
    writes

graph == <<node, edge, consolidated>>
vars == <<graph, client, sweep, writes>>

NoCall == [pc |-> "idle", src |-> None, links |-> {}, unchecked |-> {}]

(* todo: what the stage has listed; edge, verdict: the one it is at; open,   *)
(* seen, found: the walk over supersedes from the edge's retired end.        *)
At(pc, todo, e, v) == [pc |-> pc, todo |-> todo, edge |-> e, verdict |-> v,
                       open |-> {}, seen |-> {}, found |-> {}]

Idle == At("idle", {}, None, None)

Init ==
    /\ node = [n \in Nodes |-> IF n \in Written THEN "live" ELSE "absent"]
    /\ edge = [e \in Edges |-> IF e \in Related THEN "system" ELSE "none"]
    /\ consolidated = {}
    /\ client = [c \in Clients |-> NoCall]
    /\ sweep = [w \in Sweeps |-> Idle]
    /\ writes = 0

-----------------------------------------------------------------------------
(* The edges table *)

Exists(n) == node[n] # "absent"
Alive(n) == node[n] = "live"
Drawn(e) == edge[e] \in {"agent", "system"}

Between(a, b) == {e \in Edges : {e[1], e[2]} = {a, b}}

(* slip: only an edge the same way round counts *)
ConnectedOneWay(a, b) == \E t \in EdgeTypes : Drawn(<<a, b, t>>)

Connected(a, b) == \E e \in Between(a, b) : Drawn(e)

(* insertEdge: an edge that was cut comes back, and an edge that is there    *)
(* changes hands.                                                            *)
InsertEdge(e, by) == edge' = [edge EXCEPT ![e] = by]

(* invalidateEdge does not ask whose edge it is. *)
InvalidateEdge(e) == edge' = IF Drawn(e) THEN [edge EXCEPT ![e] = "dead"] ELSE edge

(* slip: the ends are not looked at again *)
InsertAnyway(e) == InsertEdge(e, "system")

InsertIfLive(e) ==
    IF Alive(e[1]) /\ Alive(e[2]) THEN InsertEdge(e, "system") ELSE UNCHANGED edge

InsertIfUnconnected(e) ==
    IF e[1] # e[2] /\ Alive(e[1]) /\ Alive(e[2]) /\ ~Connected(e[1], e[2])
    THEN InsertEdge(e, "system") ELSE UNCHANGED edge

(* slip: the similarities of the retired note are left *)
SimilaritiesKept(E, n) == E

SimilaritiesCut(E, n) ==
    [e \in Edges |-> IF E[e] = "system" /\ e[3] = "similar_to" /\ n \in {e[1], e[2]}
                     THEN "dead" ELSE E[e]]

(* slip: what already points at the successor is not counted as moved there *)
RepointedBack(E, n, s) ==
    [e \in Edges |-> IF e[2] = n /\ E[e] = "agent" THEN "dead" ELSE E[e]]

(* repointReferrers: what authors point at n points at s instead. *)
Repointed(E, n, s) ==
    [e \in Edges |->
       IF e[2] = s /\ e[1] # s /\ E[<<e[1], n, e[3]>>] = "agent" THEN "agent"
       ELSE IF e[2] = n /\ E[e] = "agent" THEN "dead"
       ELSE E[e]]

(* The edges once n is retired, in favour of s if there is an s. *)
Retired(E, n, s) ==
    IF s = None THEN SimilaritiesCut(E, n)
    ELSE [Repointed(SimilaritiesCut(E, n), n, s) EXCEPT ![<<s, n, "supersedes">>] = "agent"]

(* applyMerge: both ends of the loser's authored edges move to the survivor. *)
Merged(E, survivor, loser) ==
    [e \in Edges |->
       IF loser \in {e[1], e[2]} THEN IF E[e] = "agent" THEN "dead" ELSE E[e]
       ELSE IF \/ e[1] = survivor /\ e[2] # survivor /\ E[<<loser, e[2], e[3]>>] = "agent"
               \/ e[2] = survivor /\ e[1] # survivor /\ E[<<e[1], loser, e[3]>>] = "agent"
            THEN "agent" ELSE E[e]]

(* retire: a node that is retired already is left as it is. *)
Retire(n, s) ==
    IF Alive(n)
    THEN /\ node' = [node EXCEPT ![n] = "retired"]
         /\ edge' = Retired(edge, n, s)
    ELSE UNCHANGED <<node, edge>>

-----------------------------------------------------------------------------
(* The authors' calls *)

Counted == writes < MaxWrites /\ writes' = writes + 1

(* `link`: neither a type of the system's own nor a node with itself.  The   *)
(* first requireLive is part of this step.                                   *)
LinkStart(c, a, b, t) ==
    /\ client[c].pc = "idle" /\ Alive(a) /\ Exists(b) /\ a # b
    /\ t \notin SystemTypes
    /\ Counted
    /\ client' = [client EXCEPT ![c] =
                    [pc |-> "link", src |-> a, links |-> {<<b, t>>}, unchecked |-> {b}]]
    /\ UNCHANGED <<graph, sweep>>

(* Up to MaxLinks of them. *)
LinkSets == {{}} \cup {{f[i] : i \in 1 .. MaxLinks} : f \in [1 .. MaxLinks -> Nodes \X EdgeTypes]}

(* `write`: links of any type, the parent among them. *)
CreateStart(c, links) ==
    /\ client[c].pc = "idle" /\ \A l \in links : Exists(l[1])
    /\ \E n \in Nodes : ~Exists(n)
    /\ client' = [client EXCEPT ![c] =
                    [pc |-> "create", src |-> None, links |-> links,
                     unchecked |-> {l[1] : l \in links}]]
    /\ UNCHANGED <<graph, sweep, writes>>

(* requireLive on one destination: the call fails if it is retired. *)
RequireLive(c, d) ==
    /\ client[c].pc # "idle" /\ d \in client[c].unchecked
    /\ client' = [client EXCEPT ![c] =
                    IF Alive(d) THEN [client[c] EXCEPT !.unchecked = client[c].unchecked \ {d}]
                    ELSE NoCall]
    /\ UNCHANGED <<graph, sweep, writes>>

LinkWrite(c) ==
    /\ client[c].pc = "link" /\ client[c].unchecked = {}
    /\ edge' = [e \in Edges |-> IF e[1] = client[c].src /\ <<e[2], e[3]>> \in client[c].links
                                THEN "agent" ELSE edge[e]]
    /\ client' = [client EXCEPT ![c] = NoCall]
    /\ UNCHANGED <<node, consolidated, sweep, writes>>

CreateWrite(c, n) ==
    /\ client[c].pc = "create" /\ client[c].unchecked = {} /\ ~Exists(n)
    /\ node' = [node EXCEPT ![n] = "live"]
    /\ edge' = [e \in Edges |-> IF e[1] = n /\ <<e[2], e[3]>> \in client[c].links
                                THEN "agent" ELSE edge[e]]
    /\ client' = [client EXCEPT ![c] = NoCall]
    /\ UNCHANGED <<consolidated, sweep, writes>>

(* `invalidate`, a prune or a supersede a reviewer applies, and an undo.     *)
(* Whether the successor is live, or another node, is not asked.             *)
Invalidate(n, s) ==
    /\ Alive(n) /\ (s # None => Exists(s))
    /\ Counted
    /\ Retire(n, s)
    /\ UNCHANGED <<consolidated, client, sweep>>

Restore(n) ==
    /\ node[n] = "retired"
    /\ Counted
    /\ node' = [node EXCEPT ![n] = "live"]
    /\ edge' = [e \in Edges |-> IF e[2] = n /\ e[3] = "supersedes" /\ Drawn(e)
                                THEN "dead" ELSE edge[e]]
    /\ UNCHANGED <<consolidated, client, sweep>>

Merge(survivor, loser) ==
    /\ survivor # loser /\ Alive(survivor) /\ Alive(loser)
    /\ Counted
    /\ node' = [node EXCEPT ![loser] = "retired"]
    /\ edge' = Retired(Merged(edge, survivor, loser), loser, survivor)
    /\ UNCHANGED <<consolidated, client, sweep>>

(* A reviewer takes an edge back. *)
Undo(e) ==
    /\ Drawn(e)
    /\ Counted
    /\ InvalidateEdge(e)
    /\ UNCHANGED <<node, consolidated, client, sweep>>

(* applyDistillation *)
Distill(n, sources) ==
    /\ "derived_from" \in EdgeTypes
    /\ sources # {} /\ ~Exists(n) /\ n \notin Episodes
    /\ \A m \in sources : m \in Episodes /\ Alive(m) /\ m \notin consolidated
    /\ Counted
    /\ node' = [node EXCEPT ![n] = "live"]
    /\ consolidated' = consolidated \cup sources
    /\ edge' = [e \in Edges |-> IF e[1] = n /\ e[2] \in sources /\ e[3] = "derived_from"
                                THEN "system" ELSE edge[e]]
    /\ UNCHANGED <<client, sweep>>

(* insertDuplicateOfIfLive *)
MarkDuplicate(a, b) ==
    /\ "duplicate_of" \in EdgeTypes /\ a # b /\ Exists(a) /\ Exists(b)
    /\ Counted
    /\ InsertIfLive(<<a, b, "duplicate_of">>)
    /\ UNCHANGED <<node, consolidated, client, sweep>>

-----------------------------------------------------------------------------
(* The sweep *)

Goes(w, s) == sweep' = [sweep EXCEPT ![w] = s]
Back(w) == At("list", sweep[w].todo, None, None)

(* discoverLinks, or a reviewer who applies a link candidate: the pair was   *)
(* found some time ago.                                                      *)
DiscoverLink(a, b) ==
    /\ "link" \in Stages
    /\ a # b /\ Exists(a) /\ Exists(b) /\ Family[a] = Family[b]
    /\ Counted
    /\ InsertIfLive(<<a, b, "similar_to">>)
    /\ UNCHANGED <<node, consolidated, client, sweep>>

(* A wikilink, read in a body some time ago.  An edge that was cut stays so. *)
ResolveCitation(a, b) ==
    /\ "cite" \in Stages /\ "references" \in EdgeTypes
    /\ a # b /\ Exists(a) /\ Exists(b)
    /\ Counted
    /\ IF edge[<<a, b, "references">>] = "none"
       THEN InsertIfUnconnected(<<a, b, "references">>) ELSE UNCHANGED edge
    /\ UNCHANGED <<node, consolidated, client, sweep>>

Lists(w, todo) ==
    /\ sweep[w].pc = "idle" /\ todo # {}
    /\ Goes(w, At("list", todo, None, None))
    /\ UNCHANGED <<graph, client, writes>>

BothLive(e) == Alive(e[1]) /\ Alive(e[2])

(* The process stops, or the sweep finds its lease gone: what it was at is    *)
(* not taken up again.                                                       *)
Stop(w) ==
    /\ sweep[w].pc # "idle"
    /\ Counted
    /\ Goes(w, Idle)
    /\ UNCHANGED <<graph, client>>

(* strandedSystemEdges *)
Stranded(e) ==
    /\ edge[e] = "system" /\ e[3] \notin {"supersedes", "similar_to"}
    /\ Alive(e[1]) /\ node[e[2]] = "retired"
    /\ \E s \in Nodes : Drawn(<<s, e[2], "supersedes">>)

Before(e, f) == \/ Age[e[1]] < Age[f[1]]
                \/ Age[e[1]] = Age[f[1]] /\ Age[e[2]] < Age[f[2]]

(* The first of S: ORDER BY src, dst, type LIMIT batch, ties of type aside. *)
Leading(S) == {e \in S : Cardinality({f \in S : Before(f, e)}) < Batch}

ListStranded(w) ==
    /\ "repoint" \in Stages
    /\ Lists(w, Leading({e \in Edges : Stranded(e)}) \X {"repoint"})

(* crossProjectSystemLinks *)
AcrossFamilies(e) ==
    /\ edge[e] = "system" /\ e[3] \in {"similar_to", "relates_to", "references"}
    /\ BothLive(e) /\ Family[e[1]] # Family[e[2]]

ListCrossProject(w) ==
    /\ "unlink" \in Stages
    /\ Lists(w, {e \in Edges : AcrossFamilies(e)} \X {"drop"})

(* overCapSimilarLinks: any of the similarities may be over the cap. *)
ListOverCap(w, S) ==
    /\ "prune" \in Stages
    /\ \A e \in S : edge[e] = "system" /\ e[3] = "similar_to" /\ BothLive(e)
    /\ Lists(w, S \X {"drop"})

(* untypedLinks: one that is also typed is dropped, another is judged. *)
Typed(e) == \E f \in Between(e[1], e[2]) : Drawn(f) /\ f[3] # "similar_to"

ListUntyped(w) ==
    /\ "retype" \in Stages
    /\ LET untyped == {e \in Edges : Drawn(e) /\ e[3] = "similar_to" /\ BothLive(e)}
           typed == {e \in untyped : Typed(e)}
       IN  Lists(w, (typed \X {"drop"}) \cup ((untyped \ typed) \X {"judge"}))

(* revisedLinks: any of the system's relations may have been revised. *)
ListRevised(w, S) ==
    /\ "recheck" \in Stages
    /\ \A e \in S : edge[e] = "system" /\ e[3] \in {"relates_to", "references"} /\ BothLive(e)
    /\ Lists(w, S \X {"judge"})

Drop(w, e) ==
    /\ sweep[w].pc = "list" /\ <<e, "drop">> \in sweep[w].todo
    /\ InvalidateEdge(e)
    /\ Goes(w, [sweep[w] EXCEPT !.todo = sweep[w].todo \ {<<e, "drop">>}])
    /\ UNCHANGED <<node, consolidated, client, writes>>

ListDone(w) ==
    /\ sweep[w].pc = "list" /\ sweep[w].todo = {}
    /\ Goes(w, Idle)
    /\ UNCHANGED <<graph, client, writes>>

(* repointStranded, one edge: the walk, the cut and the insert. *)
Successors(n) == {s \in Nodes : Drawn(<<s, n, "supersedes">>)}

Repoint(w, e) ==
    /\ sweep[w].pc = "list" /\ <<e, "repoint">> \in sweep[w].todo
    /\ Goes(w, [pc |-> "walk", todo |-> sweep[w].todo \ {<<e, "repoint">>}, edge |-> e,
                verdict |-> None, open |-> {e[2]}, seen |-> {}, found |-> {}])
    /\ UNCHANGED <<graph, client, writes>>

(* slip: the walk stops at the first successors *)
WalkOneHop(w, n) == {}

Onward(w, n) == {s \in Successors(n) : ~Alive(s)} \ (sweep[w].seen \cup {n})

Walk(w, n) ==
    /\ sweep[w].pc = "walk" /\ n \in sweep[w].open
    /\ Goes(w, [sweep[w] EXCEPT !.open = (sweep[w].open \ {n}) \cup Onward(w, n),
                                !.seen = sweep[w].seen \cup {n},
                                !.found = sweep[w].found \cup {s \in Successors(n) : Alive(s)}])
    /\ UNCHANGED <<graph, client, writes>>

(* Where an identity went is a question only a single answer settles. *)
Walked(w) ==
    /\ sweep[w].pc = "walk" /\ sweep[w].open = {}
    /\ Goes(w, IF Cardinality(sweep[w].found) = 1 THEN [sweep[w] EXCEPT !.pc = "move"]
               ELSE Back(w))
    /\ UNCHANGED <<graph, client, writes>>

MoveCut(w) ==
    /\ sweep[w].pc = "move"
    /\ InvalidateEdge(sweep[w].edge)
    /\ Goes(w, IF sweep[w].edge[1] \in sweep[w].found THEN Back(w)
               ELSE [sweep[w] EXCEPT !.pc = "join"])
    /\ UNCHANGED <<node, consolidated, client, writes>>

MoveJoin(w, s) ==
    /\ sweep[w].pc = "join" /\ s \in sweep[w].found
    /\ InsertIfUnconnected(<<sweep[w].edge[1], s, sweep[w].edge[3]>>)
    /\ Goes(w, Back(w))
    /\ UNCHANGED <<node, consolidated, client, writes>>

(* A recheck leaves a link the model says again. *)
Holds(e, v) ==
    \/ e[3] = "relates_to" /\ v.relation = "relates_to"
    \/ e[3] = "references" /\ v.relation = "references" /\ v.from = "a"

(* retypeLinks and recheckLinks, one edge.  The model may also fail. *)
Judge(w, e, v) ==
    /\ sweep[w].pc = "list" /\ <<e, "judge">> \in sweep[w].todo
    /\ LET rest == sweep[w].todo \ {<<e, "judge">>}
       IN  \/ Goes(w, At("list", rest, None, None))
           \/ ~Holds(e, v) /\ Goes(w, At("cut", rest, e, v))
    /\ UNCHANGED <<graph, client, writes>>

JudgedCut(w) ==
    /\ sweep[w].pc = "cut"
    /\ InvalidateEdge(sweep[w].edge)
    /\ Goes(w, IF sweep[w].verdict.relation = "none" THEN Back(w)
               ELSE [sweep[w] EXCEPT !.pc = "relate"])
    /\ UNCHANGED <<node, consolidated, client, writes>>

(* reattach: a live note no live note is connected with, and one that is     *)
(* near it or anchors it.                                                    *)
Edgeless(n) == \A m \in Nodes \ {n} : Alive(m) => ~Connected(n, m)

Reattach(w, n, m, v) ==
    /\ "reattach" \in Stages
    /\ sweep[w].pc = "idle" /\ n # m /\ Alive(n) /\ Alive(m)
    /\ Family[n] = Family[m] /\ Edgeless(n)
    /\ v.relation # "none"
    /\ Counted
    /\ Goes(w, At("relate", {}, <<n, m, "relates_to">>, v))
    /\ UNCHANGED <<graph, client>>

Newer(w) == IF sweep[w].verdict.from = "a" THEN sweep[w].edge[1] ELSE sweep[w].edge[2]
Older(w) == IF sweep[w].verdict.from = "a" THEN sweep[w].edge[2] ELSE sweep[w].edge[1]

(* applyRelation, its first insert. *)
Relate(w) ==
    /\ sweep[w].pc = "relate"
    /\ IF sweep[w].verdict.relation = "references" /\ "references" \in EdgeTypes
       THEN InsertIfUnconnected(<<Newer(w), Older(w), "references">>)
       ELSE InsertIfUnconnected(<<sweep[w].edge[1], sweep[w].edge[2], "relates_to">>)
    /\ Goes(w, IF sweep[w].verdict.relation = "supersedes" /\ "supersede" \in Stages
               THEN [sweep[w] EXCEPT !.pc = "older"] ELSE Back(w))
    /\ UNCHANGED <<node, consolidated, client, writes>>

(* settleSupersedes takes up a candidate that is pending. *)
Settle(w, older, newer) ==
    /\ "supersede" \in Stages
    /\ sweep[w].pc = "idle" /\ older # newer /\ Exists(older) /\ Exists(newer)
    /\ Goes(w, At("older", {}, <<newer, older, "relates_to">>,
                  [relation |-> "supersedes", from |-> "a"]))
    /\ Counted
    /\ UNCHANGED <<graph, client>>

(* supersede: a read for each note, one more whether the older is            *)
(* hand-maintained, and the write.                                           *)
ReadOlder(w) ==
    /\ sweep[w].pc = "older"
    /\ Goes(w, IF Alive(Older(w)) THEN [sweep[w] EXCEPT !.pc = "newer"] ELSE Back(w))
    /\ UNCHANGED <<graph, client, writes>>

ReadNewer(w) ==
    /\ sweep[w].pc = "newer"
    /\ Goes(w, IF Alive(Newer(w)) THEN [sweep[w] EXCEPT !.pc = "retire"] ELSE Back(w))
    /\ UNCHANGED <<graph, client, writes>>

Supersede(w) ==
    /\ sweep[w].pc = "retire"
    /\ \/ Retire(Older(w), Newer(w))
       \/ UNCHANGED <<node, edge>>
    /\ Goes(w, Back(w))
    /\ UNCHANGED <<consolidated, client, writes>>

-----------------------------------------------------------------------------
AuthorStep ==
    \/ \E c \in Clients, a, b \in Nodes, t \in EdgeTypes : LinkStart(c, a, b, t)
    \/ \E c \in Clients, links \in LinkSets : CreateStart(c, links)
    \/ \E c \in Clients, n \in Nodes : RequireLive(c, n) \/ CreateWrite(c, n)
    \/ \E c \in Clients : LinkWrite(c)
    \/ \E n \in Nodes, s \in Nodes \cup {None} : Invalidate(n, s)
    \/ \E n \in Nodes : Restore(n)
    \/ \E a, b \in Nodes : Merge(a, b) \/ MarkDuplicate(a, b)
    \/ \E e \in Edges : Undo(e)
    \/ \E n \in Nodes, S \in SUBSET Episodes : Distill(n, S)

(* The sweep starts a stage, or ends before it is through with one. *)
StageStep(w) ==
    \/ ListStranded(w) \/ ListCrossProject(w) \/ ListUntyped(w)
    \/ \E S \in SUBSET {e \in Edges : edge[e] = "system"} : ListOverCap(w, S) \/ ListRevised(w, S)
    \/ \E n, m \in Nodes, v \in Verdicts : Reattach(w, n, m, v)
    \/ \E n, m \in Nodes : Settle(w, n, m)
    \/ Stop(w)

(* The sweep goes on with the one it is at. *)
SweepStep(w) ==
    \/ \E e \in Edges : Drop(w, e) \/ Repoint(w, e) \/ \E v \in Verdicts : Judge(w, e, v)
    \/ \E n \in Nodes : Walk(w, n) \/ MoveJoin(w, n)
    \/ Walked(w) \/ MoveCut(w) \/ JudgedCut(w) \/ Relate(w)
    \/ ReadOlder(w) \/ ReadNewer(w) \/ Supersede(w) \/ ListDone(w)

Next ==
    \/ AuthorStep
    \/ \E a, b \in Nodes : DiscoverLink(a, b) \/ ResolveCitation(a, b)
    \/ \E w \in Sweeps : StageStep(w) \/ SweepStep(w)

Spec == Init /\ [][Next]_vars

(* A sweep goes on, and one that ends is followed by another in which every  *)
(* stage has its turn.  Nobody has to write, and a call may hang.            *)
Fairness ==
    \A w \in Sweeps : WF_vars(SweepStep(w)) /\ SF_vars(ListStranded(w))

FairSpec == Spec /\ Fairness
-----------------------------------------------------------------------------
(* Properties *)

Call == [pc : {"idle", "link", "create"}, src : Nodes \cup {None},
         links : SUBSET (Nodes \X EdgeTypes), unchecked : SUBSET Nodes]

Sweeper == [pc : {"idle", "list", "walk", "move", "join", "cut", "relate",
                  "older", "newer", "retire"},
            todo : SUBSET (Edges \X {"repoint", "drop", "judge"}),
            edge : Edges \cup {None}, verdict : Verdicts \cup {None},
            open : SUBSET Nodes, seen : SUBSET Nodes, found : SUBSET Nodes]

CallConsistent(c) == c.pc = "link" => c.src # None

SweepConsistent(s) ==
    /\ s.pc \in {"walk", "move", "join", "cut", "relate", "older", "newer", "retire"}
         => s.edge # None
    /\ s.pc \in {"cut", "relate", "older", "newer", "retire"} => s.verdict # None

(* Every variable has its type, and a call or sweep past its first read      *)
(* knows what it is about.                                                   *)
TypeOK ==
    /\ node \in [Nodes -> {"absent", "live", "retired"}]
    /\ edge \in [Edges -> {"none", "dead", "agent", "system"}]
    /\ consolidated \subseteq Episodes
    /\ client \in [Clients -> Call]
    /\ sweep \in [Sweeps -> Sweeper]
    /\ writes \in 0 .. MaxWrites
    /\ \A c \in Clients : CallConsistent(client[c])
    /\ \A w \in Sweeps : SweepConsistent(sweep[w])

(* A similarity the system drew joins two live notes, however long ago the   *)
(* pair was found and whatever retired, came back or was merged since        *)
(* (insertSystemSimilarityIfLive, invalidateSystemSimilaritiesOf).           *)
SimilarityJoinsLive ==
    \A e \in Edges : edge[e] = "system" /\ e[3] = "similar_to" => BothLive(e)

SystemRelations == {e \in Edges : edge[e] = "system" /\ e[3] \in RelationTypes}

(* Whatever lists, walks and verdicts it acts on, the sweep never draws a    *)
(* second relation between two notes, in either direction                    *)
(* (insertSystemEdgeIfUnconnected, insertSystemReferenceIfUnconnected).      *)
OneSystemRelation ==
    \A e, f \in SystemRelations : {e[1], e[2]} = {f[1], f[2]} => e = f

(* n is retired in this step in favour of s. *)
Yields(n, s) == Alive(n) /\ node'[n] = "retired" /\ edge'[<<s, n, "supersedes">>] = "agent"

(* What an author said of two notes is lost to nobody but a reviewer: when   *)
(* either end retires in favour of another note, the relation is authored    *)
(* there afterwards, unless it would join that note with itself; restoring   *)
(* the end undoes the supersedes edge and nothing else (repointReferrers,    *)
(* applyMerge, restoreNode).                                                 *)
AuthoredIsKept ==
    [][\A e \in Edges :
         edge[e] = "agent" /\ edge'[e] # "agent" /\ e[3] \notin SystemTypes =>
           \/ Undo(e)
           \/ e[3] = "supersedes" /\ node[e[2]] = "retired" /\ node'[e[2]] = "live"
           \/ \E s \in Nodes : Yields(e[2], s) /\ (e[1] = s \/ edge'[<<e[1], s, e[3]>>] = "agent")
           \/ \E s \in Nodes : Yields(e[1], s) /\ (e[2] = s \/ edge'[<<s, e[2], e[3]>>] = "agent")
      ]_vars

(* The live notes the identity of a retired one went to, at any remove. *)
Heirs(n) ==
    LET reach[k \in Nat] ==
          IF k = 0 THEN {n}
          ELSE reach[k - 1] \cup UNION {Successors(m) : m \in {x \in reach[k - 1] : ~Alive(x)}}
    IN  {s \in reach[Cardinality(Nodes)] : Alive(s)}

Repairable(e) == Stranded(e) /\ Cardinality(Heirs(e[2])) = 1

(* Left alone for long enough, the sweep leaves no edge of its own on a      *)
(* superseded note whose identity went to one live note, through however     *)
(* many successors ("move system edges off superseded nodes", README.md:536; *)
(* consolidation.worker.ts:1065).                                            *)
RepairsCatchUp == []<>(\A e \in Edges : ~Repairable(e))

(* "should drop a system link across families and keep an authored one"      *)
(* (test/graph-integrity.test.ts:457): what the sweep cuts, where it retires *)
(* nothing, is not an author's by then.                                      *)
SweepKeepsAuthored ==
    [][\A e \in Edges : edge[e] = "agent" /\ edge'[e] = "dead" /\ node' = node
                        => sweep' = sweep]_vars

=============================================================================
