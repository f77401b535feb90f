-------------------------- MODULE MemoryGraph_proofs -------------------------
(* What is proved of the graph of notes for every value of the constants:    *)
(* its types and what the system's own edges keep to; and, at the end, of a  *)
(* search over it (Retrieval), whatever the graph does under the search.     *)
EXTENDS Retrieval, FiniteSetTheorems, WellFoundedInduction, TLAPS

Pcs == {"idle", "list", "walk", "move", "join", "cut", "relate", "older", "newer", "retire"}
Late == {"walk", "move", "join", "cut", "relate", "older", "newer", "retire"}
Judged == {"cut", "relate", "older", "newer", "retire"}
Todos == Edges \X {"repoint", "drop", "judge"}
States == {"none", "dead", "agent", "system"}

-----------------------------------------------------------------------------
(* Types *)

Sound(s) == s \in Sweeper /\ SweepConsistent(s)

LEMMA RecordSound ==
  ASSUME NEW p \in Pcs, NEW T \in SUBSET Todos, NEW e \in Edges \cup {None},
         NEW v \in Verdicts \cup {None},
         NEW O \in SUBSET Nodes, NEW S \in SUBSET Nodes, NEW F \in SUBSET Nodes,
         p \in Late => e # None, p \in Judged => v # None
  PROVE  Sound([pc |-> p, todo |-> T, edge |-> e, verdict |-> v,
                open |-> O, seen |-> S, found |-> F])
  <1> DEFINE r == [pc |-> p, todo |-> T, edge |-> e, verdict |-> v,
                   open |-> O, seen |-> S, found |-> F]
  <1>1. r \in Sweeper
    BY Zenon DEF Sweeper, Pcs, Todos
  <1>2. SweepConsistent(r)
    BY Zenon DEF SweepConsistent, Late, Judged
  <1> QED BY <1>1, <1>2, Zenon DEF Sound

LEMMA FieldTypes ==
  ASSUME TypeOK, NEW w \in Sweeps
  PROVE  /\ sweep[w].pc \in Pcs /\ sweep[w].todo \in SUBSET Todos
         /\ sweep[w].edge \in Edges \cup {None} /\ sweep[w].verdict \in Verdicts \cup {None}
         /\ sweep[w].open \in SUBSET Nodes /\ sweep[w].seen \in SUBSET Nodes
         /\ sweep[w].found \in SUBSET Nodes
         /\ sweep[w].pc \in Late => sweep[w].edge \in Edges
         /\ sweep[w].pc \in Judged => sweep[w].verdict \in Verdicts
         /\ sweep[w] = [pc |-> sweep[w].pc, todo |-> sweep[w].todo, edge |-> sweep[w].edge,
                        verdict |-> sweep[w].verdict, open |-> sweep[w].open,
                        seen |-> sweep[w].seen, found |-> sweep[w].found]
  <1>1. sweep[w] \in Sweeper /\ SweepConsistent(sweep[w])
    BY DEF TypeOK
  <1>2. /\ sweep[w].pc \in Late => sweep[w].edge # None
        /\ sweep[w].pc \in Judged => sweep[w].verdict # None
    BY <1>1 DEF SweepConsistent, Late, Judged
  <1> QED BY <1>1, <1>2 DEF Sweeper, Pcs, Todos

(* Where a sweep goes, it is a sweep. *)
LEMMA GoesType ==
  ASSUME TypeOK, NEW w \in Sweeps, NEW s, Sound(s), Goes(w, s)
  PROVE  sweep' \in [Sweeps -> Sweeper] /\ \A x \in Sweeps : SweepConsistent(sweep'[x])
  BY DEF TypeOK, Goes, Sound

LEMMA AtSound ==
  ASSUME NEW p \in Pcs, NEW T \in SUBSET Todos, NEW e \in Edges \cup {None},
         NEW v \in Verdicts \cup {None}, p \in Late => e # None, p \in Judged => v # None
  PROVE  Sound(At(p, T, e, v))
  BY RecordSound DEF At

LEMMA IdleSound == Sound(Idle)
  BY AtSound DEF Idle, Pcs, Late, Judged

LEMMA ListSound ==
  ASSUME NEW T \in SUBSET Todos PROVE Sound(At("list", T, None, None))
  BY AtSound DEF Pcs, Late, Judged

LEMMA BackSound ==
  ASSUME TypeOK, NEW w \in Sweeps PROVE Sound(Back(w))
  BY FieldTypes, ListSound DEF Back

LEMMA PcSound ==
  ASSUME TypeOK, NEW w \in Sweeps, NEW p \in Pcs,
         p \in Late => sweep[w].pc \in Late, p \in Judged => sweep[w].pc \in Judged
  PROVE  Sound([sweep[w] EXCEPT !.pc = p])
  <1>1. sweep[w] \in Sweeper /\ SweepConsistent(sweep[w])
    BY DEF TypeOK
  <1>2. ASSUME NEW s \in Sweeper, SweepConsistent(s),
               p \in Late => s.pc \in Late, p \in Judged => s.pc \in Judged
        PROVE  Sound([s EXCEPT !.pc = p])
    <2>1. [s EXCEPT !.pc = p] \in Sweeper
      BY DEF Sweeper, Pcs
    <2>2. SweepConsistent([s EXCEPT !.pc = p])
      BY <1>2 DEF Sweeper, SweepConsistent, Late, Judged, Pcs
    <2> QED BY <2>1, <2>2 DEF Sound
  <1> QED BY <1>1, <1>2

LEMMA TodoSound ==
  ASSUME TypeOK, NEW w \in Sweeps, NEW T \in SUBSET Todos
  PROVE  Sound([sweep[w] EXCEPT !.todo = T])
  <1>1. sweep[w] \in Sweeper /\ SweepConsistent(sweep[w])
    BY DEF TypeOK
  <1>2. ASSUME NEW s \in Sweeper, SweepConsistent(s) PROVE Sound([s EXCEPT !.todo = T])
    <2>1. [s EXCEPT !.todo = T] \in Sweeper
      BY DEF Sweeper, Todos
    <2>2. SweepConsistent([s EXCEPT !.todo = T])
      BY <1>2 DEF Sweeper, SweepConsistent
    <2> QED BY <2>1, <2>2 DEF Sound
  <1> QED BY <1>1, <1>2

LEMMA WalkSound ==
  ASSUME TypeOK, NEW w \in Sweeps,
         NEW O \in SUBSET Nodes, NEW S \in SUBSET Nodes, NEW F \in SUBSET Nodes
  PROVE  Sound([sweep[w] EXCEPT !.open = O, !.seen = S, !.found = F])
  <1>1. sweep[w] \in Sweeper /\ SweepConsistent(sweep[w])
    BY DEF TypeOK
  <1>2. ASSUME NEW s \in Sweeper, SweepConsistent(s)
        PROVE  Sound([s EXCEPT !.open = O, !.seen = S, !.found = F])
    <2>1. [s EXCEPT !.open = O, !.seen = S, !.found = F] \in Sweeper
      BY DEF Sweeper
    <2>2. SweepConsistent([s EXCEPT !.open = O, !.seen = S, !.found = F])
      BY <1>2 DEF Sweeper, SweepConsistent
    <2> QED BY <2>1, <2>2 DEF Sound
  <1> QED BY <1>1, <1>2

-----------------------------------------------------------------------------
(* The table of edges *)

LEMMA StateTypes ==
  TypeOK => /\ node \in [Nodes -> {"absent", "live", "retired"}]
            /\ edge \in [Edges -> States]
  BY DEF TypeOK, States

LEMMA InsertType ==
  ASSUME TypeOK, NEW e, NEW by \in {"agent", "system"}, InsertEdge(e, by)
  PROVE  edge' \in [Edges -> States]
  BY StateTypes DEF InsertEdge, States

LEMMA LinkTypes ==
  ASSUME TypeOK, NEW e
  PROVE  /\ InsertIfLive(e) => edge' \in [Edges -> States]
         /\ InsertIfUnconnected(e) => edge' \in [Edges -> States]
         /\ InvalidateEdge(e) => edge' \in [Edges -> States]
  <1>1. InsertEdge(e, "system") => edge' \in [Edges -> States]
    BY InsertType
  <1>2. edge' = edge => edge' \in [Edges -> States]
    BY StateTypes
  <1>3. edge' = [edge EXCEPT ![e] = "dead"] => edge' \in [Edges -> States]
    BY StateTypes DEF States
  <1> QED BY <1>1, <1>2, <1>3 DEF InsertIfLive, InsertIfUnconnected, InvalidateEdge

LEMMA CutType ==
  ASSUME NEW E \in [Edges -> States], NEW n
  PROVE  SimilaritiesCut(E, n) \in [Edges -> States]
  BY DEF SimilaritiesCut, States

LEMMA RepointedType ==
  ASSUME NEW E \in [Edges -> States], NEW n, NEW s
  PROVE  Repointed(E, n, s) \in [Edges -> States]
  BY DEF Repointed, States

LEMMA RetiredType ==
  ASSUME NEW E \in [Edges -> States], NEW n, NEW s
  PROVE  Retired(E, n, s) \in [Edges -> States]
  <1>1. SimilaritiesCut(E, n) \in [Edges -> States]
    BY CutType
  <1>2. Repointed(SimilaritiesCut(E, n), n, s) \in [Edges -> States]
    BY <1>1, RepointedType
  <1>3. [Repointed(SimilaritiesCut(E, n), n, s) EXCEPT ![<<s, n, "supersedes">>] = "agent"]
          \in [Edges -> States]
    BY <1>2 DEF States
  <1> QED BY <1>1, <1>3 DEF Retired

LEMMA MergedType ==
  ASSUME NEW E \in [Edges -> States], NEW n, NEW s
  PROVE  Merged(E, s, n) \in [Edges -> States]
  BY DEF Merged, States

-----------------------------------------------------------------------------
(* The calls *)

Fit(x) == x \in Call /\ CallConsistent(x)

LEMMA CallFit ==
  ASSUME NEW p \in {"idle", "link", "create"}, NEW a \in Nodes \cup {None},
         NEW L \in SUBSET (Nodes \X EdgeTypes), NEW U \in SUBSET Nodes, p = "link" => a # None
  PROVE  Fit([pc |-> p, src |-> a, links |-> L, unchecked |-> U])
  <1> DEFINE r == [pc |-> p, src |-> a, links |-> L, unchecked |-> U]
  <1>1. r \in Call
    BY Zenon DEF Call
  <1>2. CallConsistent(r)
    BY Zenon DEF CallConsistent
  <1> QED BY <1>1, <1>2, Zenon DEF Fit

LEMMA NoCallFit == Fit(NoCall)
  BY CallFit DEF NoCall

LEMMA ClientType ==
  ASSUME TypeOK, NEW c \in Clients, NEW x, Fit(x), client' = [client EXCEPT ![c] = x]
  PROVE  client' \in [Clients -> Call] /\ \A k \in Clients : CallConsistent(client'[k])
  BY DEF TypeOK, Fit

LEMMA CheckedFit ==
  ASSUME TypeOK, NEW c \in Clients, NEW U \in SUBSET Nodes
  PROVE  Fit([client[c] EXCEPT !.unchecked = U])
  <1>1. client[c] \in Call /\ CallConsistent(client[c])
    BY DEF TypeOK
  <1>2. ASSUME NEW s \in Call, CallConsistent(s) PROVE Fit([s EXCEPT !.unchecked = U])
    <2>1. [s EXCEPT !.unchecked = U] \in Call
      BY DEF Call
    <2>2. CallConsistent([s EXCEPT !.unchecked = U])
      BY <1>2 DEF Call, CallConsistent
    <2> QED BY <2>1, <2>2 DEF Fit
  <1> QED BY <1>1, <1>2

LEMMA CountedType ==
  ASSUME TypeOK, Counted PROVE writes' \in 0 .. MaxWrites
  BY GraphAssumption DEF TypeOK, Counted

(* The steps of a call. *)
LEMMA CallStepType ==
  ASSUME TypeOK, NEW c \in Clients,
         \/ \E a, b \in Nodes, t \in EdgeTypes : LinkStart(c, a, b, t)
         \/ \E links \in LinkSets : CreateStart(c, links)
         \/ \E n \in Nodes : RequireLive(c, n) \/ CreateWrite(c, n)
         \/ LinkWrite(c)
  PROVE  TypeOK'
  <1>1. ASSUME NEW a \in Nodes, NEW b \in Nodes, NEW t \in EdgeTypes, LinkStart(c, a, b, t)
        PROVE  TypeOK'
    <2> DEFINE x == [pc |-> "link", src |-> a, links |-> {<<b, t>>}, unchecked |-> {b}]
    <2>1. Fit(x)
      BY CallFit, GraphAssumption
    <2> HIDE DEF x
    <2>2. client' = [client EXCEPT ![c] = x]
      BY <1>1, Zenon DEF LinkStart, x
    <2>3. client' \in [Clients -> Call] /\ \A k \in Clients : CallConsistent(client'[k])
      BY <2>1, <2>2, ClientType
    <2>4. writes' \in 0 .. MaxWrites
      BY <1>1, CountedType DEF LinkStart
    <2> QED BY <1>1, <2>3, <2>4, Zenon DEF LinkStart, TypeOK, graph
  <1>2. ASSUME NEW links \in LinkSets,
               CreateStart(c, links)
        PROVE  TypeOK'
    <2>0. ASSUME links # {} PROVE links \in SUBSET (Nodes \X EdgeTypes)
      <3>1. PICK f \in [1 .. MaxLinks -> Nodes \X EdgeTypes] : links = {f[i] : i \in 1 .. MaxLinks}
        BY <2>0, Zenon DEF LinkSets
      <3> QED BY <3>1
    <2> DEFINE U == {l[1] : l \in links}
               x == [pc |-> "create", src |-> None, links |-> links, unchecked |-> U]
    <2>1. links \in SUBSET (Nodes \X EdgeTypes) /\ U \in SUBSET Nodes
      BY <2>0
    <2>2. client' = [client EXCEPT ![c] = x]
      BY <1>2, Zenon DEF CreateStart
    <2> HIDE DEF U
    <2>3. Fit(x)
      BY <2>1, CallFit
    <2> HIDE DEF x
    <2>4. client' \in [Clients -> Call] /\ \A k \in Clients : CallConsistent(client'[k])
      BY <2>2, <2>3, ClientType
    <2> QED BY <1>2, <2>4, Zenon DEF CreateStart, TypeOK, graph
  <1>3. ASSUME NEW n \in Nodes, RequireLive(c, n) PROVE TypeOK'
    <2>1. client[c].unchecked \ {n} \in SUBSET Nodes
      BY DEF TypeOK, Call
    <2>2. Fit([client[c] EXCEPT !.unchecked = client[c].unchecked \ {n}])
      BY <2>1, CheckedFit
    <2>3. client' \in [Clients -> Call] /\ \A k \in Clients : CallConsistent(client'[k])
      BY <1>3, <2>2, NoCallFit, ClientType DEF RequireLive
    <2> QED BY <1>3, <2>3, Zenon DEF RequireLive, TypeOK, graph
  <1>4. ASSUME NEW n \in Nodes, CreateWrite(c, n) PROVE TypeOK'
    <2>1. client' \in [Clients -> Call] /\ \A k \in Clients : CallConsistent(client'[k])
      BY <1>4, NoCallFit, ClientType DEF CreateWrite
    <2>2. /\ edge' \in [Edges -> States]
          /\ node' \in [Nodes -> {"absent", "live", "retired"}]
      BY <1>4, StateTypes DEF CreateWrite, States
    <2> QED BY <1>4, <2>1, <2>2, Zenon DEF CreateWrite, TypeOK, States
  <1>5. ASSUME LinkWrite(c) PROVE TypeOK'
    <2>1. client' \in [Clients -> Call] /\ \A k \in Clients : CallConsistent(client'[k])
      BY <1>5, NoCallFit, ClientType DEF LinkWrite
    <2>2. edge' \in [Edges -> States]
      BY <1>5, StateTypes DEF LinkWrite, States
    <2> QED BY <1>5, <2>1, <2>2, Zenon DEF LinkWrite, TypeOK, States
  <1> QED BY <1>1, <1>2, <1>3, <1>4, <1>5

(* The other writes, of authors, of reviewers and of a find of the sweep. *)
LEMMA WriteType ==
  ASSUME TypeOK,
         \/ \E n \in Nodes, s \in Nodes \cup {None} : Invalidate(n, s)
         \/ \E n \in Nodes : Restore(n)
         \/ \E a, b \in Nodes : Merge(a, b) \/ MarkDuplicate(a, b)
         \/ \E e \in Edges : Undo(e)
         \/ \E n \in Nodes, S \in SUBSET Episodes : Distill(n, S)
         \/ \E a, b \in Nodes : DiscoverLink(a, b) \/ ResolveCitation(a, b)
  PROVE  TypeOK'
  <1>1. /\ UNCHANGED <<client, sweep>> /\ writes' \in 0 .. MaxWrites
        /\ consolidated' \subseteq Episodes
    BY CountedType DEF Invalidate, Restore, Merge, MarkDuplicate, Undo, Distill, DiscoverLink,
                       ResolveCitation, TypeOK
  <1>2. /\ edge' \in [Edges -> States]
        /\ node' \in [Nodes -> {"absent", "live", "retired"}]
    <2>1. ASSUME NEW n \in Nodes, NEW s \in Nodes \cup {None}, Retire(n, s) PROVE <1>2
      BY <2>1, StateTypes, RetiredType DEF Retire
    <2>2. ASSUME NEW n \in Nodes, Restore(n) PROVE <1>2
      BY <2>2, StateTypes DEF Restore, States
    <2>3. ASSUME NEW a \in Nodes, NEW b \in Nodes, Merge(a, b) PROVE <1>2
      <3>1. Retired(Merged(edge, a, b), b, a) \in [Edges -> States]
        BY StateTypes, MergedType, RetiredType
      <3> QED BY <2>3, <3>1, StateTypes DEF Merge
    <2>4. ASSUME NEW a \in Nodes, NEW b \in Nodes, MarkDuplicate(a, b) PROVE <1>2
      BY <2>4, LinkTypes, StateTypes DEF MarkDuplicate
    <2>5. ASSUME NEW e \in Edges, Undo(e) PROVE <1>2
      BY <2>5, LinkTypes, StateTypes DEF Undo
    <2>6. ASSUME NEW n \in Nodes, NEW S \in SUBSET Episodes, Distill(n, S) PROVE <1>2
      BY <2>6, StateTypes DEF Distill, States
    <2>7. ASSUME NEW a \in Nodes, NEW b \in Nodes, DiscoverLink(a, b) \/ ResolveCitation(a, b)
          PROVE  <1>2
      BY <2>7, LinkTypes, StateTypes DEF DiscoverLink, ResolveCitation
    <2> QED BY <2>1, <2>2, <2>3, <2>4, <2>5, <2>6, <2>7 DEF Invalidate
  <1> QED BY <1>1, <1>2, Zenon DEF TypeOK, States

-----------------------------------------------------------------------------
(* The sweep's steps keep the types.                                         *)

LEMMA SweptType ==
  ASSUME TypeOK, NEW w \in Sweeps, NEW s, Sound(s), Goes(w, s),
         edge' \in [Edges -> States], node' \in [Nodes -> {"absent", "live", "retired"}],
         UNCHANGED <<consolidated, client>>, writes' \in 0 .. MaxWrites
  PROVE  TypeOK'
  BY GoesType, Zenon DEF TypeOK, States

LEMMA SteadyType ==
  ASSUME TypeOK, NEW w \in Sweeps, NEW s, Sound(s), Goes(w, s),
         UNCHANGED <<graph, client, writes>>
  PROVE  TypeOK'
  BY GoesType, Zenon DEF TypeOK, graph

LEMMA TodoTypes ==
  ASSUME NEW S \in SUBSET Edges
  PROVE  S \X {"repoint"} \in SUBSET Todos /\ S \X {"drop"} \in SUBSET Todos
         /\ S \X {"judge"} \in SUBSET Todos
  BY DEF Todos

LEMMA ListsType ==
  ASSUME TypeOK, NEW w \in Sweeps, NEW T \in SUBSET Todos, Lists(w, T)
  PROVE  TypeOK'
  BY ListSound, SteadyType DEF Lists

LEMMA RelationEdge ==
  ASSUME NEW a \in Nodes, NEW b \in Nodes PROVE <<a, b, "relates_to">> \in Edges
  BY GraphAssumption DEF Edges

LEMMA StageStepType ==
  ASSUME TypeOK, NEW w \in Sweeps, StageStep(w) PROVE TypeOK'
  <1>1. CASE ListStranded(w)
    <2>1. Leading({e \in Edges : Stranded(e)}) \in SUBSET Edges
      BY DEF Leading
    <2> QED BY <1>1, <2>1, TodoTypes, ListsType DEF ListStranded
  <1>2. CASE ListCrossProject(w)
    <2>1. {e \in Edges : AcrossFamilies(e)} \in SUBSET Edges
      OBVIOUS
    <2> QED BY <1>2, <2>1, TodoTypes, ListsType DEF ListCrossProject
  <1>3. CASE ListUntyped(w)
    <2> DEFINE untyped == {e \in Edges : Drawn(e) /\ e[3] = "similar_to" /\ BothLive(e)}
               typed == {e \in untyped : Typed(e)}
    <2>1. typed \in SUBSET Edges /\ untyped \ typed \in SUBSET Edges
      OBVIOUS
    <2>2. Lists(w, (typed \X {"drop"}) \cup ((untyped \ typed) \X {"judge"}))
      BY <1>3 DEF ListUntyped
    <2> HIDE DEF untyped, typed
    <2>3. (typed \X {"drop"}) \cup ((untyped \ typed) \X {"judge"}) \in SUBSET Todos
      BY <2>1, TodoTypes
    <2> QED BY <2>2, <2>3, ListsType
  <1>4. ASSUME NEW S \in SUBSET {e \in Edges : edge[e] = "system"},
               ListOverCap(w, S) \/ ListRevised(w, S)
        PROVE  TypeOK'
    <2>1. S \in SUBSET Edges
      OBVIOUS
    <2> QED BY <1>4, <2>1, TodoTypes, ListsType DEF ListOverCap, ListRevised
  <1>5. ASSUME NEW n \in Nodes, NEW m \in Nodes, NEW v \in Verdicts, Reattach(w, n, m, v)
        PROVE  TypeOK'
    <2>1. v # None
      BY <1>5, GraphAssumption
    <2>2. Sound(At("relate", {}, <<n, m, "relates_to">>, v))
      BY <2>1, RelationEdge, GraphAssumption, AtSound DEF Pcs
    <2>3. writes' \in 0 .. MaxWrites
      BY <1>5, CountedType DEF Reattach
    <2> QED BY <1>5, <2>2, <2>3, StateTypes, SweptType DEF Reattach, graph
  <1>6. ASSUME NEW n \in Nodes, NEW m \in Nodes, Settle(w, n, m) PROVE TypeOK'
    <2>1. [relation |-> "supersedes", from |-> "a"] \in Verdicts
      BY DEF Verdicts
    <2>2. Sound(At("older", {}, <<m, n, "relates_to">>, [relation |-> "supersedes", from |-> "a"]))
      BY <2>1, GraphAssumption, RelationEdge, AtSound DEF Pcs
    <2>3. writes' \in 0 .. MaxWrites
      BY <1>6, CountedType DEF Settle
    <2> QED BY <1>6, <2>2, <2>3, StateTypes, SweptType DEF Settle, graph
  <1>7. CASE Stop(w)
    <2>1. writes' \in 0 .. MaxWrites
      BY <1>7, CountedType DEF Stop
    <2> QED BY <1>7, <2>1, IdleSound, StateTypes, SweptType DEF Stop, graph
  <1> QED BY <1>1, <1>2, <1>3, <1>4, <1>5, <1>6, <1>7 DEF StageStep

LEMMA ReadStepType ==
  ASSUME TypeOK, NEW w \in Sweeps,
         \/ \E e \in Edges : Drop(w, e) \/ Repoint(w, e) \/ \E v \in Verdicts : Judge(w, e, v)
         \/ \E n \in Nodes : Walk(w, n)
         \/ Walked(w) \/ ListDone(w) \/ ReadOlder(w) \/ ReadNewer(w)
  PROVE  TypeOK'
  <1>0. UNCHANGED <<graph, client, writes>> => UNCHANGED <<consolidated, client, node, edge>>
    BY DEF graph
  <1>1. ASSUME NEW e \in Edges, Drop(w, e) PROVE TypeOK'
    <2>1. sweep[w].todo \ {<<e, "drop">>} \in SUBSET Todos
      BY FieldTypes
    <2>2. Sound([sweep[w] EXCEPT !.todo = sweep[w].todo \ {<<e, "drop">>}])
      BY <2>1, TodoSound
    <2>3. writes' \in 0 .. MaxWrites /\ UNCHANGED <<consolidated, client>>
      BY <1>1 DEF Drop, TypeOK
    <2> QED BY <1>1, <2>2, <2>3, LinkTypes, StateTypes, SweptType DEF Drop
  <1>2. ASSUME NEW e \in Edges, Repoint(w, e) PROVE TypeOK'
    <2> DEFINE T == sweep[w].todo \ {<<e, "repoint">>}
    <2>1. T \in SUBSET Todos /\ {e[2]} \in SUBSET Nodes /\ {} \in SUBSET Nodes
      BY FieldTypes DEF Edges
    <2>2. "walk" \in Pcs /\ "walk" \notin Judged /\ e # None
      BY GraphAssumption DEF Pcs, Judged
    <2> HIDE DEF T
    <2>3. Sound([pc |-> "walk", todo |-> T, edge |-> e, verdict |-> None,
                 open |-> {e[2]}, seen |-> {}, found |-> {}])
      BY <2>1, <2>2, RecordSound
    <2> QED BY <1>2, <2>3, SteadyType, Zenon DEF Repoint, T
  <1>3. ASSUME NEW e \in Edges, NEW v \in Verdicts, Judge(w, e, v) PROVE TypeOK'
    <2> DEFINE T == sweep[w].todo \ {<<e, "judge">>}
    <2>1. T \in SUBSET Todos /\ e # None /\ v # None
      BY FieldTypes, GraphAssumption
    <2>2. Goes(w, At("list", T, None, None)) \/ Goes(w, At("cut", T, e, v))
      BY <1>3 DEF Judge
    <2> HIDE DEF T
    <2>3. Sound(At("list", T, None, None)) /\ Sound(At("cut", T, e, v))
      BY <2>1, ListSound, AtSound DEF Pcs
    <2> QED BY <1>3, <2>2, <2>3, SteadyType DEF Judge
  <1>4. ASSUME NEW n \in Nodes, Walk(w, n) PROVE TypeOK'
    <2> DEFINE O == (sweep[w].open \ {n}) \cup Onward(w, n)
               S == sweep[w].seen \cup {n}
               F == sweep[w].found \cup {s \in Successors(n) : Alive(s)}
    <2>1. O \in SUBSET Nodes /\ S \in SUBSET Nodes /\ F \in SUBSET Nodes
      BY FieldTypes DEF Onward, Successors
    <2>2. Goes(w, [sweep[w] EXCEPT !.open = O, !.seen = S, !.found = F])
      BY <1>4 DEF Walk
    <2> HIDE DEF O, S, F
    <2> QED BY <1>4, <2>1, <2>2, WalkSound, SteadyType DEF Walk
  <1>5. CASE Walked(w)
    <2>1. sweep[w].pc = "walk" => Sound([sweep[w] EXCEPT !.pc = "move"])
      BY PcSound DEF Pcs, Late, Judged
    <2> QED BY <1>5, <2>1, BackSound, SteadyType DEF Walked
  <1>6. CASE ListDone(w)
    BY <1>6, IdleSound, SteadyType DEF ListDone
  <1>7. CASE ReadOlder(w)
    <2>1. sweep[w].pc = "older" => Sound([sweep[w] EXCEPT !.pc = "newer"])
      BY PcSound DEF Pcs, Late, Judged
    <2> QED BY <1>7, <2>1, BackSound, SteadyType DEF ReadOlder
  <1>8. CASE ReadNewer(w)
    <2>1. sweep[w].pc = "newer" => Sound([sweep[w] EXCEPT !.pc = "retire"])
      BY PcSound DEF Pcs, Late, Judged
    <2> QED BY <1>8, <2>1, BackSound, SteadyType DEF ReadNewer
  <1> QED BY <1>1, <1>2, <1>3, <1>4, <1>5, <1>6, <1>7, <1>8

LEMMA CutStepType ==
  ASSUME TypeOK, NEW w \in Sweeps,
         \/ \E n \in Nodes : MoveJoin(w, n)
         \/ MoveCut(w) \/ JudgedCut(w) \/ Relate(w) \/ Supersede(w)
  PROVE  TypeOK'
  <1>0. writes' \in 0 .. MaxWrites /\ UNCHANGED <<consolidated, client>>
    BY DEF MoveJoin, MoveCut, JudgedCut, Relate, Supersede, TypeOK
  <1>1. ASSUME NEW n \in Nodes, MoveJoin(w, n) PROVE TypeOK'
    BY <1>0, <1>1, BackSound, LinkTypes, StateTypes, SweptType DEF MoveJoin
  <1>2. CASE MoveCut(w)
    <2>1. sweep[w].pc = "move" => Sound([sweep[w] EXCEPT !.pc = "join"])
      BY PcSound DEF Pcs, Late, Judged
    <2> QED BY <1>0, <1>2, <2>1, BackSound, LinkTypes, StateTypes, SweptType DEF MoveCut
  <1>3. CASE JudgedCut(w)
    <2>1. sweep[w].pc = "cut" => Sound([sweep[w] EXCEPT !.pc = "relate"])
      BY PcSound DEF Pcs, Late, Judged
    <2> QED BY <1>0, <1>3, <2>1, BackSound, LinkTypes, StateTypes, SweptType DEF JudgedCut
  <1>4. CASE Relate(w)
    <2>1. sweep[w].pc = "relate" => Sound([sweep[w] EXCEPT !.pc = "older"])
      BY PcSound DEF Pcs, Late, Judged
    <2>2. edge' \in [Edges -> States] /\ node' \in [Nodes -> {"absent", "live", "retired"}]
      BY <1>4, LinkTypes, StateTypes DEF Relate
    <2> QED BY <1>0, <1>4, <2>1, <2>2, BackSound, SweptType DEF Relate
  <1>5. CASE Supersede(w)
    <2>1. edge' \in [Edges -> States] /\ node' \in [Nodes -> {"absent", "live", "retired"}]
      BY <1>5, RetiredType, StateTypes DEF Supersede, Retire
    <2> QED BY <1>0, <1>5, <2>1, BackSound, SweptType DEF Supersede
  <1> QED BY <1>1, <1>2, <1>3, <1>4, <1>5

LEMMA NextType == TypeOK /\ [Next]_vars => TypeOK'
  <1> SUFFICES ASSUME TypeOK, [Next]_vars PROVE TypeOK'
    OBVIOUS
  <1>1. CASE AuthorStep
    BY <1>1, CallStepType, WriteType DEF AuthorStep
  <1>2. CASE \E a, b \in Nodes : DiscoverLink(a, b) \/ ResolveCitation(a, b)
    BY <1>2, WriteType
  <1>3. ASSUME NEW w \in Sweeps, StageStep(w) \/ SweepStep(w) PROVE TypeOK'
    BY <1>3, StageStepType, ReadStepType, CutStepType DEF SweepStep
  <1>4. CASE UNCHANGED vars
    BY <1>4, Zenon DEF vars, graph, TypeOK
  <1> QED BY <1>1, <1>2, <1>3, <1>4 DEF Next

LEMMA InitType == Init => TypeOK
  <1> SUFFICES ASSUME Init PROVE TypeOK
    OBVIOUS
  <1>1. \A w \in Sweeps : sweep[w] \in Sweeper /\ SweepConsistent(sweep[w])
    BY IdleSound DEF Init, Sound
  <1>2. \A c \in Clients : client[c] \in Call /\ CallConsistent(client[c])
    BY NoCallFit DEF Init, Fit
  <1>3. /\ client \in [Clients -> Call] /\ sweep \in [Sweeps -> Sweeper]
        /\ \A c \in Clients : CallConsistent(client[c])
        /\ \A w \in Sweeps : SweepConsistent(sweep[w])
    BY <1>1, <1>2 DEF Init
  <1>4. /\ node \in [Nodes -> {"absent", "live", "retired"}]
        /\ edge \in [Edges -> {"none", "dead", "agent", "system"}]
        /\ consolidated \subseteq Episodes /\ writes \in 0 .. MaxWrites
    BY GraphAssumption DEF Init
  <1> QED BY <1>3, <1>4 DEF TypeOK

(* Every variable always has its type, and a sweep or a call that is past    *)
(* its first read knows what it is about.                                    *)
THEOREM TypeCorrect == Spec => []TypeOK
  BY InitType, NextType, PTL DEF Spec

-----------------------------------------------------------------------------
(* Nothing a retirement or a merge does makes an edge the system's, and the  *)
(* retired note loses its similarities.                                      *)

LEMMA RetiredSystem ==
  ASSUME NEW E \in [Edges -> States], NEW n, NEW s, NEW e \in Edges,
         Retired(E, n, s)[e] = "system"
  PROVE  E[e] = "system" /\ (e[3] = "similar_to" => n \notin {e[1], e[2]})
  <1> DEFINE C == SimilaritiesCut(E, n)
             R == Repointed(C, n, s)
  <1>1. C \in [Edges -> States] /\ R \in [Edges -> States]
    BY CutType, RepointedType
  <1>2. C[e] = "system" => E[e] = "system" /\ (e[3] = "similar_to" => n \notin {e[1], e[2]})
    BY DEF SimilaritiesCut
  <1>3. R[e] = "system" => C[e] = "system"
    <2> HIDE DEF C
    <2> QED BY DEF Repointed
  <1> HIDE DEF C, R
  <1>4. [R EXCEPT ![<<s, n, "supersedes">>] = "agent"][e] = "system" => R[e] = "system"
    BY <1>1
  <1> QED BY <1>2, <1>3, <1>4 DEF Retired, C, R

LEMMA MergedSystem ==
  ASSUME NEW E \in [Edges -> States], NEW n, NEW s, NEW e \in Edges,
         Merged(E, s, n)[e] = "system"
  PROVE  E[e] = "system"
  BY DEF Merged

(* An edge that becomes the system's: the insert's, of two live notes, and   *)
(* for all but similarities and duplicates unconnected ones.                 *)
LEMMA InsertSystem ==
  ASSUME TypeOK, NEW e, NEW f \in Edges, edge'[f] = "system"
  PROVE  /\ InsertIfLive(e) => edge[f] = "system" \/ (f = e /\ BothLive(f))
         /\ InsertIfUnconnected(e) =>
              edge[f] = "system" \/ (f = e /\ BothLive(f) /\ ~Connected(f[1], f[2]) /\ f[1] # f[2])
         /\ InvalidateEdge(e) => edge[f] = "system"
  BY StateTypes DEF InsertIfLive, InsertIfUnconnected, InsertEdge, InvalidateEdge, BothLive

-----------------------------------------------------------------------------
(* Similarities                                                              *)

LEMMA SimilarFrom ==
  ASSUME TypeOK, SimilarityJoinsLive,
         \A n \in Nodes : Alive(n) => Alive(n)',
         \A e \in Edges : edge'[e] = "system" /\ e[3] = "similar_to"
                           => edge[e] = "system" \/ BothLive(e)
  PROVE  SimilarityJoinsLive'
  BY DEF SimilarityJoinsLive, BothLive, Edges

LEMMA RetireSimilar ==
  ASSUME TypeOK, SimilarityJoinsLive, NEW n \in Nodes, NEW s, NEW E \in [Edges -> States],
         \A e \in Edges : E[e] = "system" => edge[e] = "system",
         node' = [node EXCEPT ![n] = "retired"], edge' = Retired(E, n, s)
  PROVE  SimilarityJoinsLive'
  <1> SUFFICES ASSUME NEW e \in Edges, edge'[e] = "system", e[3] = "similar_to"
               PROVE  BothLive(e)'
    BY DEF SimilarityJoinsLive
  <1>1. E[e] = "system" /\ n \notin {e[1], e[2]}
    BY RetiredSystem
  <1>2. BothLive(e)
    BY <1>1 DEF SimilarityJoinsLive
  <1> QED BY <1>1, <1>2, StateTypes DEF BothLive, Alive, Edges

LEMMA SimilarNext ==
  ASSUME TypeOK, SimilarityJoinsLive, [Next]_vars PROVE SimilarityJoinsLive'
  <1>0. ASSUME node' = node, edge' = edge PROVE SimilarityJoinsLive'
    BY <1>0 DEF SimilarityJoinsLive, BothLive, Alive
  <1>i. ASSUME node' = node,
               NEW e, InsertIfLive(e) \/ InsertIfUnconnected(e) \/ InvalidateEdge(e) \/ UNCHANGED edge
        PROVE  SimilarityJoinsLive'
    BY <1>0, <1>i, InsertSystem, SimilarFrom DEF Alive
  <1>r. ASSUME NEW n \in Nodes, NEW s, Retire(n, s) PROVE SimilarityJoinsLive'
    BY <1>0, <1>r, RetireSimilar, StateTypes DEF Retire
  <1>1. ASSUME NEW c \in Clients, LinkWrite(c) PROVE SimilarityJoinsLive'
    BY <1>1, SimilarFrom, StateTypes DEF LinkWrite, Alive
  <1>2. ASSUME NEW c \in Clients, NEW n \in Nodes, CreateWrite(c, n) PROVE SimilarityJoinsLive'
    BY <1>2, SimilarFrom, StateTypes DEF CreateWrite, Alive
  <1>3. ASSUME NEW n \in Nodes, NEW s, Invalidate(n, s) PROVE SimilarityJoinsLive'
    BY <1>3, <1>r DEF Invalidate
  <1>4. ASSUME NEW n \in Nodes, Restore(n) PROVE SimilarityJoinsLive'
    BY <1>4, SimilarFrom, StateTypes DEF Restore, Alive
  <1>5. ASSUME NEW a \in Nodes, NEW b \in Nodes, Merge(a, b) PROVE SimilarityJoinsLive'
    <2>1. Merged(edge, a, b) \in [Edges -> States]
      BY StateTypes, MergedType
    <2>2. \A e \in Edges : Merged(edge, a, b)[e] = "system" => edge[e] = "system"
      BY StateTypes, MergedSystem
    <2> QED BY <1>5, <2>1, <2>2, RetireSimilar DEF Merge
  <1>6. ASSUME NEW n \in Nodes, NEW S \in SUBSET Episodes, Distill(n, S)
        PROVE  SimilarityJoinsLive'
    BY <1>6, SimilarFrom, StateTypes DEF Distill, Alive
  <1>7. CASE AuthorStep
    <2>1. \A a, b \in Nodes : MarkDuplicate(a, b) => SimilarityJoinsLive'
      BY <1>i DEF MarkDuplicate
    <2>2. \A e \in Edges : Undo(e) => SimilarityJoinsLive'
      BY <1>i DEF Undo
    <2>3. \A c \in Clients :
            /\ \A a, b \in Nodes, t \in EdgeTypes : LinkStart(c, a, b, t) => SimilarityJoinsLive'
            /\ \A links : CreateStart(c, links) => SimilarityJoinsLive'
            /\ \A n \in Nodes : RequireLive(c, n) => SimilarityJoinsLive'
      BY <1>0 DEF LinkStart, CreateStart, RequireLive, graph
    <2> QED BY <1>1, <1>2, <1>3, <1>4, <1>5, <1>6, <1>7, <2>1, <2>2, <2>3 DEF AuthorStep
  <1>8. CASE \E a, b \in Nodes : DiscoverLink(a, b) \/ ResolveCitation(a, b)
    BY <1>8, <1>i DEF DiscoverLink, ResolveCitation
  <1>9. ASSUME NEW w \in Sweeps, StageStep(w) PROVE SimilarityJoinsLive'
    BY <1>9, <1>0 DEF StageStep, ListStranded, ListCrossProject, ListUntyped, ListOverCap,
         ListRevised, Lists, Reattach, Settle, Stop, graph
  <1>10. ASSUME NEW w \in Sweeps, SweepStep(w) PROVE SimilarityJoinsLive'
    <2>1. \A e \in Edges : Drop(w, e) => SimilarityJoinsLive'
      BY <1>i DEF Drop
    <2>2. \A n \in Nodes : MoveJoin(w, n) => SimilarityJoinsLive'
      BY <1>i DEF MoveJoin
    <2>3. MoveCut(w) \/ JudgedCut(w) \/ Relate(w) => SimilarityJoinsLive'
      BY <1>i DEF MoveCut, JudgedCut, Relate
    <2>4. Supersede(w) => SimilarityJoinsLive'
      <3>1. SUFFICES ASSUME Supersede(w) PROVE SimilarityJoinsLive'
        OBVIOUS
      <3>2. Older(w) \in Nodes
        BY <3>1, FieldTypes DEF Supersede, Late, Older, Edges
      <3> QED BY <3>1, <3>2, <1>0, <1>r DEF Supersede
    <2>5. /\ \A e \in Edges, v \in Verdicts : Judge(w, e, v) => SimilarityJoinsLive'
          /\ \A e \in Edges : Repoint(w, e) => SimilarityJoinsLive'
          /\ \A n \in Nodes : Walk(w, n) => SimilarityJoinsLive'
          /\ Walked(w) \/ ReadOlder(w) \/ ReadNewer(w) \/ ListDone(w) => SimilarityJoinsLive'
      BY <1>0 DEF Judge, Repoint, Walk, Walked, ReadOlder, ReadNewer, ListDone, graph
    <2> QED BY <1>10, <2>1, <2>2, <2>3, <2>4, <2>5 DEF SweepStep
  <1>11. CASE UNCHANGED vars
    BY <1>0, <1>11 DEF vars, graph
  <1> QED BY <1>7, <1>8, <1>9, <1>10, <1>11 DEF Next

(* A similarity the system drew joins two live notes.                        *)
THEOREM SimilaritiesJoinLive == Spec => []SimilarityJoinsLive
  <1>1. Init => SimilarityJoinsLive
    BY GraphAssumption DEF Init, SimilarityJoinsLive, BothLive, Alive, Edges
  <1>2. TypeOK /\ SimilarityJoinsLive /\ [Next]_vars => SimilarityJoinsLive'
    BY SimilarNext
  <1> QED BY <1>1, <1>2, TypeCorrect, PTL DEF Spec

-----------------------------------------------------------------------------
(* One relation of the system's between two notes.  That a distillation      *)
(* keeps it needs that the system has no edge at a note not written yet.     *)

SystemEndsExist == \A e \in Edges : edge[e] = "system" => Exists(e[1]) /\ Exists(e[2])

RInv == SystemEndsExist /\ OneSystemRelation

Joins(e) == e[3] \in RelationTypes

LEMMA RelationFrom ==
  ASSUME TypeOK, RInv, \A n \in Nodes : Exists(n) => Exists(n)',
         \A e \in Edges : edge'[e] = "system" => edge[e] = "system"
  PROVE  RInv'
  <1>1. SystemEndsExist'
    BY DEF RInv, SystemEndsExist, Edges
  <1>2. OneSystemRelation'
    BY DEF RInv, OneSystemRelation, SystemRelations
  <1> QED BY <1>1, <1>2 DEF RInv

LEMMA RetireRelation ==
  ASSUME TypeOK, RInv, NEW n \in Nodes, NEW s, NEW E \in [Edges -> States],
         \A e \in Edges : E[e] = "system" => edge[e] = "system",
         node' = [node EXCEPT ![n] = "retired"], edge' = Retired(E, n, s)
  PROVE  RInv'
  <1>1. \A m \in Nodes : Exists(m) => Exists(m)'
    BY StateTypes DEF Exists
  <1>2. \A e \in Edges : edge'[e] = "system" => edge[e] = "system"
    BY RetiredSystem
  <1> QED BY <1>1, <1>2, RelationFrom

(* One edge is drawn, between live notes, and it joins them as the only one  *)
(* that does, or not at all.                                                 *)
LEMMA DrawnRelation ==
  ASSUME TypeOK, RInv, node' = node, NEW e,
         \A f \in Edges : edge'[f] = "system" =>
            \/ edge[f] = "system"
            \/ f = e /\ BothLive(f) /\ (Joins(f) => ~Connected(f[1], f[2]))
  PROVE  RInv'
  <1>1. SystemEndsExist'
    BY DEF RInv, SystemEndsExist, Exists, BothLive, Alive
  <1>2. OneSystemRelation'
    <2> SUFFICES ASSUME NEW f \in Edges, NEW g \in Edges,
                        edge'[f] = "system", Joins(f), edge'[g] = "system", Joins(g),
                        {f[1], f[2]} = {g[1], g[2]}
                 PROVE  f = g
      BY DEF OneSystemRelation, SystemRelations, Joins
    <2>1. \A x, y \in Edges : {x[1], x[2]} = {y[1], y[2]} /\ edge[y] = "system"
                              => Connected(x[1], x[2])
      BY DEF Connected, Between, Drawn
    <2>2. CASE edge[f] = "system" /\ edge[g] = "system"
      BY <2>2 DEF RInv, OneSystemRelation, SystemRelations, Joins
    <2>3. CASE edge[f] = "system" /\ edge[g] # "system"
      BY <2>1, <2>3
    <2>4. CASE edge[f] # "system" /\ edge[g] = "system"
      BY <2>1, <2>4
    <2>5. CASE edge[f] # "system" /\ edge[g] # "system"
      BY <2>5
    <2> QED BY <2>2, <2>3, <2>4, <2>5
  <1> QED BY <1>1, <1>2 DEF RInv

LEMMA DistillRelation ==
  ASSUME TypeOK, RInv, NEW n \in Nodes, NEW S \in SUBSET Episodes, Distill(n, S)
  PROVE  RInv'
  <1>1. /\ \A m \in Nodes : Exists(m) => Exists(m)'
        /\ Exists(n)' /\ ~Exists(n) /\ n \notin S
    BY StateTypes DEF Distill, Exists
  <1>2. \A m \in S : m \in Nodes /\ Exists(m)
    BY StateTypes, GraphAssumption DEF Distill, Exists, Alive
  <1>3. \A e \in Edges : edge'[e] = "system" =>
           \/ edge[e] = "system" /\ n \notin {e[1], e[2]}
           \/ e[1] = n /\ e[2] \in S /\ e[3] = "derived_from"
    BY <1>1, StateTypes DEF Distill, RInv, SystemEndsExist
  <1>4. SystemEndsExist'
    BY <1>1, <1>2, <1>3 DEF RInv, SystemEndsExist, Edges
  <1>5. OneSystemRelation'
    <2> SUFFICES ASSUME NEW f \in Edges, NEW g \in Edges,
                        edge'[f] = "system", Joins(f), edge'[g] = "system", Joins(g),
                        {f[1], f[2]} = {g[1], g[2]}
                 PROVE  f = g
      BY DEF OneSystemRelation, SystemRelations, Joins
    <2>1. CASE n \notin {f[1], f[2]}
      BY <1>3, <2>1 DEF RInv, OneSystemRelation, SystemRelations, Joins
    <2>2. CASE n \in {f[1], f[2]}
      <3>1. /\ f[1] = n /\ f[2] \in S /\ f[3] = "derived_from"
            /\ g[1] = n /\ g[2] \in S /\ g[3] = "derived_from"
        BY <1>3, <2>2
      <3>2. f[2] = g[2]
        BY <1>1, <3>1
      <3> QED BY <3>1, <3>2 DEF Edges
    <2> QED BY <2>1, <2>2
  <1> QED BY <1>4, <1>5 DEF RInv

LEMMA RelationNext ==
  ASSUME TypeOK, RInv, [Next]_vars PROVE RInv'
  <1>0. ASSUME node' = node, edge' = edge PROVE RInv'
    BY <1>0, RelationFrom DEF Exists
  <1>u. ASSUME node' = node, NEW e, InsertIfUnconnected(e) \/ InvalidateEdge(e) \/ UNCHANGED edge
        PROVE  RInv'
    BY <1>0, <1>u, InsertSystem, DrawnRelation
  <1>i. ASSUME node' = node, NEW e, InsertIfLive(e), e[3] \notin RelationTypes PROVE RInv'
    BY <1>i, InsertSystem, DrawnRelation DEF Joins
  <1>r. ASSUME NEW n \in Nodes, NEW s, Retire(n, s) PROVE RInv'
    BY <1>0, <1>r, RetireRelation, StateTypes DEF Retire
  <1>1. ASSUME NEW c \in Clients, LinkWrite(c) PROVE RInv'
    BY <1>1, RelationFrom, StateTypes DEF LinkWrite, Exists
  <1>2. ASSUME NEW c \in Clients, NEW n \in Nodes, CreateWrite(c, n) PROVE RInv'
    BY <1>2, RelationFrom, StateTypes DEF CreateWrite, Exists
  <1>3. ASSUME NEW n \in Nodes, NEW s, Invalidate(n, s) PROVE RInv'
    BY <1>3, <1>r DEF Invalidate
  <1>4. ASSUME NEW n \in Nodes, Restore(n) PROVE RInv'
    BY <1>4, RelationFrom, StateTypes DEF Restore, Exists
  <1>5. ASSUME NEW a \in Nodes, NEW b \in Nodes, Merge(a, b) PROVE RInv'
    <2>1. Merged(edge, a, b) \in [Edges -> States]
      BY StateTypes, MergedType
    <2>2. \A e \in Edges : Merged(edge, a, b)[e] = "system" => edge[e] = "system"
      BY StateTypes, MergedSystem
    <2> QED BY <1>5, <2>1, <2>2, RetireRelation DEF Merge
  <1>6. CASE AuthorStep
    <2>1. \A a, b \in Nodes : MarkDuplicate(a, b) => RInv'
      BY <1>i DEF MarkDuplicate, RelationTypes
    <2>2. \A e \in Edges : Undo(e) => RInv'
      BY <1>u DEF Undo
    <2>3. \A c \in Clients :
            /\ \A a, b \in Nodes, t \in EdgeTypes : LinkStart(c, a, b, t) => RInv'
            /\ \A links : CreateStart(c, links) => RInv'
            /\ \A n \in Nodes : RequireLive(c, n) => RInv'
      BY <1>0 DEF LinkStart, CreateStart, RequireLive, graph
    <2> QED BY <1>1, <1>2, <1>3, <1>4, <1>5, <1>6, <2>1, <2>2, <2>3, DistillRelation DEF AuthorStep
  <1>7. CASE \E a, b \in Nodes : DiscoverLink(a, b) \/ ResolveCitation(a, b)
    <2>1. ASSUME NEW a \in Nodes, NEW b \in Nodes, DiscoverLink(a, b) PROVE RInv'
      BY <2>1, <1>i DEF DiscoverLink, RelationTypes
    <2>2. ASSUME NEW a \in Nodes, NEW b \in Nodes, ResolveCitation(a, b) PROVE RInv'
      BY <2>2, <1>u DEF ResolveCitation
    <2> QED BY <1>7, <2>1, <2>2
  <1>8. ASSUME NEW w \in Sweeps, StageStep(w) PROVE RInv'
    BY <1>8, <1>0 DEF StageStep, ListStranded, ListCrossProject, ListUntyped, ListOverCap,
         ListRevised, Lists, Reattach, Settle, Stop, graph
  <1>9. ASSUME NEW w \in Sweeps, SweepStep(w) PROVE RInv'
    <2>1. \A e \in Edges : Drop(w, e) => RInv'
      BY <1>u DEF Drop
    <2>2. \A n \in Nodes : MoveJoin(w, n) => RInv'
      BY <1>u DEF MoveJoin
    <2>3. MoveCut(w) \/ JudgedCut(w) \/ Relate(w) => RInv'
      BY <1>u DEF MoveCut, JudgedCut, Relate
    <2>4. Supersede(w) => RInv'
      <3>1. SUFFICES ASSUME Supersede(w) PROVE RInv'
        OBVIOUS
      <3>2. Older(w) \in Nodes
        BY <3>1, FieldTypes DEF Supersede, Late, Older, Edges
      <3> QED BY <3>1, <3>2, <1>0, <1>r DEF Supersede
    <2>5. /\ \A e \in Edges, v \in Verdicts : Judge(w, e, v) => RInv'
          /\ \A e \in Edges : Repoint(w, e) => RInv'
          /\ \A n \in Nodes : Walk(w, n) => RInv'
          /\ Walked(w) \/ ReadOlder(w) \/ ReadNewer(w) \/ ListDone(w) => RInv'
      BY <1>0 DEF Judge, Repoint, Walk, Walked, ReadOlder, ReadNewer, ListDone, graph
    <2> QED BY <1>9, <2>1, <2>2, <2>3, <2>4, <2>5 DEF SweepStep
  <1>10. CASE UNCHANGED vars
    BY <1>0, <1>10 DEF vars, graph
  <1> QED BY <1>6, <1>7, <1>8, <1>9, <1>10 DEF Next

(* The system never draws a second relation between two notes.               *)
THEOREM RelationsAreSingle == Spec => []OneSystemRelation
  <1>1. Init => RInv
    <2> SUFFICES ASSUME Init PROVE RInv
      OBVIOUS
    <2>1. \A e \in Edges : edge[e] = "system" => e \in Related
      BY DEF Init
    <2>2. SystemEndsExist
      BY <2>1, GraphAssumption DEF Init, SystemEndsExist, Exists, Edges
    <2>3. OneSystemRelation
      BY <2>1, GraphAssumption DEF OneSystemRelation, SystemRelations
    <2> QED BY <2>2, <2>3 DEF RInv
  <1>2. TypeOK /\ RInv /\ [Next]_vars => RInv'
    BY RelationNext
  <1>3. RInv => OneSystemRelation
    BY DEF RInv
  <1> QED BY <1>1, <1>2, <1>3, TypeCorrect, PTL DEF Spec

-----------------------------------------------------------------------------
(* What authors said.  The stages that move, unlink or recheck relations cut *)
(* by a list that may be old; without them the sweep only ever cuts          *)
(* similarities, which is the first half of the invariant.  The other half:  *)
(* no author joins a live note with itself, for a merge would lose that.     *)

Stale == {"repoint", "unlink", "recheck"}

CutsSimilarities ==
    \A w \in Sweeps :
        /\ sweep[w].pc \notin {"walk", "move", "join"}
        /\ \A x \in sweep[w].todo : x[1][3] = "similar_to" /\ x[2] # "repoint"
        /\ sweep[w].pc = "cut" => sweep[w].edge[3] = "similar_to"

CallJoins(x) ==
    /\ x.pc = "link" => Exists(x.src)
    /\ \A l \in x.links : Exists(l[1]) /\ (x.pc = "link" => l[1] # x.src)

CallsJoinOthers == \A c \in Clients : CallJoins(client[c])

SayersExist ==
    /\ \A e \in Edges : edge[e] = "agent" => Exists(e[1])
    /\ \A w \in Sweeps : sweep[w].pc = "retire" => Exists(Newer(w))

LoopsAreRetired ==
    \A e \in Edges : edge[e] = "agent" /\ e[1] = e[2]
                     => e[3] = "supersedes" /\ node[e[1]] = "retired"

AInv == CutsSimilarities /\ CallsJoinOthers /\ LoopsAreRetired /\ SayersExist

LEMMA CutsFrom ==
  ASSUME TypeOK, CutsSimilarities, NEW w \in Sweeps, NEW s, Goes(w, s),
         s.pc \notin {"walk", "move", "join"},
         \A x \in s.todo : x[1][3] = "similar_to" /\ x[2] # "repoint",
         s.pc = "cut" => s.edge[3] = "similar_to"
  PROVE  CutsSimilarities'
  BY DEF TypeOK, Goes, CutsSimilarities

LEMMA CutsNext ==
  ASSUME TypeOK, CutsSimilarities, Stages \cap Stale = {}, [Next]_vars
  PROVE  CutsSimilarities'
  <1>0. sweep' = sweep => CutsSimilarities'
    BY DEF CutsSimilarities
  <1>a. \A pc, T, e, v : LET s == At(pc, T, e, v)
                        IN  s.pc = pc /\ s.todo = T /\ s.edge = e
    BY DEF At
  <1>i. Idle.pc = "idle" /\ Idle.todo = {}
    BY <1>a DEF Idle
  <1>b. ASSUME NEW w \in Sweeps, Goes(w, Back(w)) PROVE CutsSimilarities'
    <2>1. Back(w).pc = "list" /\ Back(w).todo = sweep[w].todo
      BY <1>a DEF Back
    <2> QED BY <1>b, <2>1, CutsFrom DEF CutsSimilarities
  <1>p. ASSUME NEW w \in Sweeps, NEW p \in {"relate", "older", "newer", "retire"},
               Goes(w, [sweep[w] EXCEPT !.pc = p])
        PROVE  CutsSimilarities'
    <2>1. sweep[w] \in Sweeper
      BY DEF TypeOK
    <2>2. \A s \in Sweeper : LET t == [s EXCEPT !.pc = p] IN t.pc = p /\ t.todo = s.todo
      BY DEF Sweeper
    <2> QED BY <1>p, <2>1, <2>2, CutsFrom DEF CutsSimilarities
  <1>l. ASSUME NEW w \in Sweeps, NEW T, Lists(w, T),
               \A x \in T : x[1][3] = "similar_to" /\ x[2] # "repoint"
        PROVE  CutsSimilarities'
    <2>1. Goes(w, At("list", T, None, None))
      BY <1>l DEF Lists
    <2> QED BY <1>a, <1>l, <2>1, CutsFrom
  <1>1. ASSUME NEW w \in Sweeps, StageStep(w) PROVE CutsSimilarities'
    <2>1. ~ListStranded(w) /\ ~ListCrossProject(w) /\ \A S : ~ListRevised(w, S)
      BY DEF ListStranded, ListCrossProject, ListRevised, Stale
    <2>2. ListUntyped(w) => CutsSimilarities'
      BY <1>l DEF ListUntyped
    <2>3. \A S : ListOverCap(w, S) => CutsSimilarities'
      BY <1>l DEF ListOverCap
    <2>4. ASSUME NEW n \in Nodes, NEW m \in Nodes, NEW v \in Verdicts, Reattach(w, n, m, v)
          PROVE  CutsSimilarities'
      BY <1>a, <2>4, CutsFrom DEF Reattach
    <2>5. ASSUME NEW n \in Nodes, NEW m \in Nodes, Settle(w, n, m)
          PROVE  CutsSimilarities'
      BY <1>a, <2>5, CutsFrom DEF Settle
    <2>6. Stop(w) => CutsSimilarities'
      BY <1>i, CutsFrom DEF Stop
    <2> QED BY <1>1, <2>1, <2>2, <2>3, <2>4, <2>5, <2>6 DEF StageStep
  <1>2. ASSUME NEW w \in Sweeps, SweepStep(w) PROVE CutsSimilarities'
    <2>1. /\ ~Walked(w) /\ ~MoveCut(w)
          /\ \A n \in Nodes : ~Walk(w, n) /\ ~MoveJoin(w, n)
          /\ \A e \in Edges : ~Repoint(w, e)
      BY DEF CutsSimilarities, Walked, MoveCut, Walk, MoveJoin, Repoint
    <2>2. ASSUME NEW e \in Edges, Drop(w, e) PROVE CutsSimilarities'
      <3> DEFINE T == sweep[w].todo \ {<<e, "drop">>}
                 x == [sweep[w] EXCEPT !.todo = T]
      <3>1. sweep[w] \in Sweeper /\ sweep[w].pc = "list"
        BY <2>2 DEF TypeOK, Drop
      <3>2. \A s \in Sweeper : \A U : LET t == [s EXCEPT !.todo = U] IN t.pc = s.pc /\ t.todo = U
        BY DEF Sweeper
      <3>3. Goes(w, x)
        BY <2>2 DEF Drop
      <3>4. \A y \in T : y[1][3] = "similar_to" /\ y[2] # "repoint"
        BY DEF CutsSimilarities
      <3> HIDE DEF T
      <3>5. x.pc = "list" /\ x.todo = T
        BY <3>1, <3>2
      <3> HIDE DEF x
      <3> QED BY <3>3, <3>4, <3>5, CutsFrom
    <2>3. ASSUME NEW e \in Edges, NEW v \in Verdicts, Judge(w, e, v) PROVE CutsSimilarities'
      <3> DEFINE T == sweep[w].todo \ {<<e, "judge">>}
      <3>1. Goes(w, At("list", T, None, None)) \/ Goes(w, At("cut", T, e, v))
        BY <2>3 DEF Judge
      <3>2. e[3] = "similar_to"
        BY <2>3 DEF Judge, CutsSimilarities
      <3>3. \A x \in T : x[1][3] = "similar_to" /\ x[2] # "repoint"
        BY DEF CutsSimilarities
      <3> HIDE DEF T
      <3> QED BY <1>a, <3>1, <3>2, <3>3, CutsFrom
    <2>4. CASE ListDone(w)
      BY <1>i, <2>4, CutsFrom DEF ListDone
    <2>5. CASE JudgedCut(w)
      BY <1>b, <1>p, <2>5 DEF JudgedCut
    <2>6. CASE Relate(w)
      BY <1>b, <1>p, <2>6 DEF Relate
    <2>7. CASE ReadOlder(w) \/ ReadNewer(w) \/ Supersede(w)
      BY <1>b, <1>p, <2>7 DEF ReadOlder, ReadNewer, Supersede
    <2> QED BY <1>2, <2>1, <2>2, <2>3, <2>4, <2>5, <2>6, <2>7 DEF SweepStep
  <1>3. CASE AuthorStep
    BY <1>0, <1>3 DEF AuthorStep, LinkStart, CreateStart, RequireLive, CreateWrite, LinkWrite,
         Invalidate, Restore, Merge, MarkDuplicate, Undo, Distill
  <1>4. CASE \E a, b \in Nodes : DiscoverLink(a, b) \/ ResolveCitation(a, b)
    BY <1>0, <1>4 DEF DiscoverLink, ResolveCitation
  <1>5. CASE UNCHANGED vars
    BY <1>0, <1>5 DEF vars
  <1> QED BY <1>1, <1>2, <1>3, <1>4, <1>5 DEF Next

(* A call in flight names others, which exist.                               *)
LEMMA JoinsFrom ==
  ASSUME TypeOK, CallsJoinOthers, \A n : Exists(n) => Exists(n)',
         client' = client \/ \E c \in Clients : client' = [client EXCEPT ![c] = NoCall]
  PROVE  CallsJoinOthers'
  <1>1. NoCall.links = {} /\ NoCall.pc # "link"
    BY DEF NoCall
  <1> SUFFICES ASSUME NEW c \in Clients PROVE CallJoins(client[c])'
    BY DEF CallsJoinOthers
  <1>2. client'[c] = client[c] \/ client'[c] = NoCall
    BY DEF TypeOK
  <1> QED BY <1>1, <1>2 DEF CallsJoinOthers, CallJoins

LEMMA JoinsSet ==
  ASSUME TypeOK, CallsJoinOthers, node' = node, NEW c \in Clients, NEW x,
         client' = [client EXCEPT ![c] = x], CallJoins(x)
  PROVE  CallsJoinOthers'
  <1> SUFFICES ASSUME NEW k \in Clients PROVE CallJoins(client[k])'
    BY DEF CallsJoinOthers
  <1>1. client'[k] = IF k = c THEN x ELSE client[k]
    BY DEF TypeOK
  <1>2. CallJoins(client'[k])
    BY <1>1 DEF CallsJoinOthers
  <1> QED BY <1>2 DEF CallJoins, Exists

LEMMA JoinsNext ==
  ASSUME TypeOK, CallsJoinOthers, [Next]_vars PROVE CallsJoinOthers'
  <1>0. node' = node /\ client' = client => CallsJoinOthers'
    BY JoinsFrom DEF Exists
  <1>1. ASSUME NEW c \in Clients, NEW a \in Nodes, NEW b \in Nodes, NEW t \in EdgeTypes,
               LinkStart(c, a, b, t)
        PROVE  CallsJoinOthers'
    <2> DEFINE x == [pc |-> "link", src |-> a, links |-> {<<b, t>>}, unchecked |-> {b}]
    <2>1. x.src = a /\ x.links = {<<b, t>>}
      OBVIOUS
    <2>2. client' = [client EXCEPT ![c] = x] /\ node' = node /\ a # b /\ Alive(a) /\ Exists(b)
      BY <1>1, Zenon DEF LinkStart, graph
    <2> HIDE DEF x
    <2>3. CallJoins(x)
      BY <2>1, <2>2 DEF CallJoins, Exists, Alive
    <2> QED BY <2>2, <2>3, JoinsSet
  <1>2. ASSUME NEW c \in Clients, NEW links \in LinkSets,
               CreateStart(c, links)
        PROVE  CallsJoinOthers'
    <2> DEFINE x == [pc |-> "create", src |-> None, links |-> links,
                     unchecked |-> {l[1] : l \in links}]
    <2>1. x.pc # "link" /\ x.links = links
      OBVIOUS
    <2>2. client' = [client EXCEPT ![c] = x] /\ node' = node
      BY <1>2, Zenon DEF CreateStart, graph
    <2> HIDE DEF x
    <2>3. \A l \in links : Exists(l[1])
      BY <1>2 DEF CreateStart
    <2>4. CallJoins(x)
      BY <2>1, <2>3 DEF CallJoins
    <2> QED BY <2>2, <2>4, JoinsSet
  <1>3. ASSUME NEW c \in Clients, NEW n \in Nodes, RequireLive(c, n) PROVE CallsJoinOthers'
    <2> DEFINE x == [client[c] EXCEPT !.unchecked = client[c].unchecked \ {n}]
    <2>1. client[c] \in Call
      BY DEF TypeOK
    <2>2. \A s \in Call : \A U : LET y == [s EXCEPT !.unchecked = U]
                             IN  y.pc = s.pc /\ y.src = s.src /\ y.links = s.links
      BY DEF Call
    <2>3. x.pc = client[c].pc /\ x.src = client[c].src /\ x.links = client[c].links
      BY <2>1, <2>2
    <2>4. /\ client' = [client EXCEPT ![c] = x] \/ client' = [client EXCEPT ![c] = NoCall]
          /\ node' = node
      BY <1>3 DEF RequireLive, graph
    <2> HIDE DEF x
    <2>5. CallJoins(x)
      BY <2>3 DEF CallsJoinOthers, CallJoins
    <2>6. node' = node => \A m : Exists(m) => Exists(m)'
      BY DEF Exists
    <2> QED BY <2>4, <2>5, <2>6, JoinsSet, JoinsFrom
  <1>4. ASSUME NEW c \in Clients, NEW n \in Nodes, CreateWrite(c, n) PROVE CallsJoinOthers'
    <2>1. \A m : Exists(m) => Exists(m)'
      BY <1>4, StateTypes DEF CreateWrite, Exists
    <2> QED BY <1>4, <2>1, JoinsFrom DEF CreateWrite
  <1>5. ASSUME NEW c \in Clients, LinkWrite(c) PROVE CallsJoinOthers'
    BY <1>5, JoinsFrom DEF LinkWrite, Exists
  <1>6. ASSUME client' = client,
               \E n \in Nodes, s \in {"live", "retired"} : node' = [node EXCEPT ![n] = s]
        PROVE  CallsJoinOthers'
    <2>1. \A m : Exists(m) => Exists(m)'
      BY <1>6, StateTypes DEF Exists
    <2> QED BY <1>6, <2>1, JoinsFrom
  <1>7. ASSUME NEW n \in Nodes, NEW s, Retire(n, s), client' = client PROVE CallsJoinOthers'
    BY <1>0, <1>6, <1>7 DEF Retire
  <1>8. CASE AuthorStep
    <2>1. /\ \A n \in Nodes, s \in Nodes \cup {None} : Invalidate(n, s) => CallsJoinOthers'
          /\ \A n \in Nodes : Restore(n) => CallsJoinOthers'
          /\ \A a, b \in Nodes : Merge(a, b) => CallsJoinOthers'
          /\ \A n \in Nodes, S \in SUBSET Episodes : Distill(n, S) => CallsJoinOthers'
      BY <1>6, <1>7 DEF Invalidate, Restore, Merge, Distill
    <2>2. /\ \A a, b \in Nodes : MarkDuplicate(a, b) => CallsJoinOthers'
          /\ \A e \in Edges : Undo(e) => CallsJoinOthers'
      BY <1>0 DEF MarkDuplicate, Undo
    <2> QED BY <1>1, <1>2, <1>3, <1>4, <1>5, <1>8, <2>1, <2>2 DEF AuthorStep
  <1>9. CASE \E a, b \in Nodes : DiscoverLink(a, b) \/ ResolveCitation(a, b)
    BY <1>0, <1>9 DEF DiscoverLink, ResolveCitation
  <1>10. ASSUME NEW w \in Sweeps, StageStep(w) PROVE CallsJoinOthers'
    BY <1>10, <1>0 DEF StageStep, ListStranded, ListCrossProject, ListUntyped, ListOverCap,
         ListRevised, Lists, Reattach, Settle, Stop, graph
  <1>11. ASSUME NEW w \in Sweeps, SweepStep(w) PROVE CallsJoinOthers'
    <2>1. Supersede(w) => CallsJoinOthers'
      <3>1. SUFFICES ASSUME Supersede(w) PROVE CallsJoinOthers'
        OBVIOUS
      <3>2. Older(w) \in Nodes
        BY <3>1, FieldTypes DEF Supersede, Late, Older, Edges
      <3> QED BY <3>1, <3>2, <1>0, <1>7 DEF Supersede
    <2> QED BY <1>11, <1>0, <2>1 DEF SweepStep, Drop, MoveJoin, MoveCut, JudgedCut, Relate, Judge,
            Repoint, Walk, Walked, ReadOlder, ReadNewer, ListDone, graph
  <1>12. CASE UNCHANGED vars
    BY <1>0, <1>12 DEF vars, graph
  <1> QED BY <1>8, <1>9, <1>10, <1>11, <1>12 DEF Next

-----------------------------------------------------------------------------
(* Loops                                                                     *)

LEMMA LoopsFrom ==
  ASSUME TypeOK, LoopsAreRetired, \A n \in Nodes : node[n] = "retired" => node'[n] = "retired",
         \A e \in Edges : edge'[e] = "agent" /\ e[1] = e[2] => edge[e] = "agent"
  PROVE  LoopsAreRetired'
  BY DEF LoopsAreRetired, Edges

LEMMA RetiredLoops ==
  ASSUME TypeOK, LoopsAreRetired, NEW n \in Nodes, NEW s, NEW E \in [Edges -> States],
         \A e \in Edges : E[e] = "agent" /\ e[1] = e[2] => edge[e] = "agent",
         node' = [node EXCEPT ![n] = "retired"], edge' = Retired(E, n, s)
  PROVE  LoopsAreRetired'
  <1> DEFINE C == SimilaritiesCut(E, n)
             R == Repointed(C, n, s)
  <1>1. C \in [Edges -> States] /\ R \in [Edges -> States]
    BY CutType, RepointedType
  <1>2. \A e \in Edges : C[e] = "agent" => E[e] = "agent"
    BY DEF SimilaritiesCut
  <1>3. \A e \in Edges : R[e] = "agent" /\ e[1] = e[2] => C[e] = "agent"
    <2> HIDE DEF C
    <2> QED BY DEF Repointed
  <1> HIDE DEF C, R
  <1>4. \A e \in Edges : [R EXCEPT ![<<s, n, "supersedes">>] = "agent"][e] = "agent"
                          => R[e] = "agent" \/ (e[2] = n /\ e[3] = "supersedes")
    BY <1>1
  <1>5. \A e \in Edges : edge'[e] = "agent" /\ e[1] = e[2]
                     => edge[e] = "agent" \/ (e[2] = n /\ e[3] = "supersedes")
    BY <1>2, <1>3, <1>4 DEF Retired, C, R
  <1>6. /\ node'[n] = "retired"
        /\ \A m \in Nodes : node[m] = "retired" => node'[m] = "retired"
    BY StateTypes
  <1> QED BY <1>5, <1>6 DEF LoopsAreRetired, Edges

LEMMA LoopsNext ==
  ASSUME TypeOK, CallsJoinOthers, LoopsAreRetired, [Next]_vars PROVE LoopsAreRetired'
  <1>0. ASSUME node' = node, edge' = edge PROVE LoopsAreRetired'
    BY <1>0, LoopsFrom
  <1>i. ASSUME node' = node,
               NEW e, InsertIfLive(e) \/ InsertIfUnconnected(e) \/ InvalidateEdge(e) \/ UNCHANGED edge
        PROVE  LoopsAreRetired'
    <2>1. \A f \in Edges : edge'[f] = "agent" => edge[f] = "agent"
      BY <1>i, StateTypes DEF InsertIfLive, InsertIfUnconnected, InsertEdge, InvalidateEdge
    <2> QED BY <1>i, <2>1, LoopsFrom
  <1>r. ASSUME NEW n \in Nodes, NEW s, Retire(n, s) PROVE LoopsAreRetired'
    BY <1>0, <1>r, RetiredLoops, StateTypes DEF Retire
  <1>1. ASSUME NEW c \in Clients, LinkWrite(c) PROVE LoopsAreRetired'
    <2>1. \A e \in Edges : edge'[e] = "agent" /\ e[1] = e[2] => edge[e] = "agent"
      BY <1>1, StateTypes DEF LinkWrite, CallsJoinOthers, CallJoins
    <2> QED BY <1>1, <2>1, LoopsFrom DEF LinkWrite
  <1>2. ASSUME NEW c \in Clients, NEW n \in Nodes, CreateWrite(c, n) PROVE LoopsAreRetired'
    <2>1. \A e \in Edges : edge'[e] = "agent" /\ e[1] = e[2] => edge[e] = "agent"
      BY <1>2, StateTypes DEF CreateWrite, CallsJoinOthers, CallJoins
    <2>2. \A m \in Nodes : node[m] = "retired" => node'[m] = "retired"
      BY <1>2, StateTypes DEF CreateWrite, Exists
    <2> QED BY <2>1, <2>2, LoopsFrom
  <1>3. ASSUME NEW n \in Nodes, NEW s, Invalidate(n, s) PROVE LoopsAreRetired'
    BY <1>3, <1>r DEF Invalidate
  <1>4. ASSUME NEW n \in Nodes, Restore(n) PROVE LoopsAreRetired'
    <2>1. \A e \in Edges : edge'[e] = "agent" =>
             edge[e] = "agent" /\ ~(e[2] = n /\ e[3] = "supersedes")
      BY <1>4, StateTypes DEF Restore, Drawn
    <2>2. \A e \in Edges : edge'[e] = "agent" /\ e[1] = e[2] => e[1] # n
      BY <2>1 DEF LoopsAreRetired
    <2>3. \A m \in Nodes \ {n} : node'[m] = node[m]
      BY <1>4, StateTypes DEF Restore
    <2> QED BY <2>1, <2>2, <2>3 DEF LoopsAreRetired, Edges
  <1>5. ASSUME NEW a \in Nodes, NEW b \in Nodes, Merge(a, b) PROVE LoopsAreRetired'
    <2>1. Merged(edge, a, b) \in [Edges -> States]
      BY StateTypes, MergedType
    <2>2. \A e \in Edges : Merged(edge, a, b)[e] = "agent" /\ e[1] = e[2] => edge[e] = "agent"
      BY DEF Merged
    <2> QED BY <1>5, <2>1, <2>2, RetiredLoops DEF Merge
  <1>6. ASSUME NEW n \in Nodes, NEW S \in SUBSET Episodes, Distill(n, S) PROVE LoopsAreRetired'
    <2>1. \A e \in Edges : edge'[e] = "agent" => edge[e] = "agent"
      BY <1>6, StateTypes DEF Distill
    <2>2. \A m \in Nodes : node[m] = "retired" => node'[m] = "retired"
      BY <1>6, StateTypes DEF Distill, Exists
    <2> QED BY <2>1, <2>2, LoopsFrom
  <1>7. CASE AuthorStep
    <2>1. \A a, b \in Nodes : MarkDuplicate(a, b) => LoopsAreRetired'
      BY <1>i DEF MarkDuplicate
    <2>2. \A e \in Edges : Undo(e) => LoopsAreRetired'
      BY <1>i DEF Undo
    <2>3. \A c \in Clients :
            /\ \A a, b \in Nodes, t \in EdgeTypes : LinkStart(c, a, b, t) => LoopsAreRetired'
            /\ \A links : CreateStart(c, links) => LoopsAreRetired'
            /\ \A n \in Nodes : RequireLive(c, n) => LoopsAreRetired'
      BY <1>0 DEF LinkStart, CreateStart, RequireLive, graph
    <2> QED BY <1>1, <1>2, <1>3, <1>4, <1>5, <1>6, <1>7, <2>1, <2>2, <2>3 DEF AuthorStep
  <1>8. CASE \E a, b \in Nodes : DiscoverLink(a, b) \/ ResolveCitation(a, b)
    BY <1>8, <1>i DEF DiscoverLink, ResolveCitation
  <1>9. ASSUME NEW w \in Sweeps, StageStep(w) PROVE LoopsAreRetired'
    BY <1>9, <1>0 DEF StageStep, ListStranded, ListCrossProject, ListUntyped, ListOverCap,
         ListRevised, Lists, Reattach, Settle, Stop, graph
  <1>10. ASSUME NEW w \in Sweeps, SweepStep(w) PROVE LoopsAreRetired'
    <2>1. \A e \in Edges : Drop(w, e) => LoopsAreRetired'
      BY <1>i DEF Drop
    <2>2. \A n \in Nodes : MoveJoin(w, n) => LoopsAreRetired'
      BY <1>i DEF MoveJoin
    <2>3. MoveCut(w) \/ JudgedCut(w) \/ Relate(w) => LoopsAreRetired'
      BY <1>i DEF MoveCut, JudgedCut, Relate
    <2>4. Supersede(w) => LoopsAreRetired'
      <3>1. SUFFICES ASSUME Supersede(w) PROVE LoopsAreRetired'
        OBVIOUS
      <3>2. Older(w) \in Nodes
        BY <3>1, FieldTypes DEF Supersede, Late, Older, Edges
      <3> QED BY <3>1, <3>2, <1>0, <1>r DEF Supersede
    <2>5. /\ \A e \in Edges, v \in Verdicts : Judge(w, e, v) => LoopsAreRetired'
          /\ \A e \in Edges : Repoint(w, e) => LoopsAreRetired'
          /\ \A n \in Nodes : Walk(w, n) => LoopsAreRetired'
          /\ Walked(w) \/ ReadOlder(w) \/ ReadNewer(w) \/ ListDone(w) => LoopsAreRetired'
      BY <1>0 DEF Judge, Repoint, Walk, Walked, ReadOlder, ReadNewer, ListDone, graph
    <2> QED BY <1>10, <2>1, <2>2, <2>3, <2>4, <2>5 DEF SweepStep
  <1>11. CASE UNCHANGED vars
    BY <1>0, <1>11 DEF vars, graph
  <1> QED BY <1>7, <1>8, <1>9, <1>10, <1>11 DEF Next

-----------------------------------------------------------------------------
(* A retirement and a merge move what authors said.                          *)

Said(e) == e[3] \notin SystemTypes

Kept(e) ==
    \/ Undo(e)
    \/ e[3] = "supersedes" /\ node[e[2]] = "retired" /\ node'[e[2]] = "live"
    \/ \E s \in Nodes : Yields(e[2], s) /\ (e[1] = s \/ edge'[<<e[1], s, e[3]>>] = "agent")
    \/ \E s \in Nodes : Yields(e[1], s) /\ (e[2] = s \/ edge'[<<s, e[2], e[3]>>] = "agent")

(* Retiring takes an author's edge only where it points at the retired note, *)
(* and then it points at the successor.                                      *)
LEMMA RetiredKeeps ==
  ASSUME NEW E \in [Edges -> States], NEW n \in Nodes, NEW s \in Nodes \cup {None},
         NEW e \in Edges, E[e] = "agent"
  PROVE  \/ Retired(E, n, s)[e] = "agent"
         \/ /\ s # None /\ e[2] = n
            /\ e[1] = s \/ Retired(E, n, s)[<<e[1], s, e[3]>>] = "agent"
  <1> DEFINE C == SimilaritiesCut(E, n)
             R == Repointed(C, n, s)
             f == <<e[1], s, e[3]>>
  <1>1. C \in [Edges -> States] /\ R \in [Edges -> States]
    BY CutType, RepointedType
  <1>2. C[e] = "agent"
    BY DEF SimilaritiesCut
  <1>3. CASE s = None
    BY <1>2, <1>3 DEF Retired
  <1>4. CASE s # None
    <2>1. f \in Edges /\ f[1] = e[1] /\ f[2] = s /\ f[3] = e[3]
      BY <1>4 DEF Edges
    <2>2. e[2] = n => e = <<e[1], n, e[3]>>
      BY DEF Edges
    <2>3. R[e] = "agent" \/ e[2] = n
      <3> HIDE DEF C
      <3> QED BY <1>2 DEF Repointed
    <2>4. e[2] = n /\ e[1] # s => R[f] = "agent"
      <3>1. ASSUME e[2] = n, e[1] # s PROVE R[f] = "agent"
        <4>1. C[<<f[1], n, f[3]>>] = "agent"
          BY <1>2, <2>1, <2>2, <3>1
        <4> HIDE DEF C, f
        <4> QED BY <2>1, <3>1, <4>1 DEF Repointed
      <3> QED BY <3>1
    <2>5. \A g \in Edges : R[g] = "agent" => Retired(E, n, s)[g] = "agent"
      <3> HIDE DEF C
      <3>1. \A g \in Edges : R[g] = "agent"
              => [R EXCEPT ![<<s, n, "supersedes">>] = "agent"][g] = "agent"
        <4> HIDE DEF R
        <4> QED BY <1>1
      <3> QED BY <1>4, <3>1 DEF Retired, C
    <2> HIDE DEF C, R
    <2> QED BY <1>4, <2>1, <2>3, <2>4, <2>5
  <1> QED BY <1>3, <1>4

LEMMA RetiredSpares ==
  ASSUME NEW E \in [Edges -> States], NEW n \in Nodes, NEW s \in Nodes,
         NEW e \in Edges, E[e] = "agent", e[2] # n
  PROVE  Retired(E, n, s)[e] = "agent"
  <1> DEFINE C == SimilaritiesCut(E, n)
             R == Repointed(C, n, s)
  <1>1. C \in [Edges -> States] /\ R \in [Edges -> States] /\ s # None
    BY CutType, RepointedType, GraphAssumption
  <1>2. C[e] = "agent"
    BY DEF SimilaritiesCut
  <1>3. R[e] = "agent"
    <2> HIDE DEF C
    <2> QED BY <1>2 DEF Repointed
  <1> HIDE DEF C, R
  <1>4. [R EXCEPT ![<<s, n, "supersedes">>] = "agent"][e] = "agent"
    BY <1>1, <1>3
  <1> QED BY <1>1, <1>4 DEF Retired, C, R

LEMMA RetiredYields ==
  ASSUME TypeOK, NEW n \in Nodes, Alive(n), NEW s \in Nodes, NEW E \in [Edges -> States],
         node' = [node EXCEPT ![n] = "retired"], edge' = Retired(E, n, s)
  PROVE  Yields(n, s)
  <1>1. Repointed(SimilaritiesCut(E, n), n, s) \in [Edges -> States]
    BY CutType, RepointedType
  <1>2. <<s, n, "supersedes">> \in Edges /\ s # None
    BY GraphAssumption DEF Edges
  <1>3. edge'[<<s, n, "supersedes">>] = "agent"
    BY <1>1, <1>2 DEF Retired
  <1> QED BY <1>3, StateTypes DEF Yields

LEMMA RetireKeeps ==
  ASSUME TypeOK, NEW n \in Nodes, NEW s \in Nodes \cup {None}, Retire(n, s),
         NEW e \in Edges, edge[e] = "agent", edge'[e] # "agent"
  PROVE  Kept(e)
  <1>1. Alive(n) /\ node' = [node EXCEPT ![n] = "retired"] /\ edge' = Retired(edge, n, s)
    BY DEF Retire
  <1>2. /\ s # None /\ e[2] = n
        /\ e[1] = s \/ edge'[<<e[1], s, e[3]>>] = "agent"
    BY <1>1, RetiredKeeps, StateTypes
  <1>3. Yields(n, s)
    BY <1>1, <1>2, RetiredYields, StateTypes
  <1> QED BY <1>2, <1>3 DEF Kept

LEMMA MergeKeeps ==
  ASSUME TypeOK, LoopsAreRetired, NEW a \in Nodes, NEW b \in Nodes, Merge(a, b),
         NEW e \in Edges, edge[e] = "agent", edge'[e] # "agent"
  PROVE  Kept(e)
  <1> DEFINE M == Merged(edge, a, b)
  <1>1. /\ a # b /\ Alive(b) /\ M \in [Edges -> States]
        /\ node' = [node EXCEPT ![b] = "retired"] /\ edge' = Retired(M, b, a)
    BY StateTypes, MergedType DEF Merge
  <1>2. Yields(b, a)
    BY <1>1, RetiredYields
  <1>3. /\ <<e[1], a, e[3]>> \in Edges /\ <<a, e[2], e[3]>> \in Edges
        /\ e = <<e[1], e[2], e[3]>> /\ e[1] \in Nodes /\ e[2] \in Nodes
    BY DEF Edges
  <1>4. \A g \in Edges : M[g] = "agent" /\ g[2] # b => edge'[g] = "agent"
    <2> HIDE DEF M
    <2> QED BY <1>1, RetiredSpares
  <1>5. ~(e[1] = b /\ e[2] = b)
    BY <1>1 DEF LoopsAreRetired, Alive
  <1>6. b \in {e[1], e[2]}
    <2>1. b \notin {e[1], e[2]} => M[e] = "agent"
      BY DEF Merged
    <2> QED BY <1>4, <2>1
  <1>7. CASE e[2] = b
    <2> DEFINE f == <<e[1], a, e[3]>>
    <2>1. ASSUME e[1] # a PROVE edge'[f] = "agent"
      <3>1. f \in Edges /\ f[1] = e[1] /\ f[2] = a /\ f[3] = e[3]
        BY <1>3
      <3>2. edge[<<f[1], b, f[3]>>] = "agent" /\ f[1] # b
        BY <1>3, <1>5, <1>7, <3>1
      <3> HIDE DEF f
      <3>3. M[f] = "agent"
        BY <1>1, <2>1, <3>1, <3>2 DEF Merged
      <3> QED BY <1>1, <1>4, <3>1, <3>3
    <2> QED BY <1>2, <1>7, <2>1 DEF Kept
  <1>8. CASE e[1] = b
    <2> DEFINE f == <<a, e[2], e[3]>>
    <2>1. ASSUME e[2] # a PROVE edge'[f] = "agent"
      <3>1. f \in Edges /\ f[1] = a /\ f[2] = e[2] /\ f[3] = e[3]
        BY <1>3
      <3>2. edge[<<b, f[2], f[3]>>] = "agent" /\ f[2] # b
        BY <1>3, <1>5, <1>8, <3>1
      <3> HIDE DEF f
      <3>3. M[f] = "agent"
        BY <1>1, <2>1, <3>1, <3>2 DEF Merged
      <3> QED BY <1>4, <3>1, <3>2, <3>3
    <2> QED BY <1>2, <1>8, <2>1 DEF Kept
  <1> QED BY <1>6, <1>7, <1>8

LEMMA StepKeeps ==
  ASSUME TypeOK, AInv, [Next]_vars, Stages \cap Stale = {},
         NEW e \in Edges, edge[e] = "agent", edge'[e] # "agent", Said(e)
  PROVE  Kept(e)
  <1>0. edge' # edge
    OBVIOUS
  <1>d. Drawn(e) /\ Connected(e[1], e[2])
    BY DEF Drawn, Connected, Between
  <1>i. ASSUME NEW f, InsertIfUnconnected(f) PROVE FALSE
    <2>1. CASE f = e
      BY <1>0, <1>d, <1>i, <2>1 DEF InsertIfUnconnected
    <2>2. CASE f # e
      BY <1>i, <2>2, StateTypes DEF InsertIfUnconnected, InsertEdge
    <2> QED BY <2>1, <2>2
  <1>l. ASSUME NEW f, InsertIfLive(f), f[3] \in SystemTypes PROVE FALSE
    BY <1>l, StateTypes DEF InsertIfLive, InsertEdge, Said
  <1>c. ASSUME NEW f, InvalidateEdge(f), f # e PROVE FALSE
    BY <1>c, StateTypes DEF InvalidateEdge
  <1>s. \A f : f[3] = "similar_to" => f # e
    BY DEF Said, SystemTypes
  <1>1. ASSUME NEW c \in Clients, LinkWrite(c) PROVE FALSE
    BY <1>1, StateTypes DEF LinkWrite
  <1>2. ASSUME NEW c \in Clients, NEW n \in Nodes, CreateWrite(c, n) PROVE FALSE
    BY <1>2, StateTypes DEF CreateWrite
  <1>3. ASSUME NEW n \in Nodes, NEW s \in Nodes \cup {None}, Invalidate(n, s) PROVE Kept(e)
    BY <1>3, RetireKeeps DEF Invalidate
  <1>4. ASSUME NEW n \in Nodes, Restore(n) PROVE Kept(e)
    <2>1. e[2] = n /\ e[3] = "supersedes"
      BY <1>4, StateTypes DEF Restore
    <2> QED BY <1>4, <2>1, StateTypes DEF Restore, Kept
  <1>5. ASSUME NEW n \in Nodes, NEW S \in SUBSET Episodes, Distill(n, S) PROVE Kept(e)
    <2>1. e[1] = n /\ e[3] = "derived_from"
      BY <1>5, StateTypes DEF Distill
    <2>2. ~Exists(n)
      BY <1>5 DEF Distill
    <2> QED BY <2>1, <2>2 DEF AInv, SayersExist
  <1>6. CASE AuthorStep
    <2>1. \A a, b \in Nodes : Merge(a, b) => Kept(e)
      BY MergeKeeps DEF AInv
    <2>2. \A a, b \in Nodes : ~MarkDuplicate(a, b)
      BY <1>l DEF MarkDuplicate, SystemTypes
    <2>3. \A f \in Edges : Undo(f) => Kept(e)
      BY <1>c DEF Undo, Kept
    <2>4. \A c \in Clients :
            /\ \A a, b \in Nodes, t \in EdgeTypes : ~LinkStart(c, a, b, t)
            /\ \A links : ~CreateStart(c, links)
            /\ \A n \in Nodes : ~RequireLive(c, n)
      BY <1>0 DEF LinkStart, CreateStart, RequireLive, graph
    <2> QED BY <1>1, <1>2, <1>3, <1>4, <1>5, <1>6, <2>1, <2>2, <2>3, <2>4 DEF AuthorStep
  <1>7. ASSUME NEW a \in Nodes, NEW b \in Nodes, DiscoverLink(a, b) \/ ResolveCitation(a, b)
        PROVE  FALSE
    <2>1. ~DiscoverLink(a, b)
      BY <1>l DEF DiscoverLink, SystemTypes
    <2>2. ~ResolveCitation(a, b)
      BY <1>0, <1>i DEF ResolveCitation
    <2> QED BY <1>7, <2>1, <2>2
  <1>8. ASSUME NEW w \in Sweeps, StageStep(w) PROVE FALSE
    BY <1>8, <1>0 DEF StageStep, ListStranded, ListCrossProject, ListUntyped, ListOverCap,
         ListRevised, Lists, Reattach, Settle, Stop, graph
  <1>9. ASSUME NEW w \in Sweeps, SweepStep(w) PROVE Kept(e)
    <2>1. \A f \in Edges : ~Drop(w, f)
      BY <1>c, <1>s DEF Drop, AInv, CutsSimilarities
    <2>2. ~MoveCut(w) /\ \A n \in Nodes : ~MoveJoin(w, n)
      BY DEF MoveCut, MoveJoin, AInv, CutsSimilarities
    <2>3. ~JudgedCut(w)
      BY <1>c, <1>s DEF JudgedCut, AInv, CutsSimilarities
    <2>4. ~Relate(w)
      BY <1>i DEF Relate
    <2>5. ASSUME Supersede(w) PROVE Kept(e)
      <3>1. Older(w) \in Nodes /\ Newer(w) \in Nodes
        BY <2>5, FieldTypes DEF Supersede, Late, Older, Newer, Edges
      <3> QED BY <1>0, <2>5, <3>1, RetireKeeps DEF Supersede
    <2>6. /\ \A f \in Edges, v \in Verdicts : ~Judge(w, f, v)
          /\ \A f \in Edges : ~Repoint(w, f)
          /\ \A n \in Nodes : ~Walk(w, n)
          /\ ~Walked(w) /\ ~ReadOlder(w) /\ ~ReadNewer(w) /\ ~ListDone(w)
      BY <1>0 DEF Judge, Repoint, Walk, Walked, ReadOlder, ReadNewer, ListDone, graph
    <2> QED BY <1>9, <2>1, <2>2, <2>3, <2>4, <2>5, <2>6 DEF SweepStep
  <1>10. CASE UNCHANGED vars
    BY <1>0, <1>10 DEF vars, graph
  <1> QED BY <1>6, <1>7, <1>8, <1>9, <1>10 DEF Next

LEMMA RetiredSayers ==
  ASSUME NEW E \in [Edges -> States], NEW n \in Nodes, NEW s \in Nodes \cup {None},
         NEW e \in Edges, Retired(E, n, s)[e] = "agent"
  PROVE  (s # None /\ e[1] = s) \/ \E f \in Edges : f[1] = e[1] /\ E[f] = "agent"
  <1> DEFINE C == SimilaritiesCut(E, n)
             R == Repointed(C, n, s)
             f == <<e[1], n, e[3]>>
  <1>1. C \in [Edges -> States] /\ R \in [Edges -> States]
    BY CutType, RepointedType
  <1>2. \A g \in Edges : C[g] = "agent" => E[g] = "agent"
    BY DEF SimilaritiesCut
  <1>3. f \in Edges /\ f[1] = e[1]
    BY DEF Edges
  <1>4. R[e] = "agent" => C[e] = "agent" \/ C[f] = "agent"
    <2> HIDE DEF C
    <2> QED BY DEF Repointed
  <1> HIDE DEF C, R, f
  <1>5. [R EXCEPT ![<<s, n, "supersedes">>] = "agent"][e] = "agent"
          => R[e] = "agent" \/ e[1] = s
    BY <1>1
  <1> QED BY <1>2, <1>3, <1>4, <1>5 DEF Retired, C, R

LEMMA MergedSayers ==
  ASSUME NEW E \in [Edges -> States], NEW n \in Nodes, NEW s \in Nodes,
         NEW e \in Edges, Merged(E, s, n)[e] = "agent"
  PROVE  e[1] = s \/ \E f \in Edges : f[1] = e[1] /\ E[f] = "agent"
  <1>1. <<e[1], n, e[3]>> \in Edges /\ <<e[1], n, e[3]>>[1] = e[1]
    BY DEF Edges
  <1>2. e[1] = s \/ E[e] = "agent" \/ E[<<e[1], n, e[3]>>] = "agent"
    BY DEF Merged
  <1> QED BY <1>1, <1>2

LEMMA RetireSayers ==
  ASSUME TypeOK, SayersExist, NEW n \in Nodes, NEW s \in Nodes \cup {None}, s # None => Exists(s),
         Retire(n, s), NEW e \in Edges, edge'[e] = "agent"
  PROVE  Exists(e[1])
  BY RetiredSayers, StateTypes DEF Retire, SayersExist

LEMMA ExistsNext ==
  ASSUME TypeOK, [Next]_vars, NEW n \in Nodes, Exists(n) PROVE Exists(n)'
  <1>0. node' = node => Exists(n)'
    BY DEF Exists
  <1>1. ASSUME NEW m \in Nodes, NEW s \in {"live", "retired"}, node' = [node EXCEPT ![m] = s]
        PROVE  Exists(n)'
    BY <1>1, StateTypes DEF Exists
  <1>2. ASSUME NEW m \in Nodes, NEW s, Retire(m, s) PROVE Exists(n)'
    BY <1>0, <1>1, <1>2 DEF Retire
  <1>3. CASE AuthorStep
    BY <1>0, <1>1, <1>2, <1>3 DEF AuthorStep, LinkStart, CreateStart, RequireLive, CreateWrite,
         LinkWrite, Invalidate, Restore, Merge, MarkDuplicate, Undo, Distill, graph
  <1>4. CASE \E a, b \in Nodes : DiscoverLink(a, b) \/ ResolveCitation(a, b)
    BY <1>0, <1>4 DEF DiscoverLink, ResolveCitation
  <1>5. ASSUME NEW w \in Sweeps, StageStep(w) PROVE Exists(n)'
    BY <1>5, <1>0 DEF StageStep, ListStranded, ListCrossProject, ListUntyped, ListOverCap,
         ListRevised, Lists, Reattach, Settle, Stop, graph
  <1>6. ASSUME NEW w \in Sweeps, SweepStep(w) PROVE Exists(n)'
    <2>1. ASSUME Supersede(w) PROVE Exists(n)'
      <3>1. Older(w) \in Nodes
        BY <2>1, FieldTypes DEF Supersede, Late, Older, Edges
      <3> QED BY <2>1, <3>1, <1>0, <1>2 DEF Supersede
    <2> QED BY <1>6, <1>0, <2>1 DEF SweepStep, Drop, MoveJoin, MoveCut, JudgedCut, Relate, Judge,
            Repoint, Walk, Walked, ReadOlder, ReadNewer, ListDone, graph
  <1>7. CASE UNCHANGED vars
    BY <1>0, <1>7 DEF vars, graph
  <1> QED BY <1>3, <1>4, <1>5, <1>6, <1>7 DEF Next

(* An author's edge begins at a note that exists.                            *)
LEMMA SayersEdges ==
  ASSUME TypeOK, CallsJoinOthers, SayersExist, [Next]_vars,
         NEW e \in Edges, edge'[e] = "agent"
  PROVE  Exists(e[1])'
  <1>x. e[1] \in Nodes
    BY DEF Edges
  <1>0. Exists(e[1]) => Exists(e[1])'
    BY <1>x, ExistsNext
  <1>e. edge[e] = "agent" => Exists(e[1])'
    BY <1>0 DEF SayersExist
  <1>s. ASSUME NEW f, InsertIfLive(f) \/ InsertIfUnconnected(f) \/ InvalidateEdge(f)
        PROVE  edge[e] = "agent"
    BY <1>s, StateTypes DEF InsertIfLive, InsertIfUnconnected, InsertEdge, InvalidateEdge
  <1>1. ASSUME NEW c \in Clients, LinkWrite(c) PROVE Exists(e[1])'
    <2>1. edge[e] = "agent" \/ Exists(e[1])
      BY <1>1, StateTypes DEF LinkWrite, CallsJoinOthers, CallJoins
    <2> QED BY <2>1, <1>0, <1>e
  <1>2. ASSUME NEW c \in Clients, NEW n \in Nodes, CreateWrite(c, n) PROVE Exists(e[1])'
    <2>1. edge[e] = "agent" \/ e[1] = n
      BY <1>2, StateTypes DEF CreateWrite
    <2>2. Exists(n)'
      BY <1>2, StateTypes DEF CreateWrite, Exists
    <2> QED BY <2>1, <2>2, <1>e
  <1>3. ASSUME NEW n \in Nodes, NEW s \in Nodes \cup {None}, Invalidate(n, s) PROVE Exists(e[1])'
    BY <1>3, <1>0, RetireSayers DEF Invalidate
  <1>4. ASSUME NEW n \in Nodes, Restore(n) PROVE Exists(e[1])'
    <2>1. edge[e] = "agent"
      BY <1>4, StateTypes DEF Restore
    <2> QED BY <2>1, <1>e
  <1>5. ASSUME NEW a \in Nodes, NEW b \in Nodes, Merge(a, b) PROVE Exists(e[1])'
    <2>1. Exists(a)
      BY <1>5 DEF Merge, Alive, Exists
    <2>2. Merged(edge, a, b) \in [Edges -> States]
      BY StateTypes, MergedType
    <2>3. e[1] = a \/ \E f \in Edges : f[1] = e[1] /\ Merged(edge, a, b)[f] = "agent"
      BY <1>5, <2>2, RetiredSayers DEF Merge
    <2>4. e[1] = a \/ \E f \in Edges : f[1] = e[1] /\ edge[f] = "agent"
      BY <2>3, MergedSayers, StateTypes
    <2> QED BY <2>1, <2>4, <1>0 DEF SayersExist
  <1>6. ASSUME NEW n \in Nodes, NEW S \in SUBSET Episodes, Distill(n, S) PROVE Exists(e[1])'
    <2>1. edge[e] = "agent"
      BY <1>6, StateTypes DEF Distill
    <2> QED BY <2>1, <1>e
  <1>7. CASE AuthorStep
    <2>1. /\ \A a, b \in Nodes : MarkDuplicate(a, b) => Exists(e[1])'
          /\ \A f \in Edges : Undo(f) => Exists(e[1])'
      BY <1>s, <1>e DEF MarkDuplicate, Undo
    <2>2. \A c \in Clients :
            /\ \A a, b \in Nodes, t \in EdgeTypes : LinkStart(c, a, b, t) => Exists(e[1])'
            /\ \A links : CreateStart(c, links) => Exists(e[1])'
            /\ \A n \in Nodes : RequireLive(c, n) => Exists(e[1])'
      BY <1>e DEF LinkStart, CreateStart, RequireLive, graph
    <2> QED BY <1>1, <1>2, <1>3, <1>4, <1>5, <1>6, <1>7, <2>1, <2>2 DEF AuthorStep
  <1>8. CASE \E a, b \in Nodes : DiscoverLink(a, b) \/ ResolveCitation(a, b)
    BY <1>8, <1>s, <1>e DEF DiscoverLink, ResolveCitation
  <1>9. ASSUME NEW w \in Sweeps, StageStep(w) PROVE Exists(e[1])'
    BY <1>9, <1>e DEF StageStep, ListStranded, ListCrossProject, ListUntyped, ListOverCap,
         ListRevised, Lists, Reattach, Settle, Stop, graph
  <1>10. ASSUME NEW w \in Sweeps, SweepStep(w) PROVE Exists(e[1])'
    <2>1. \/ \E f \in Edges : Drop(w, f)
          \/ \E n \in Nodes : MoveJoin(w, n)
          \/ MoveCut(w) \/ JudgedCut(w) \/ Relate(w)
          => Exists(e[1])'
      BY <1>s, <1>e DEF Drop, MoveJoin, MoveCut, JudgedCut, Relate
    <2>2. ASSUME Supersede(w) PROVE Exists(e[1])'
      <3>1. Older(w) \in Nodes /\ Newer(w) \in Nodes /\ Exists(Newer(w))
        BY <2>2, FieldTypes DEF Supersede, Late, Older, Newer, Edges, SayersExist
      <3> QED BY <1>e, <1>0, <2>2, <3>1, RetireSayers DEF Supersede
    <2>3. /\ \A f \in Edges, v \in Verdicts : Judge(w, f, v) => Exists(e[1])'
          /\ \A f \in Edges : Repoint(w, f) => Exists(e[1])'
          /\ \A n \in Nodes : Walk(w, n) => Exists(e[1])'
          /\ Walked(w) \/ ReadOlder(w) \/ ReadNewer(w) \/ ListDone(w) => Exists(e[1])'
      BY <1>e DEF Judge, Repoint, Walk, Walked, ReadOlder, ReadNewer, ListDone, graph
    <2> QED BY <1>10, <2>1, <2>2, <2>3 DEF SweepStep
  <1>11. CASE UNCHANGED vars
    BY <1>e, <1>11 DEF vars, graph
  <1> QED BY <1>7, <1>8, <1>9, <1>10, <1>11 DEF Next

(* A sweep that is about to retire a note has seen the one that replaces it. *)
LEMMA SayersSweeps ==
  ASSUME TypeOK, [Next]_vars, NEW w \in Sweeps, sweep'[w].pc = "retire"
  PROVE  sweep'[w] = sweep[w] \/ Exists(Newer(w))'
  <1>0. sweep' = sweep => sweep'[w] = sweep[w]
    OBVIOUS
  <1>a. \A pc, T, e, v : At(pc, T, e, v).pc = pc
    BY DEF At
  <1>i. Idle.pc = "idle" /\ \A v : Back(v).pc = "list"
    BY <1>a DEF Idle, Back
  <1>g. ASSUME NEW v \in Sweeps, NEW s, Goes(v, s), s.pc # "retire" PROVE sweep'[w] = sweep[w]
    BY <1>g DEF Goes, TypeOK
  <1>p. ASSUME NEW v \in Sweeps, NEW p \in {"move", "join", "relate", "older", "newer"},
               Goes(v, [sweep[v] EXCEPT !.pc = p])
        PROVE  sweep'[w] = sweep[w]
    <2>1. sweep[v] \in Sweeper
      BY DEF TypeOK
    <2>2. \A s \in Sweeper : [s EXCEPT !.pc = p].pc = p
      BY DEF Sweeper
    <2> QED BY <1>g, <1>p, <2>1, <2>2
  <1>1. ASSUME NEW v \in Sweeps, StageStep(v) PROVE sweep'[w] = sweep[w]
    <2>1. \A T : Lists(v, T) => sweep'[w] = sweep[w]
      BY <1>a, <1>g DEF Lists
    <2>2. /\ \A n, m \in Nodes, k \in Verdicts : Reattach(v, n, m, k) => sweep'[w] = sweep[w]
          /\ \A n, m \in Nodes : Settle(v, n, m) => sweep'[w] = sweep[w]
      BY <1>a, <1>g DEF Reattach, Settle
    <2>3. ListStranded(v) \/ ListCrossProject(v) \/ ListUntyped(v)
          \/ (\E S : ListOverCap(v, S) \/ ListRevised(v, S)) => \E T : Lists(v, T)
      BY DEF ListStranded, ListCrossProject, ListUntyped, ListOverCap, ListRevised
    <2>4. Stop(v) => sweep'[w] = sweep[w]
      BY <1>i, <1>g DEF Stop
    <2> QED BY <1>1, <2>1, <2>2, <2>3, <2>4 DEF StageStep
  <1>2. ASSUME NEW v \in Sweeps, SweepStep(v)
        PROVE  sweep'[w] = sweep[w] \/ Exists(Newer(w))'
    <2>1. ASSUME NEW e \in Edges, Drop(v, e) PROVE sweep'[w] = sweep[w]
      <3> DEFINE x == [sweep[v] EXCEPT !.todo = sweep[v].todo \ {<<e, "drop">>}]
      <3>1. sweep[v] \in Sweeper /\ sweep[v].pc = "list" /\ Goes(v, x)
        BY <2>1 DEF TypeOK, Drop
      <3>2. \A s \in Sweeper : \A T : [s EXCEPT !.todo = T].pc = s.pc
        BY DEF Sweeper
      <3>3. x.pc = "list"
        BY <3>1, <3>2
      <3> HIDE DEF x
      <3> QED BY <1>g, <3>1, <3>3
    <2>2. ASSUME NEW e \in Edges, Repoint(v, e) PROVE sweep'[w] = sweep[w]
      <3> DEFINE T == sweep[v].todo \ {<<e, "repoint">>}
                 x == [pc |-> "walk", todo |-> T, edge |-> e, verdict |-> None,
                       open |-> {e[2]}, seen |-> {}, found |-> {}]
      <3>1. Goes(v, x)
        BY <2>2, Zenon DEF Repoint
      <3>2. x.pc = "walk"
        OBVIOUS
      <3> HIDE DEF x
      <3> QED BY <1>g, <3>1, <3>2
    <2>3. ASSUME NEW e \in Edges, NEW k \in Verdicts, Judge(v, e, k) PROVE sweep'[w] = sweep[w]
      BY <1>a, <1>g, <2>3 DEF Judge
    <2>4. ASSUME NEW n \in Nodes, Walk(v, n) PROVE sweep'[w] = sweep[w]
      <3> DEFINE O == (sweep[v].open \ {n}) \cup Onward(v, n)
                 S == sweep[v].seen \cup {n}
                 F == sweep[v].found \cup {s \in Successors(n) : Alive(s)}
                 x == [sweep[v] EXCEPT !.open = O, !.seen = S, !.found = F]
      <3>1. sweep[v] \in Sweeper /\ sweep[v].pc = "walk" /\ Goes(v, x)
        BY <2>4 DEF TypeOK, Walk
      <3> HIDE DEF O, S, F
      <3>2. \A s \in Sweeper : [s EXCEPT !.open = O, !.seen = S, !.found = F].pc = s.pc
        BY DEF Sweeper
      <3>3. x.pc = "walk"
        BY <3>1, <3>2
      <3> HIDE DEF x
      <3> QED BY <1>g, <3>1, <3>3
    <2>5. Walked(v) \/ MoveCut(v) \/ JudgedCut(v) \/ Relate(v) \/ ReadOlder(v)
          => sweep'[w] = sweep[w]
      BY <1>i, <1>g, <1>p DEF Walked, MoveCut, JudgedCut, Relate, ReadOlder
    <2>6. Supersede(v) \/ ListDone(v) \/ (\E n \in Nodes : MoveJoin(v, n))
          => sweep'[w] = sweep[w]
      BY <1>i, <1>g DEF Supersede, ListDone, MoveJoin
    <2>7. ASSUME ReadNewer(v) PROVE sweep'[w] = sweep[w] \/ Exists(Newer(w))'
      <3>1. CASE Alive(Newer(v)) /\ w = v
        <4>1. sweep[v] \in Sweeper /\ sweep'[v] = [sweep[v] EXCEPT !.pc = "retire"]
          BY <2>7, <3>1 DEF ReadNewer, Goes, TypeOK
        <4>2. \A s \in Sweeper : LET t == [s EXCEPT !.pc = "retire"]
                                 IN  t.edge = s.edge /\ t.verdict = s.verdict
          BY DEF Sweeper
        <4>3. Newer(v)' = Newer(v)
          BY <4>1, <4>2 DEF Newer
        <4>4. node' = node
          BY <2>7 DEF ReadNewer, graph
        <4> QED BY <3>1, <4>3, <4>4 DEF Exists, Alive
      <3>2. CASE w # v
        BY <2>7, <3>2 DEF ReadNewer, Goes, TypeOK
      <3>3. CASE ~Alive(Newer(v))
        BY <1>i, <1>g, <2>7, <3>3 DEF ReadNewer
      <3> QED BY <3>1, <3>2, <3>3
    <2> QED BY <1>2, <2>1, <2>2, <2>3, <2>4, <2>5, <2>6, <2>7 DEF SweepStep
  <1>3. CASE AuthorStep
    BY <1>0, <1>3 DEF AuthorStep, LinkStart, CreateStart, RequireLive, CreateWrite, LinkWrite,
         Invalidate, Restore, Merge, MarkDuplicate, Undo, Distill
  <1>4. CASE \E a, b \in Nodes : DiscoverLink(a, b) \/ ResolveCitation(a, b)
    BY <1>0, <1>4 DEF DiscoverLink, ResolveCitation
  <1>5. CASE UNCHANGED vars
    BY <1>0, <1>5 DEF vars
  <1> QED BY <1>1, <1>2, <1>3, <1>4, <1>5 DEF Next

LEMMA SayersNext ==
  ASSUME TypeOK, CallsJoinOthers, SayersExist, [Next]_vars PROVE SayersExist'
  <1>1. \A e \in Edges : edge'[e] = "agent" => Exists(e[1])'
    BY SayersEdges
  <1>2. ASSUME NEW w \in Sweeps, sweep'[w].pc = "retire", sweep'[w] = sweep[w]
        PROVE  Exists(Newer(w))'
    <2>1. Exists(Newer(w)) /\ Newer(w)' = Newer(w)
      BY <1>2 DEF SayersExist, Newer
    <2>2. Newer(w) \in Nodes
      BY <1>2, FieldTypes DEF Newer, Late, Edges
    <2> QED BY <2>1, <2>2, ExistsNext
  <1> QED BY <1>1, <1>2, SayersSweeps DEF SayersExist

(* Where no stage cuts relations by a list that may be old, what an author   *)
(* said of two notes is lost only to a reviewer who takes it back: a         *)
(* retirement, a merge and the restoring of a note move it or end it as the  *)
(* property says.                                                            *)
THEOREM AuthorsAreKept ==
  ASSUME Stages \cap {"repoint", "unlink", "recheck"} = {} PROVE Spec => AuthoredIsKept
  <1>0. Stages \cap Stale = {}
    BY DEF Stale
  <1>1. Init => AInv
    <2> SUFFICES ASSUME Init PROVE AInv
      OBVIOUS
    <2>1. Idle.pc = "idle" /\ Idle.todo = {} /\ NoCall.pc = "idle" /\ NoCall.links = {}
      BY DEF Idle, At, NoCall
    <2>2. CutsSimilarities /\ CallsJoinOthers
      BY <2>1 DEF Init, CutsSimilarities, CallsJoinOthers, CallJoins
    <2>3. LoopsAreRetired /\ SayersExist
      BY <2>1 DEF Init, LoopsAreRetired, SayersExist
    <2> QED BY <2>2, <2>3 DEF AInv
  <1>2. TypeOK /\ AInv /\ [Next]_vars => AInv'
    BY <1>0, CutsNext, JoinsNext, LoopsNext, SayersNext DEF AInv
  <1>3. TypeOK /\ AInv /\ [Next]_vars
        => [\A e \in Edges :
              edge[e] = "agent" /\ edge'[e] # "agent" /\ e[3] \notin SystemTypes =>
                \/ Undo(e)
                \/ e[3] = "supersedes" /\ node[e[2]] = "retired" /\ node'[e[2]] = "live"
                \/ \E s \in Nodes : Yields(e[2], s) /\ (e[1] = s \/ edge'[<<e[1], s, e[3]>>] = "agent")
                \/ \E s \in Nodes : Yields(e[1], s) /\ (e[2] = s \/ edge'[<<s, e[2], e[3]>>] = "agent")
           ]_vars
    BY <1>0, StepKeeps DEF Kept, Said
  <1> QED BY <1>1, <1>2, <1>3, TypeCorrect, PTL DEF Spec, AuthoredIsKept

-----------------------------------------------------------------------------
(* Searches.  Nothing is asked of the graph's steps: a search depends on     *)
(* what its own reads saw, and SearchInv relates that to what has been true  *)
(* since it began.                                                           *)

Active == search.pc \notin {"idle", "answered"}
Weighed == search.pc \in {"expand", "rows", "apart", "select", "answered"}
RowsRead == search.pc \in {"apart", "select", "answered"}

(* What has been true since the search began includes what is true now. *)
Remembers ==
    Active => /\ ~search.history => \A n \in Nodes : Current(n) => n \in search.lived
              /\ \A n \in Nodes : ~Revoked(n) => n \in search.credible
              /\ \A p \in search.steady : p \in Joined(Nodes, "supersedes")

(* What the search holds was seen as it had to be. *)
SawRight ==
    /\ search.pc # "idle" /\ ~search.history =>
         search.found \subseteq search.lived /\ (RowsRead => search.surfaced \subseteq search.lived)
    /\ Weighed => search.found \subseteq search.credible
    /\ search.pc \in {"expand", "rows"} \/ search.surfaced # {} => search.found # {}
    /\ search.surfaced # {} => Weighed
    /\ search.pc = "select" => \A p \in search.steady : p \subseteq Entries => p \in search.apart
    /\ Answered => Given \subseteq Entries
    /\ ~Answered => search.folded = {}

SearchInv == SearchTypeOK /\ Remembers /\ SawRight /\ EveryEntryHasItsPlace

SearchPcs == {"idle", "vectors", "cut", "weigh", "expand", "rows", "apart", "select", "answered"}

-----------------------------------------------------------------------------
(* Orders *)

(* Of finitely many, one is first. *)
LEMMA Least ==
  ASSUME NEW S, IsFiniteSet(S), S # {}, NEW r, \A s \in S : r[s] \in Int
  PROVE  \E x \in S : \A y \in S : r[x] <= r[y]
  <1> DEFINE Below(x) == {m \in S : r[m] < r[x]}
             T == {Below(x) : x \in S}
             R == StrictSubsetOrdering(S)
  <1>1. T \subseteq FiniteSubsetsOf(S) /\ T # {}
    <2>1. ASSUME NEW U \in T PROVE U \in FiniteSubsetsOf(S)
      <3>1. U \in SUBSET S
        OBVIOUS
      <3>2. IsFiniteSet(U)
        BY <3>1, FS_Subset
      <3> QED BY <3>1, <3>2 DEF FiniteSubsetsOf
    <2>2. PICK x : x \in S
      OBVIOUS
    <2>3. Below(x) \in T
      BY <2>2
    <2> QED BY <2>1, <2>3
  <1>2. PICK U \in T : \A V \in T : ~ (<<V, U>> \in R)
    <2> HIDE DEF T
    <2> QED BY <1>1, WFMin, FS_StrictSubsetOrderingWellFounded
  <1>3. PICK x \in S : U = Below(x)
    BY <1>2
  <1>4. ASSUME NEW y \in S, r[y] < r[x] PROVE FALSE
    <2>1. Below(y) \in T
      OBVIOUS
    <2>2. Below(y) \subseteq U /\ y \in U /\ y \notin Below(y) /\ U \subseteq S
      BY <1>3, <1>4
    <2>3. <<Below(y), U>> \in R
      BY <2>2 DEF StrictSubsetOrdering
    <2> QED BY <1>2, <2>1, <2>3
  <1> QED BY <1>4

(* Of finitely many, one is last. *)
LEMMA Greatest ==
  ASSUME NEW S, IsFiniteSet(S), S # {}, NEW r, \A s \in S : r[s] \in Int
  PROVE  \E x \in S : \A y \in S : r[y] <= r[x]
  <1> DEFINE q == [s \in S |-> -r[s]]
  <1>1. \A s \in S : q[s] \in Int
    OBVIOUS
  <1>2. PICK x \in S : \A y \in S : q[x] <= q[y]
    <2> HIDE DEF q
    <2> QED BY <1>1, Least
  <1> QED BY <1>2

-----------------------------------------------------------------------------
(* One search step and one step of the graph *)

LEMMA InitSearchInv == SearchInit => SearchInv
  BY DEF SearchInit, NoSearch, SearchInv, SearchTypeOK, Remembers, SawRight, Active, Weighed, RowsRead,
         EveryEntryHasItsPlace, Answered, Entries, Given, Under

(* A step of the graph leaves what the search holds, and what is true after  *)
(* it is remembered.                                                         *)
LEMMA GraphStep ==
  ASSUME SearchInv, Meanwhile
  PROVE  SearchInv'
  <1>1. CASE ~Active
    <2>1. search' = search
      BY <1>1 DEF Meanwhile, Active
    <2> QED BY <1>1, <2>1 DEF SearchInv, SearchTypeOK, Remembers, SawRight, Active, Weighed, RowsRead,
         EveryEntryHasItsPlace, Answered, Entries, Given, Under
  <1>2. CASE Active
    <2> DEFINE L == IF search.history THEN {}
                    ELSE search.lived \cup {n \in Nodes : Current(n)'}
               C == search.credible \cup {n \in Nodes : ~Revoked(n)'}
               Y == search.steady \cap Joined(Nodes, "supersedes")'
    <2>1. search' = [search EXCEPT !.lived = L, !.credible = C, !.steady = Y]
      BY <1>2 DEF Meanwhile, Active
    <2>2. /\ L \in SUBSET Nodes /\ C \in SUBSET Nodes /\ Y \in SUBSET Pairs
          /\ search.lived \subseteq L \/ search.history
          /\ search.credible \subseteq C /\ Y \subseteq search.steady
          /\ ~search.history => \A n \in Nodes : Current(n)' => n \in L
          /\ \A n \in Nodes : ~Revoked(n)' => n \in C
          /\ \A p \in Y : p \in Joined(Nodes, "supersedes")'
      BY DEF SearchInv, SearchTypeOK
    <2> HIDE DEF L, C, Y
    <2>3. SearchTypeOK'
      BY <2>1, <2>2 DEF SearchInv, SearchTypeOK
    <2>4. /\ search'.pc = search.pc /\ search'.history = search.history
          /\ search'.found = search.found /\ search'.surfaced = search.surfaced
          /\ search'.apart = search.apart /\ search'.shown = search.shown
          /\ search'.folded = search.folded
          /\ search'.lived = L /\ search'.credible = C /\ search'.steady = Y
      BY <2>1 DEF SearchInv, SearchTypeOK
    <2>5. Remembers'
      BY <2>2, <2>4 DEF Remembers
    <2>6. SawRight'
      BY <1>2, <2>2, <2>4 DEF SearchInv, SawRight, Weighed, RowsRead, Answered, Entries, Given, Under, Active
    <2>7. EveryEntryHasItsPlace'
      BY <1>2, <2>4 DEF Active, EveryEntryHasItsPlace, Answered
    <2> QED BY <2>3, <2>5, <2>6, <2>7 DEF SearchInv
  <1> QED BY <1>1, <1>2

-----------------------------------------------------------------------------
(* The steps of a search *)

(* Where the graph stands still, what is asked of it has the same answer. *)
LEMMA SameGraph ==
  ASSUME UNCHANGED vars
  PROVE  /\ \A n \in Nodes : Current(n)' <=> Current(n)
         /\ \A n \in Nodes : Revoked(n)' <=> Revoked(n)
         /\ Joined(Nodes, "supersedes")' = Joined(Nodes, "supersedes")
  BY DEF vars, graph, Current, Alive, Revoked, Origins, WithSourcesOf, Drawn, Joined

(* What has been true is remembered by a step that leaves it alone. *)
LEMMA StillRemembers ==
  ASSUME Remembers, Active, UNCHANGED vars, search'.history = search.history,
         search'.lived = search.lived, search'.credible = search.credible,
         search'.steady = search.steady
  PROVE  Remembers'
  BY SameGraph DEF Remembers

LEMMA MatchingFrom ==
  ASSUME NEW S \in SUBSET Nodes, NEW h \in BOOLEAN
  PROVE  /\ Matching(S, h) \subseteq Nodes
         /\ ~h => \A n \in Matching(S, h) : Current(n)
  BY DEF Matching

LEMMA JoinedPairs ==
  ASSUME NEW S \in SUBSET Nodes, NEW t
  PROVE  /\ Joined(S, t) \subseteq Pairs
         /\ \A p \in Joined(Nodes, t) : p \subseteq S => p \in Joined(S, t)
  BY DEF Joined, Pairs

LEMMA AskStep ==
  ASSUME SearchInv, NEW mode \in Modes, NEW history \in BOOLEAN, Ask(mode, history)
  PROVE  SearchInv'
  <1> DEFINE F == IF mode = "vector" THEN {} ELSE Matching(Textual, history)
             L == IF history THEN {} ELSE {n \in Nodes : Current(n)}
             C == {n \in Nodes : ~Revoked(n)}
             Y == IF mode = "text" THEN {} ELSE Joined(Nodes, "supersedes")
             p == IF mode = "text" THEN "cut" ELSE "vectors"
  <1>1. UNCHANGED vars
    BY DEF Ask, Turns
  <1>2. search' = [NoSearch EXCEPT !.pc = p, !.history = history, !.found = F, !.lived = L,
                                   !.credible = C, !.steady = Y]
    BY DEF Ask, Turns
  <1>3. /\ F \in SUBSET Nodes /\ L \in SUBSET Nodes /\ C \in SUBSET Nodes /\ Y \in SUBSET Pairs
        /\ ~history => F \subseteq L
        /\ p \in {"cut", "vectors"}
    BY RetrievalAssumption, MatchingFrom, JoinedPairs DEF Modes
  <1>4. /\ ~history => \A n \in Nodes : Current(n) => n \in L
        /\ \A n \in Nodes : ~Revoked(n) => n \in C
        /\ \A q \in Y : q \in Joined(Nodes, "supersedes")
    OBVIOUS
  <1> HIDE DEF F, L, C, Y, p
  <1>5. search' = [pc |-> p, history |-> history, found |-> F, surfaced |-> {}, apart |-> {},
                   shown |-> {}, folded |-> {}, lived |-> L, credible |-> C, steady |-> Y]
    BY <1>2 DEF NoSearch
  <1>6. SearchTypeOK'
    BY <1>3, <1>5 DEF SearchTypeOK
  <1>7. Remembers'
    BY <1>1, <1>4, <1>5, SameGraph DEF Remembers
  <1>8. SawRight' /\ EveryEntryHasItsPlace'
    BY <1>3, <1>5 DEF SawRight, EveryEntryHasItsPlace, Weighed, RowsRead, Answered
  <1> QED BY <1>6, <1>7, <1>8 DEF SearchInv

LEMMA VectorsStep ==
  ASSUME SearchInv, ReadVectors
  PROVE  SearchInv'
  <1>1. PICK rows \in {{}, Matching(Near, search.history)} :
          Turns([search EXCEPT !.pc = "weigh", !.found = search.found \cup rows])
    BY DEF ReadVectors
  <1>2. /\ search'.pc = "weigh" /\ search'.found = search.found \cup rows
        /\ search'.history = search.history /\ search'.surfaced = search.surfaced
        /\ search'.apart = search.apart /\ search'.shown = search.shown
        /\ search'.folded = search.folded /\ search'.lived = search.lived
        /\ search'.credible = search.credible /\ search'.steady = search.steady
        /\ UNCHANGED vars
    BY <1>1 DEF Turns, SearchInv, SearchTypeOK
  <1>3. search.pc = "vectors" /\ Active
    BY DEF ReadVectors, Active
  <1>4. rows \in SUBSET Nodes /\ (~search.history => rows \subseteq search.lived)
    BY <1>3, RetrievalAssumption, MatchingFrom DEF SearchInv, SearchTypeOK, Remembers
  <1>5. SearchTypeOK'
    BY <1>1, <1>4 DEF Turns, SearchInv, SearchTypeOK
  <1>6. Remembers'
    BY <1>2, <1>3, StillRemembers DEF SearchInv
  <1>7. SawRight' /\ EveryEntryHasItsPlace'
    BY <1>2, <1>3, <1>4 DEF SearchInv, SawRight, EveryEntryHasItsPlace, Weighed, RowsRead, Answered
  <1> QED BY <1>5, <1>6, <1>7 DEF SearchInv

LEMMA TrustedFrom ==
  ASSUME SearchInv, Active
  PROVE  Trusted \subseteq search.found /\ Trusted \subseteq search.credible
  BY DEF Trusted, SearchInv, SearchTypeOK, Remembers

LEMMA WeighStep ==
  ASSUME SearchInv, Weigh
  PROVE  SearchInv'
  <1>1. PICK pc \in {"expand", "apart"} :
          /\ Trusted = {} => pc = "apart"
          /\ Turns([search EXCEPT !.pc = pc, !.found = Trusted])
    BY DEF Weigh
  <1>2. search.pc = "weigh" /\ Active
    BY DEF Weigh, Active
  <1>3. PICK T : T = Trusted
    OBVIOUS
  <1>4. T \subseteq search.found /\ T \subseteq search.credible
    BY <1>2, <1>3, TrustedFrom
  <1>5. /\ search' = [search EXCEPT !.pc = pc, !.found = T] /\ UNCHANGED vars
        /\ T = {} => pc = "apart"
    BY <1>1, <1>3 DEF Turns
  <1>6. /\ search'.pc = pc /\ search'.found = T
        /\ search'.history = search.history /\ search'.surfaced = search.surfaced
        /\ search'.apart = search.apart /\ search'.shown = search.shown
        /\ search'.folded = search.folded /\ search'.lived = search.lived
        /\ search'.credible = search.credible /\ search'.steady = search.steady
    BY <1>5 DEF SearchInv, SearchTypeOK
  <1>7. SearchTypeOK'
    BY <1>4, <1>5 DEF SearchInv, SearchTypeOK
  <1>8. Remembers'
    BY <1>2, <1>5, <1>6, StillRemembers DEF SearchInv
  <1>9. SawRight' /\ EveryEntryHasItsPlace'
    BY <1>2, <1>4, <1>5, <1>6 DEF SearchInv, SawRight, EveryEntryHasItsPlace, Weighed, RowsRead, Answered
  <1> QED BY <1>7, <1>8, <1>9 DEF SearchInv

LEMMA WeighTextStep ==
  ASSUME SearchInv, WeighText
  PROVE  SearchInv'
  <1>1. PICK T : T = Trusted
    OBVIOUS
  <1>2. PICK top :
          /\ top \subseteq T /\ (top # T => Cardinality(top) = Limit)
          /\ search' = [search EXCEPT !.pc = "answered", !.found = T, !.shown = top]
          /\ UNCHANGED vars
    <2>1. PICK t \in SUBSET Trusted :
            /\ t # Trusted => Cardinality(t) = Limit
            /\ Turns([search EXCEPT !.pc = "answered", !.found = Trusted, !.shown = t])
      BY DEF WeighText
    <2> QED BY <1>1, <2>1 DEF Turns
  <1>3. search.pc = "cut" /\ Active
    BY DEF WeighText, Active
  <1>4. T \subseteq search.found /\ T \subseteq search.credible
    BY <1>1, <1>3, TrustedFrom
  <1>5. /\ search'.pc = "answered" /\ search'.found = T /\ search'.shown = top
        /\ search'.history = search.history /\ search'.surfaced = search.surfaced
        /\ search'.apart = search.apart
        /\ search'.folded = search.folded /\ search'.lived = search.lived
        /\ search'.credible = search.credible /\ search'.steady = search.steady
    BY <1>2 DEF SearchInv, SearchTypeOK
  <1>6. search.surfaced = {} /\ search.folded = {}
    BY <1>3 DEF SearchInv, SawRight, Weighed, Answered
  <1>7. SearchTypeOK'
    BY <1>2, <1>4 DEF SearchInv, SearchTypeOK
  <1>8. Remembers'
    BY <1>5 DEF Remembers, Active
  <1>9. Given' = top /\ Entries' = T
    BY <1>5, <1>6 DEF Given, Under, Entries
  <1>10. SawRight'
    BY <1>2, <1>3, <1>4, <1>5, <1>6, <1>9 DEF SearchInv, SawRight, Weighed, RowsRead, Answered
  <1>11. EveryEntryHasItsPlace'
    BY <1>2, <1>5, <1>6, <1>9 DEF EveryEntryHasItsPlace
  <1> QED BY <1>7, <1>8, <1>10, <1>11 DEF SearchInv

LEMMA ReachedType ==
  ASSUME NEW S
  PROVE  Reached(S) \subseteq Nodes
  BY DEF Reached

LEMMA ExpandStep ==
  ASSUME SearchInv, Expand
  PROVE  SearchInv'
  <1>1. PICK U : U = Reached(search.found) \ search.found
    OBVIOUS
  <1>2. search.pc = "expand" /\ Active
    BY DEF Expand, Active
  <1>3. search' = [search EXCEPT !.pc = "rows", !.surfaced = U] /\ UNCHANGED vars
    BY <1>1 DEF Expand, Turns
  <1>4. U \subseteq Nodes
    BY <1>1, ReachedType DEF SearchInv, SearchTypeOK
  <1>5. /\ search'.pc = "rows" /\ search'.found = search.found /\ search'.shown = search.shown
        /\ search'.history = search.history /\ search'.surfaced = U
        /\ search'.apart = search.apart
        /\ search'.folded = search.folded /\ search'.lived = search.lived
        /\ search'.credible = search.credible /\ search'.steady = search.steady
    BY <1>3 DEF SearchInv, SearchTypeOK
  <1>6. SearchTypeOK'
    BY <1>3, <1>4 DEF SearchInv, SearchTypeOK
  <1>7. Remembers'
    BY <1>2, <1>3, <1>5, StillRemembers DEF SearchInv
  <1>8. SawRight' /\ EveryEntryHasItsPlace'
    BY <1>2, <1>5 DEF SearchInv, SawRight, EveryEntryHasItsPlace, Weighed, RowsRead, Answered
  <1> QED BY <1>6, <1>7, <1>8 DEF SearchInv

LEMMA RowsStep ==
  ASSUME SearchInv, ReadRows
  PROVE  SearchInv'
  <1>1. PICK U : U = {n \in search.surfaced : Alive(n) /\ (search.history \/ Current(n))}
    OBVIOUS
  <1>2. search.pc = "rows" /\ Active
    BY DEF ReadRows, Active
  <1>3. search' = [search EXCEPT !.pc = "apart", !.surfaced = U] /\ UNCHANGED vars
    BY <1>1 DEF ReadRows, Turns
  <1>4. U \subseteq search.surfaced /\ (~search.history => U \subseteq search.lived)
    BY <1>1, <1>2 DEF SearchInv, SearchTypeOK, Remembers
  <1>5. /\ search'.pc = "apart" /\ search'.found = search.found /\ search'.shown = search.shown
        /\ search'.history = search.history /\ search'.surfaced = U
        /\ search'.apart = search.apart
        /\ search'.folded = search.folded /\ search'.lived = search.lived
        /\ search'.credible = search.credible /\ search'.steady = search.steady
    BY <1>3 DEF SearchInv, SearchTypeOK
  <1>6. SearchTypeOK'
    BY <1>3, <1>4 DEF SearchInv, SearchTypeOK
  <1>7. Remembers'
    BY <1>2, <1>3, <1>5, StillRemembers DEF SearchInv
  <1>8. SawRight' /\ EveryEntryHasItsPlace'
    BY <1>2, <1>4, <1>5 DEF SearchInv, SawRight, EveryEntryHasItsPlace, Weighed, RowsRead, Answered
  <1> QED BY <1>6, <1>7, <1>8 DEF SearchInv

LEMMA ApartStep ==
  ASSUME SearchInv, ReadApart
  PROVE  SearchInv'
  <1>1. PICK P : P = Joined(Entries, "supersedes")
    OBVIOUS
  <1>2. search.pc = "apart" /\ Active
    BY DEF ReadApart, Active
  <1>3. search' = [search EXCEPT !.pc = "select", !.apart = P] /\ UNCHANGED vars
    BY <1>1 DEF ReadApart, Turns
  <1>4. Entries \in SUBSET Nodes
    BY DEF SearchInv, SearchTypeOK, Entries
  <1>5. /\ P \subseteq Pairs
        /\ \A q \in search.steady : q \subseteq Entries => q \in P
    BY <1>1, <1>2, <1>4, JoinedPairs DEF SearchInv, Remembers
  <1>6. /\ search'.pc = "select" /\ search'.found = search.found /\ search'.shown = search.shown
        /\ search'.history = search.history /\ search'.surfaced = search.surfaced
        /\ search'.apart = P
        /\ search'.folded = search.folded /\ search'.lived = search.lived
        /\ search'.credible = search.credible /\ search'.steady = search.steady
    BY <1>3 DEF SearchInv, SearchTypeOK
  <1>7. SearchTypeOK'
    BY <1>3, <1>5 DEF SearchInv, SearchTypeOK
  <1>8. Remembers'
    BY <1>2, <1>3, <1>6, StillRemembers DEF SearchInv
  <1>9. SawRight' /\ EveryEntryHasItsPlace'
    BY <1>2, <1>5, <1>6 DEF SearchInv, SawRight, EveryEntryHasItsPlace, Weighed, RowsRead, Answered, Entries
  <1> QED BY <1>7, <1>8, <1>9 DEF SearchInv

LEMMA LeaveStep ==
  ASSUME SearchInv, Leave
  PROVE  SearchInv'
  BY DEF Leave, Turns, NoSearch, SearchInv, SearchTypeOK, Remembers, SawRight, Active, Weighed, RowsRead,
         EveryEntryHasItsPlace, Answered, Entries, Given, Under

-----------------------------------------------------------------------------
(* What selectDiverse picks *)

LEMMA OrderFacts ==
  ASSUME NEW S, IsFiniteSet(S), NEW r \in Orders(S)
  PROVE  /\ \A n \in S : r[n] \in Int
         /\ \A m, n \in S : r[m] = r[n] => m = n
  BY FS_CardinalityType DEF Orders

(* The answer has at most Limit entries: the last has a place, and all the   *)
(* others are before it.                                                     *)
LEMMA PlacesBounded ==
  ASSUME RetrievalAssumption, NEW S, IsFiniteSet(S), NEW r \in Orders(S), NEW T \in SUBSET S, NEW R,
         \A n \in T : HasPlace(r, T, n, R)
  PROVE  Cardinality(T) <= Limit
  <1>1. IsFiniteSet(T) /\ Cardinality(T) \in Nat
    BY FS_Subset, FS_CardinalityType
  <1>2. CASE T = {}
    BY <1>2, FS_EmptySet DEF RetrievalAssumption
  <1>3. CASE T # {}
    <2>1. PICK x \in T : \A y \in T : r[y] <= r[x]
      BY <1>1, <1>3, OrderFacts, Greatest
    <2>2. Earlier(r, T, x) = T \ {x}
      BY <2>1, OrderFacts DEF Earlier
    <2>3. Cardinality(T \ {x}) = Cardinality(T) - 1
      BY <1>1, FS_RemoveElement
    <2>4. Cardinality(Earlier(r, T, x)) < Limit
      BY DEF HasPlace
    <2> QED BY <1>1, <2>2, <2>3, <2>4 DEF RetrievalAssumption
  <1> QED BY <1>2, <1>3

(* What is left out is named under the first that folds it, if there is one. *)
LEMMA LeftIsNamed ==
  ASSUME NEW S, IsFiniteSet(S), NEW r \in Orders(S), NEW T \in SUBSET S, NEW R,
         NEW n \in S \ T, Hosts(T, n, R) # {}
  PROVE  \E d \in FoldedUnder(r, T, S \ T, R) : d[1] = n
  <1>1. Hosts(T, n, R) \in SUBSET S
    BY DEF Hosts
  <1>2. IsFiniteSet(Hosts(T, n, R))
    BY <1>1, FS_Subset
  <1>3. PICK x \in Hosts(T, n, R) : \A y \in Hosts(T, n, R) : r[x] <= r[y]
    BY <1>1, <1>2, OrderFacts, Least
  <1>4. x \in T
    BY DEF Hosts
  <1>5. <<n, x>> \in FoldedUnder(r, T, S \ T, R)
    BY <1>3, <1>4 DEF FoldedUnder
  <1> QED BY <1>5

(* What is neither shown nor named found the places taken.                   *)
LEMMA FullUnlessNamed ==
  ASSUME RetrievalAssumption, NEW S, IsFiniteSet(S), NEW r \in Orders(S), NEW T \in SUBSET S, NEW R,
         \A n \in S : n \in T <=> HasPlace(r, T, n, R),
         NEW n \in S \ T, \A d \in FoldedUnder(r, T, S \ T, R) : d[1] # n
  PROVE  Cardinality(T) = Limit
  <1>1. Hosts(T, n, R) = {}
    BY LeftIsNamed
  <1>2. \A m \in Earlier(r, T, n) : ~Foldable({m, n}, search.apart, R)
    BY <1>1 DEF Earlier, Hosts
  <1>3. IsFiniteSet(T) /\ Cardinality(T) \in Nat
    BY FS_Subset, FS_CardinalityType
  <1>4. Earlier(r, T, n) \in SUBSET T
    BY DEF Earlier
  <1>5. Cardinality(Earlier(r, T, n)) \in Nat /\ Cardinality(Earlier(r, T, n)) <= Cardinality(T)
    BY <1>3, <1>4, FS_Subset, FS_CardinalityType
  <1>6. ~ (Cardinality(Earlier(r, T, n)) < Limit)
    BY <1>2 DEF HasPlace
  <1>7. Cardinality(T) <= Limit
    BY PlacesBounded
  <1> QED BY <1>3, <1>5, <1>6, <1>7 DEF RetrievalAssumption

LEMMA SelectStep ==
  ASSUME SearchInv, Select
  PROVE  SearchInv'
  <1>1. PICK E, R : E = Entries /\ R = Joined(Entries, "duplicate_of")
    OBVIOUS
  <1>2. PICK r \in Orders(E), T \in SUBSET E :
          /\ \A n \in E : n \in T <=> HasPlace(r, T, n, R)
          /\ Turns([search EXCEPT !.pc = "answered", !.apart = {}, !.shown = T,
                        !.folded = FoldedUnder(r, T, E \ T, R)])
    BY <1>1 DEF Select
  <1>3. PICK F : F = FoldedUnder(r, T, E \ T, R)
    OBVIOUS
  <1>4. search' = [search EXCEPT !.pc = "answered", !.apart = {}, !.shown = T, !.folded = F]
    BY <1>2, <1>3 DEF Turns
  <1>5. search.pc = "select" /\ E \subseteq Nodes /\ E = search.found \cup search.surfaced
    BY <1>1 DEF Select, Entries, SearchInv, SearchTypeOK
  <1>6. IsFiniteSet(E)
    BY <1>5, FS_Subset, RetrievalAssumption DEF RetrievalAssumption
  <1>7. /\ search'.pc = "answered" /\ search'.found = search.found /\ search'.shown = T
        /\ search'.history = search.history /\ search'.surfaced = search.surfaced
        /\ search'.apart = {}
        /\ search'.folded = F /\ search'.lived = search.lived
        /\ search'.credible = search.credible /\ search'.steady = search.steady
    BY <1>4 DEF SearchInv, SearchTypeOK
  <1>8. \A d \in F : /\ d \in E \X E /\ d[1] \notin T /\ d[2] \in T
                     /\ {d[1], d[2]} \notin search.apart
    BY <1>3 DEF FoldedUnder, Hosts, Foldable
  <1>9. SearchTypeOK'
    BY <1>4, <1>5, <1>8 DEF SearchInv, SearchTypeOK
  <1>10. Remembers'
    BY <1>7 DEF Remembers, Active
  <1>11. Entries' = E /\ Given' = T \cup {d[1] : d \in F}
    BY <1>5, <1>7 DEF Entries, Given, Under
  <1>12. SawRight'
    <2>1. Given' \subseteq Entries'
      BY <1>8, <1>11
    <2>2. /\ ~search.history => search.found \subseteq search.lived /\ search.surfaced \subseteq search.lived
          /\ search.found \subseteq search.credible
          /\ search.surfaced # {} => search.found # {}
      BY <1>5 DEF SearchInv, SawRight, Weighed, RowsRead
    <2>3. Weighed' /\ Answered'
      BY <1>7 DEF Weighed, Answered
    <2> QED BY <1>7, <2>1, <2>2, <2>3 DEF SawRight
  <1>13. E # T \cup {d[1] : d \in F} => Cardinality(T) = Limit
    <2>1. ASSUME NEW n \in E \ T, \A d \in F : d[1] # n
          PROVE  Cardinality(T) = Limit
      BY <1>2, <1>3, <1>6, <2>1, FullUnlessNamed, RetrievalAssumption
    <2>2. {d[1] : d \in F} \subseteq E
      BY <1>8
    <2>3. CASE \E n \in E \ T : \A d \in F : d[1] # n
      BY <2>1, <2>3
    <2>4. CASE \A n \in E \ T : \E d \in F : d[1] = n
      <3>1. E \subseteq T \cup {d[1] : d \in F}
        BY <2>4
      <3> QED BY <2>2, <3>1
    <2> QED BY <2>3, <2>4
  <1>14. \A d \in F : {d[1], d[2]} \notin search.steady
    BY <1>1, <1>5, <1>8 DEF SearchInv, SawRight
  <1>15. EveryEntryHasItsPlace'
    BY <1>7, <1>8, <1>11, <1>13, <1>14 DEF EveryEntryHasItsPlace
  <1> QED BY <1>9, <1>10, <1>12, <1>15 DEF SearchInv

-----------------------------------------------------------------------------
(* The specification *)

LEMMA SearchInvStep == SearchInv /\ [SearchNext]_all => SearchInv'
  <1> SUFFICES ASSUME SearchInv, [SearchNext]_all PROVE SearchInv'
    OBVIOUS
  <1>1. CASE Next /\ Meanwhile
    BY <1>1, GraphStep
  <1>2. CASE \E mode \in Modes, history \in BOOLEAN : Ask(mode, history)
    BY <1>2, AskStep
  <1>3. CASE ReadVectors \/ Weigh \/ WeighText \/ Expand
    BY <1>3, VectorsStep, WeighStep, WeighTextStep, ExpandStep
  <1>4. CASE ReadRows \/ ReadApart \/ Select \/ Leave
    BY <1>4, RowsStep, ApartStep, SelectStep, LeaveStep
  <1>5. CASE UNCHANGED all
    <2>1. UNCHANGED vars /\ search' = search
      BY <1>5 DEF all
    <2> QED BY <2>1, SameGraph DEF SearchInv, SearchTypeOK, Remembers, SawRight, Active, Weighed, RowsRead,
          EveryEntryHasItsPlace, Answered, Entries, Given, Under
  <1> QED BY <1>1, <1>2, <1>3, <1>4, <1>5 DEF SearchNext, SearchStep

(* A search holds sets of notes and of pairs, whatever its reads return.     *)
THEOREM SearchTypeCorrect == SearchSpec => []SearchTypeOK
  <1>1. SearchInv => SearchTypeOK
    BY DEF SearchInv
  <1> QED BY <1>1, InitSearchInv, SearchInvStep, PTL DEF SearchSpec

(* Unless history is asked for, an answer names only what was live and       *)
(* undistilled at some moment of the search (PgSearchRepo.filters, rowsFor). *)
THEOREM AnswersLived == SearchSpec => []AnswersWereLive
  <1>1. SearchInv => AnswersWereLive
    BY DEF SearchInv, AnswersWereLive, SawRight, RowsRead, Answered, Entries
  <1> QED BY <1>1, InitSearchInv, SearchInvStep, PTL DEF SearchSpec

(* What a search found is shown or named under what is shown, unless the     *)
(* answer is full; what supersedes another all the while is not folded with  *)
(* it (selectDiverse).                                                       *)
THEOREM EntriesHavePlaces == SearchSpec => []EveryEntryHasItsPlace
  <1>1. SearchInv => EveryEntryHasItsPlace
    BY DEF SearchInv
  <1> QED BY <1>1, InitSearchInv, SearchInvStep, PTL DEF SearchSpec

(* A note with a distrusted principal behind it throughout is in the answer  *)
(* only where the graph led to it (applyTrust, expandByRank).                *)
THEOREM RevokedComeByLinks == SearchSpec => []RevokedOnlyThroughLinks
  <1>1. SearchInv => RevokedOnlyThroughLinks
    BY DEF SearchInv, RevokedOnlyThroughLinks, SawRight, Weighed, Answered, Entries
  <1> QED BY <1>1, InitSearchInv, SearchInvStep, PTL DEF SearchSpec

=============================================================================
