------------------------------ MODULE Retrieval ------------------------------
(* A search (LocalSearchMemory) beside the graph it reads.  Each read is a   *)
(* step of its own; authors write, retire, distill and link in between.      *)
(*                                                                           *)
(* Scores are left out: whatever order they give the candidates is possible, *)
(* and which two are similar enough to fold is a constant.  The caps on one  *)
(* read (CANDIDATE_CAP, FUSE_CAP, pprFrontier) are above what an instance    *)
(* holds.  Searches of the past (as_of, valid_at), of code, and by project,  *)
(* kind or age are left out.                                                 *)
EXTENDS MemoryGraph

CONSTANTS
    Textual,      \* the notes whose text has a word of the query
    Near,         \* the notes whose vector is near that of the query
    Alike,        \* the pairs of notes whose vectors are as good as the same
    Distrusted,   \* the notes that a principal of weight 0 wrote or revised
    Limit,        \* how many results are wanted
    Hops,         \* PPR_DEPTH
    OriginDepth   \* ORIGIN_DEPTH

Modes == {"text", "vector", "hybrid"}

ASSUME RetrievalAssumption ==
    /\ IsFiniteSet(Nodes)
    /\ Textual \cup Near \cup Distrusted \subseteq Nodes
    /\ Alike \subseteq SUBSET Nodes
    /\ Limit \in Nat \ {0} /\ Hops \in Nat /\ OriginDepth \in Nat

VARIABLE search

(* found: the entries the query matched; surfaced: what the graph adds;      *)
(* apart: the pairs that supersede; shown, folded: the answer.  And of what  *)
(* has been true since the search began: lived, the notes it was right to    *)
(* see; credible, those with nobody distrusted behind them; steady, the      *)
(* pairs that supersede all along.                                           *)
NoSearch == [pc |-> "idle", history |-> FALSE, found |-> {}, surfaced |-> {},
             apart |-> {}, shown |-> {}, folded |-> {},
             lived |-> {}, credible |-> {}, steady |-> {}]

all == <<vars, search>>

SearchInit == Init /\ search = NoSearch

-----------------------------------------------------------------------------
(* What the reads ask *)

(* Neither retired nor, if it is an episode, absorbed by a distill. *)
Current(n) == Alive(n) /\ n \notin consolidated

(* slip: an absorbed episode is found like any other *)
MatchingAlive(S, history) == {n \in S : IF history THEN Exists(n) ELSE Alive(n)}

Matching(S, history) == {n \in S : IF history THEN Exists(n) ELSE Current(n)}

OriginTypes == {"derived_from", "supersedes"} \cap EdgeTypes

(* What the notes of S were distilled from or took the place of, with them. *)
WithSourcesOf(S) == S \cup {m \in Nodes : \E n \in S, t \in OriginTypes : Drawn(<<n, m, t>>)}

Origins(n) ==
    LET back[k \in 0 .. OriginDepth] == IF k = 0 THEN {n} ELSE WithSourcesOf(back[k - 1])
    IN  back[OriginDepth]

Revoked(n) == Origins(n) \cap Distrusted # {}

(* Rank flows along these, both ways, and through live notes only. *)
Traversable == {"derived_from", "documents", "references", "relates_to", "similar_to"}

WithNeighborsOf(S) ==
    S \cup {m \in Nodes : Alive(m) /\ \E n \in S : \E e \in Between(n, m) :
                             Drawn(e) /\ e[3] \in Traversable}

Reached(S) ==
    LET out[k \in 0 .. Hops] ==
          IF k = 0 THEN {n \in S : Alive(n)} ELSE WithNeighborsOf(out[k - 1])
    IN  {n \in Nodes : n \in out[Hops]}

Joined(S, type) == {{e[1], e[2]} : e \in {f \in S \X S \X {type} : f[3] \in EdgeTypes /\ Drawn(f)}}

(* slip: a reviewed duplicate folds even what supersedes *)
FoldableRecorded(p, apart, recorded) == p \in recorded \/ p \in Alike \ apart

Foldable(p, apart, recorded) == p \notin apart /\ p \in recorded \cup Alike

(* selectDiverse picks in an order the scores give: an entry has a place     *)
(* unless an earlier one with a place folds it, or the places are taken.     *)
Orders(S) == {r \in [S -> 1 .. Cardinality(S)] : \A m, n \in S : r[m] = r[n] => m = n}

Earlier(r, shown, n) == {m \in shown : r[m] < r[n]}

HasPlace(r, shown, n, recorded) ==
    /\ \A m \in Earlier(r, shown, n) : ~Foldable({m, n}, search.apart, recorded)
    /\ Cardinality(Earlier(r, shown, n)) < Limit

Hosts(shown, n, recorded) == {m \in shown : Foldable({m, n}, search.apart, recorded)}

(* What has no place goes under the first that folds it. *)
FoldedUnder(r, shown, left, recorded) ==
    {d \in left \X shown : /\ d[2] \in Hosts(shown, d[1], recorded)
                           /\ \A m \in Hosts(shown, d[1], recorded) : r[d[2]] <= r[m]}

-----------------------------------------------------------------------------
(* The search *)

Turns(s) == search' = s /\ UNCHANGED vars

(* The text is searched first, unless the search is by vectors alone.  No    *)
(* more is noted of the past than the search can come to depend on.          *)
Ask(mode, history) ==
    /\ search.pc = "idle"
    /\ Turns([NoSearch EXCEPT
                !.pc = IF mode = "text" THEN "cut" ELSE "vectors",
                !.history = history,
                !.found = IF mode = "vector" THEN {} ELSE Matching(Textual, history),
                !.lived = IF history THEN {} ELSE {n \in Nodes : Current(n)},
                !.credible = {n \in Nodes : ~Revoked(n)},
                !.steady = IF mode = "text" THEN {} ELSE Joined(Nodes, "supersedes")])

(* A model that does not answer leaves what the text found. *)
ReadVectors ==
    /\ search.pc = "vectors"
    /\ \E rows \in {{}, Matching(Near, search.history)} :
         Turns([search EXCEPT !.pc = "weigh", !.found = search.found \cup rows])

(* slip: who wrote it counts, not what it was made of *)
TrustedByAuthor == search.found \ Distrusted

Trusted == {n \in search.found : ~Revoked(n)}

(* applyTrust.  The caller may do without the graph. *)
Weigh ==
    /\ search.pc = "weigh"
    /\ \E pc \in {"expand", "apart"} :
         /\ Trusted = {} => pc = "apart"
         /\ Turns([search EXCEPT !.pc = pc, !.found = Trusted])

(* The rest of a search by text alone: the best of what is trusted. *)
WeighText ==
    /\ search.pc = "cut"
    /\ \E top \in SUBSET Trusted :
         /\ Cardinality(top) <= Limit
         /\ top # Trusted => Cardinality(top) = Limit
         /\ Turns([search EXCEPT !.pc = "answered", !.found = Trusted, !.shown = top])

(* expandByRank: the subgraph, and then the rows of what it ranks. *)
Expand ==
    /\ search.pc = "expand"
    /\ Turns([search EXCEPT !.pc = "rows", !.surfaced = Reached(search.found) \ search.found])

ReadRows ==
    /\ search.pc = "rows"
    /\ Turns([search EXCEPT !.pc = "apart",
                 !.surfaced = {n \in search.surfaced : Alive(n) /\ (search.history \/ Current(n))}])

Entries == search.found \cup search.surfaced

ReadApart ==
    /\ search.pc = "apart"
    /\ Turns([search EXCEPT !.pc = "select", !.apart = Joined(Entries, "supersedes")])

Select ==
    /\ search.pc = "select"
    /\ \E r \in Orders(Entries), shown \in SUBSET Entries :
         LET recorded == Joined(Entries, "duplicate_of")
         IN  /\ \A n \in Entries : n \in shown <=> HasPlace(r, shown, n, recorded)
             /\ Turns([search EXCEPT !.pc = "answered", !.apart = {}, !.shown = shown,
                          !.folded = FoldedUnder(r, shown, Entries \ shown, recorded)])

Leave == search.pc = "answered" /\ Turns(NoSearch)

SearchStep ==
    \/ \E mode \in Modes, history \in BOOLEAN : Ask(mode, history)
    \/ ReadVectors \/ Weigh \/ WeighText \/ Expand \/ ReadRows \/ ReadApart \/ Select \/ Leave

(* The graph goes on, and with it what has been true since the search began. *)
Meanwhile ==
    search' = IF search.pc \in {"idle", "answered"} THEN search
              ELSE [search EXCEPT
                      !.lived = IF search.history THEN {}
                                ELSE search.lived \cup {n \in Nodes : Current(n)'},
                      !.credible = search.credible \cup {n \in Nodes : ~Revoked(n)'},
                      !.steady = search.steady \cap Joined(Nodes, "supersedes")']

SearchNext == (Next /\ Meanwhile) \/ SearchStep

SearchSpec == SearchInit /\ [][SearchNext]_all

-----------------------------------------------------------------------------
(* Properties *)

Pairs == SUBSET Nodes

SearchTypeOK ==
    search \in [pc : {"idle", "vectors", "cut", "weigh", "expand", "rows", "apart", "select", "answered"},
                history : BOOLEAN, found : SUBSET Nodes, surfaced : SUBSET Nodes,
                apart : SUBSET Pairs, shown : SUBSET Nodes, folded : SUBSET (Nodes \X Nodes),
                lived : SUBSET Nodes, credible : SUBSET Nodes, steady : SUBSET Pairs]

Answered == search.pc = "answered"
Under == {d[1] : d \in search.folded}
Given == search.shown \cup Under

(* Unless history is asked for, whatever an answer names, a folded duplicate *)
(* and a note only the graph led to included, was live and undistilled at    *)
(* some moment of the search: no mix of its reads brings back what was gone  *)
(* before it began (PgSearchRepo.filters, rowsFor).                          *)
AnswersWereLive == Answered /\ ~search.history => Given \subseteq search.lived

(* Nothing is hidden (README.md:297): what a search found is shown, or named *)
(* under one that is, unless the answer is full; and what supersedes another *)
(* all the while is never folded with it, though the pairs are read when the *)
(* entries are old, and the reviewed duplicates later still (selectDiverse). *)
EveryEntryHasItsPlace ==
    Answered =>
      /\ Entries # Given => Cardinality(search.shown) = Limit
      /\ \A d \in search.folded : /\ d[1] \notin search.shown /\ d[2] \in search.shown
                                  /\ {d[1], d[2]} \notin search.steady

(* A note with a distrusted principal behind it at every moment of the       *)
(* search, at whatever remove, is in the answer only where the graph led to  *)
(* it, and the graph is not asked where nothing trusted matched (applyTrust, *)
(* expandByRank).                                                            *)
RevokedOnlyThroughLinks ==
    Answered => /\ Given \ search.surfaced \subseteq search.credible
                /\ search.surfaced # {} => \E n \in search.found : n \in search.credible

=============================================================================
