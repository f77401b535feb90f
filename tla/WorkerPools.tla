----------------------------- MODULE WorkerPools -----------------------------
(* The daemon's worker threads: the read pool (read-pool.ts over             *)
(* node-pool-worker.ts), the code parser, which is spawned again after a     *)
(* crash (code-worker-pool.ts), and the embedding model, which is not        *)
(* (worker-provider.ts); and a search, which asks the model for its vector   *)
(* before it goes to the pool (daemon.ts, embedForRead).                     *)
(*                                                                           *)
(* A step is one event of the daemon's thread.  A worker that dies is heard  *)
(* of twice, by its error event and then by its exit event, or by its exit   *)
(* alone.                                                                    *)
EXTENDS Naturals, Sequences, FiniteSets, FiniteSetsExt

CONSTANTS
    Searches,      \* data reads, which need a vector
    ControlReads,  \* stats_snapshot, operator_snapshot
    Parses,        \* calls of the code parser
    Endless,       \* the reads among them that never come back
    Size,          \* threads of the read pool
    ControlSlots,  \* those held back for control reads
    MaxDeaths      \* bound: threads that die

Reads == Searches \cup ControlReads
Calls == Reads \cup Parses

ASSUME PoolsAssumption ==
    /\ IsFiniteSet(Calls)
    /\ Searches \cap ControlReads = {} /\ Reads \cap Parses = {}
    /\ Endless \subseteq Reads
    /\ Size \in Nat \ {0} /\ ControlSlots \in Nat /\ MaxDeaths \in Nat

Slots == 1 .. Size

(* The first slots are the control slots; one worker alone is both lanes. *)
Control == IF Size > 1 THEN 1 .. Min({ControlSlots, Size - 1}) ELSE {}

(* A parse spawns one thread at most. *)
Parsers == 1 .. Cardinality(Parses)

VARIABLES
    call,     \* what each call is doing, and the thread it was posted to
    slot,     \* the slots of the pool: a thread and a flag
    waiting,  \* the pool's queue
    parser,   \* the field `worker` of WorkerCodeParser, 0 when null
    parsers,  \* the threads it has spawned
    model,    \* the thread of WorkerEmbeddingProvider
    dead,     \* its field `dead`
    closed,   \* the daemon is shutting down
    deaths

poolVars == <<call, slot, waiting, parser, parsers, model, dead, closed, deaths>>

Entry == [pc : {"idle", "embedding", "waiting", "posted", "parsing", "answered", "failed"},
          at : Nat]

Thread == {"live", "erred", "gone"}

Settled == {"answered", "failed"}

PoolsInit ==
    /\ call = [c \in Calls |-> [pc |-> "idle", at |-> 0]]
    /\ slot = [s \in Slots |-> [thread |-> "live", busy |-> FALSE]]
    /\ waiting = <<>>
    /\ parser = 0 /\ parsers = [p \in Parsers |-> "none"]
    /\ model = "live" /\ dead = FALSE
    /\ closed = FALSE /\ deaths = 0

pool == <<slot, waiting>>
threads == <<parser, parsers, model, dead>>
-----------------------------------------------------------------------------
(* The read pool *)

Queued == {waiting[i] : i \in 1 .. Len(waiting)}

MayUse(c, s) == s \in Control => c \in ControlReads

(* The slot `free` finds, 0 for none: control slots come first. *)
Free(c, slots) ==
    LET open == {s \in Slots : ~slots[s].busy /\ MayUse(c, s)}
    IN  IF open = {} THEN 0 ELSE Min(open)

Taken(slots, s) == [slots EXCEPT ![s].busy = TRUE]

(* slip: whoever is first blocks the rest *)
DrainHead(queue, slots) ==
    LET s == IF queue = <<>> THEN 0 ELSE Free(Head(queue), slots)
    IN  IF s = 0 THEN [queue |-> queue, slots |-> slots, posted |-> {}]
        ELSE [queue |-> Tail(queue), slots |-> Taken(slots, s), posted |-> {<<Head(queue), s>>}]

(* A call with no slot is passed over.                                       *)
Offered(before, c) ==
    LET s == Free(c, before.slots)
    IN  IF s = 0 THEN [before EXCEPT !.queue = Append(before.queue, c)]
        ELSE [before EXCEPT !.slots = Taken(before.slots, s),
                            !.posted = before.posted \cup {<<c, s>>}]

(* The queue is gone through once, in order.                                 *)
Drain(queue, slots) ==
    LET after[i \in 0 .. Len(queue)] ==
          IF i = 0 THEN [queue |-> <<>>, slots |-> slots, posted |-> {}]
          ELSE Offered(after[i - 1], queue[i])
    IN  after[Len(queue)]

InFlight(s) == {c \in Reads : call[c].pc = "posted" /\ call[c].at = s}

(* The end of every event of a slot: its calls settle, it is free, and the   *)
(* queue is drained.                                                         *)
SlotFreed(s, slots, outcome) ==
    LET d == Drain(waiting, [slots EXCEPT ![s].busy = FALSE])
    IN  /\ waiting' = d.queue
        /\ slot' = d.slots
        /\ call' = [c \in Calls |->
                      IF c \in InFlight(s) THEN [pc |-> outcome, at |-> 0]
                      ELSE IF \E t \in Slots : <<c, t>> \in d.posted
                      THEN [pc |-> "posted", at |-> CHOOSE t \in Slots : <<c, t>> \in d.posted]
                      ELSE call[c]]

(* ReadPool.invoke *)
Invoke(c) ==
    LET s == Free(c, slot)
    IN  \/ /\ closed
           /\ call' = [call EXCEPT ![c] = [pc |-> "failed", at |-> 0]]
           /\ UNCHANGED pool
        \/ /\ ~closed /\ s # 0
           /\ call' = [call EXCEPT ![c] = [pc |-> "posted", at |-> s]]
           /\ slot' = Taken(slot, s)
           /\ UNCHANGED waiting
        \/ /\ ~closed /\ s = 0
           /\ call' = [call EXCEPT ![c] = [pc |-> "waiting", at |-> 0]]
           /\ waiting' = Append(waiting, c)
           /\ UNCHANGED slot

Answer(s) ==
    /\ ~closed /\ slot[s].thread = "live" /\ InFlight(s) # {}
    /\ SlotFreed(s, slot, "answered")
    /\ UNCHANGED <<threads, closed, deaths>>

(* One death is two events, and both run the handler of onError. *)
ReaderErrors(s) ==
    /\ ~closed /\ slot[s].thread = "live" /\ deaths < MaxDeaths
    /\ deaths' = deaths + 1
    /\ SlotFreed(s, [slot EXCEPT ![s].thread = "erred"], "failed")
    /\ UNCHANGED <<threads, closed>>

ReaderExits(s) ==
    /\ ~closed
    /\ \/ slot[s].thread = "erred" /\ UNCHANGED deaths
       \/ slot[s].thread = "live" /\ deaths < MaxDeaths /\ deaths' = deaths + 1
    /\ SlotFreed(s, [slot EXCEPT ![s].thread = "gone"], "failed")
    /\ UNCHANGED <<threads, closed>>
-----------------------------------------------------------------------------
(* The embedding model *)

(* A search asks for its vector first, and goes on without one when the      *)
(* model is dead.                                                            *)
Search(c) ==
    /\ call[c].pc = "idle"
    /\ \/ /\ ~dead
          /\ call' = [call EXCEPT ![c] = [pc |-> "embedding", at |-> 0]]
          /\ UNCHANGED pool
       \/ dead /\ Invoke(c)
    /\ UNCHANGED <<threads, closed, deaths>>

ControlRead(c) ==
    /\ call[c].pc = "idle"
    /\ Invoke(c)
    /\ UNCHANGED <<threads, closed, deaths>>

(* The vector, or the model's refusal of the text. *)
Embedded(c) ==
    /\ call[c].pc = "embedding" /\ model = "live"
    /\ Invoke(c)
    /\ UNCHANGED <<threads, closed, deaths>>

(* slip: an error is not remembered *)
Forgets == FALSE

(* The field `dead` after an error or an exit. *)
DeadAfter == TRUE

(* The embeds in hand are rejected, and each search among them goes on to    *)
(* the pool in its turn: `at` = 1 marks those that no answer will reach.     *)
ModelFails(thread) ==
    /\ model' = thread /\ dead' = DeadAfter
    /\ call' = [c \in Calls |-> IF call[c].pc = "embedding"
                                THEN [call[c] EXCEPT !.at = 1] ELSE call[c]]
    /\ UNCHANGED <<pool, parser, parsers, closed>>

ModelErrors ==
    /\ model = "live" /\ deaths < MaxDeaths /\ deaths' = deaths + 1
    /\ ModelFails("erred")

ModelExits ==
    /\ \/ model = "erred" /\ UNCHANGED deaths
       \/ model = "live" /\ deaths < MaxDeaths /\ deaths' = deaths + 1
    /\ ModelFails("gone")

Unembedded(c) ==
    /\ call[c].pc = "embedding" /\ call[c].at = 1
    /\ Invoke(c)
    /\ UNCHANGED <<threads, closed, deaths>>
-----------------------------------------------------------------------------
(* The code parser *)

Parse(c) ==
    /\ call[c].pc = "idle"
    /\ LET p == IF parser # 0 THEN parser
                ELSE Min({q \in Parsers : parsers[q] = "none"})
       IN  /\ parser' = p
           /\ parsers' = [parsers EXCEPT ![p] = IF parser = 0 THEN "live" ELSE @]
           /\ call' = [call EXCEPT ![c] = [pc |-> "parsing", at |-> p]]
    /\ UNCHANGED <<pool, model, dead, closed, deaths>>

Parsed(c) ==
    /\ call[c].pc = "parsing" /\ parsers[call[c].at] = "live"
    /\ call' = [call EXCEPT ![c] = [pc |-> "answered", at |-> 0]]
    /\ UNCHANGED <<pool, threads, closed, deaths>>

(* slip: whichever thread it is *)
IsAny(p) == TRUE

IsCurrent(p) == parser = p

(* What fails is every call pending: that of a thread which is not the       *)
(* current one fails nobody.                                                 *)
RetireParser(p) ==
    IF IsCurrent(p)
    THEN /\ parser' = 0
         /\ call' = [c \in Calls |-> IF call[c].pc = "parsing"
                                     THEN [pc |-> "failed", at |-> 0] ELSE call[c]]
    ELSE UNCHANGED <<parser, call>>

ParserErrors(p) ==
    /\ parsers[p] = "live" /\ deaths < MaxDeaths /\ deaths' = deaths + 1
    /\ parsers' = [parsers EXCEPT ![p] = "erred"]
    /\ RetireParser(p)
    /\ UNCHANGED <<pool, model, dead, closed>>

ParserExits(p) ==
    /\ \/ parsers[p] = "erred" /\ UNCHANGED deaths
       \/ parsers[p] = "live" /\ deaths < MaxDeaths /\ deaths' = deaths + 1
    /\ parsers' = [parsers EXCEPT ![p] = "gone"]
    /\ RetireParser(p)
    /\ UNCHANGED <<pool, model, dead, closed>>

(* The daemon's shutdown closes the pool and the parser; a parse that comes  *)
(* after it has a new thread.                                                *)
ShutDown ==
    /\ ~closed /\ closed' = TRUE
    /\ call' = [c \in Calls |-> IF call[c].pc \in {"waiting", "posted", "parsing"}
                                THEN [pc |-> "failed", at |-> 0] ELSE call[c]]
    /\ waiting' = <<>> /\ parser' = 0
    /\ slot' = [s \in Slots |-> [thread |-> "gone", busy |-> FALSE]]
    /\ parsers' = [p \in Parsers |-> IF p = parser THEN "erred" ELSE parsers[p]]
    /\ UNCHANGED <<model, dead, deaths>>
-----------------------------------------------------------------------------
PoolsNext ==
    \/ \E c \in Searches : Search(c) \/ Embedded(c) \/ Unembedded(c)
    \/ \E c \in ControlReads : ControlRead(c)
    \/ \E c \in Parses : Parse(c) \/ Parsed(c)
    \/ \E s \in Slots : Answer(s) \/ ReaderErrors(s) \/ ReaderExits(s)
    \/ \E p \in Parsers : ParserErrors(p) \/ ParserExits(p)
    \/ ModelErrors \/ ModelExits \/ ShutDown

PoolsSpec == PoolsInit /\ [][PoolsNext]_poolVars

(* A thread that lives comes back with what it was given, and the exit of    *)
(* one whose error was heard comes.  Nothing is asked of an Endless read.    *)
Returns ==
    \/ \E s \in Slots : \/ InFlight(s) \cap Endless = {} /\ Answer(s)
                        \/ slot[s].thread = "erred" /\ ReaderExits(s)
    \/ \E c \in Searches : Embedded(c) \/ Unembedded(c)
    \/ \E c \in Parses : Parsed(c)

(* Each call takes a bounded number of these steps: when they are taken for  *)
(* as long as there are any, each of them is.                                *)
PoolsFairSpec == PoolsSpec /\ WF_poolVars(Returns)
-----------------------------------------------------------------------------
(* Properties *)

(* Types; a slot is busy exactly while one call is posted to it, and a call  *)
(* is in the queue exactly while it waits.                                   *)
PoolsTypeOK ==
    /\ call \in [Calls -> Entry]
    /\ slot \in [Slots -> [thread : Thread, busy : BOOLEAN]]
    /\ waiting \in Seq(Reads)
    /\ parser \in Parsers \cup {0} /\ parsers \in [Parsers -> Thread \cup {"none"}]
    /\ model \in Thread /\ dead \in BOOLEAN /\ closed \in BOOLEAN
    /\ deaths \in 0 .. MaxDeaths
    /\ \A s \in Slots : Cardinality(InFlight(s)) = IF slot[s].busy THEN 1 ELSE 0
    /\ Queued = {c \in Calls : call[c].pc = "waiting"}

(* Nobody waits beside a free slot it may use, whatever waits before it: a   *)
(* status read does not queue behind searches (read-surface.ts:33).          *)
NobodyWaitsInVain == \A c \in Queued : Free(c, slot) = 0

(* A call that was handed to a thread fails only when that thread dies, and  *)
(* not with one that was there before it (code-worker-pool.ts:87).           *)
FailsWithItsThread ==
    [][\A c \in Calls : call'[c].pc = "failed" =>
          /\ call[c].pc = "posted" =>
                closed' \/ slot'[call[c].at].thread # "live"
          /\ call[c].pc = "parsing" => parsers'[call[c].at] # "live"]_poolVars

(* No thread will ever come back to this read: it was posted to one that is  *)
(* gone, or every slot it may use is held by a read of that kind.  onError   *)
(* frees the slot of a dead thread and puts nothing in its place.            *)
Lost(s) == slot[s].thread = "gone" \/ InFlight(s) \cap Endless # {}

Stranded(c) ==
    \/ call[c].pc = "posted" /\ Lost(call[c].at)
    \/ call[c].pc = "waiting" /\ \A s \in Slots : MayUse(c, s) => Lost(s)

(* Every call settles: a search also when the model dies under it, a parse   *)
(* also when its thread does.  (A call that has settled or is stranded       *)
(* stays so, hence one formula for all of them.)                             *)
EveryCallEnds ==
    []<>(\A c \in Calls : call[c].pc \in Settled \cup {"idle"} \/ Stranded(c))

(* "A dead worker fails only the call it was running.  Replacing the slot    *)
(* keeps the pool's capacity constant" (read-pool.ts:109): a read is posted  *)
(* to a thread that lives.                                                   *)
PostedToTheLiving ==
    \A c \in Reads : call[c].pc = "posted" => slot[call[c].at].thread = "live"
=============================================================================
