--------------------------- MODULE RpcChannel_proofs --------------------------
(* Proofs about RpcChannel, for any number of calls and however often the    *)
(* daemon stops: the sockets and the ids suffice, a write runs once at most, *)
(* one that failed unsent never, and an answer reaches the call it is of.    *)
EXTENDS RpcChannel, FiniteSetTheorems, FunctionTheorems, WellFoundedInduction, TLAPS

Record == [pc : {"idle", "connecting", "sent", "answered", "failed"}, again : BOOLEAN, id : Nat,
           fate : {"none", "slow", "lost", "unsent"}, got : Calls \cup {None}]

Packet == [sock : Sockets, id : Nat \ {0}, who : Calls, at : {"sent", "running", "answered"}]

SocketStates == {"unused", "connecting", "open", "ended", "destroyed", "closed"}

(* Types, but for how large an id can be. *)
CallShape ==
    /\ call \in [Calls -> Record] /\ nextId \in Nat \ {0}
    /\ \A c \in Calls : /\ call[c].fate # "none" => call[c].pc = "failed"
                        /\ call[c].pc = "idle" => ~call[c].again
                        /\ call[c].pc = "sent" => call[c].id # 0

FrameShape == frames \subseteq Packet /\ served \subseteq Sockets /\ ran \in [Calls -> Nat]

SocketShape ==
    /\ sock \in [Sockets -> SocketStates]
    /\ current \in Sockets \cup {0} /\ opening \in Sockets \cup {0}
    /\ opening # 0 => sock[opening] # "unused"
    /\ Waiting # {} <=> opening # 0
    /\ current # 0 => sock[current] \in {"connecting", "open", "ended"}

DaemonShape == daemon \in {"up", "closing", "down"} /\ stops \in 0 .. MaxStops

-----------------------------------------------------------------------------
(* What a step does to the calls *)

(* The calls cs write their frames, on socket s. *)
Sends(cs, s) ==
    /\ call' \in [Calls -> Record]
    /\ nextId' = nextId + Cardinality(cs)
    /\ \A c \in cs :
         /\ call[c].pc \in {"idle", "connecting"}
         /\ call'[c].pc = "sent" /\ call'[c].again = call[c].again /\ call'[c].fate = call[c].fate
         /\ nextId <= call'[c].id /\ call'[c].id < nextId'
    /\ \A c, d \in cs : call'[c].id = call'[d].id => c = d
    /\ \A c \in Calls \ cs : call'[c] = call[c]
    /\ frames \subseteq frames'
    /\ \A f \in frames' \ frames :
         \E c \in cs : f = [sock |-> s, id |-> call'[c].id, who |-> c, at |-> "sent"]

Answered(f) == [Idle EXCEPT !.pc = "answered", !.got = f.who]

(* What happens to a call otherwise. *)
Moves(c) ==
    \/ call'[c] = call[c]
    \/ call[c].pc = "idle" /\ call'[c] = [call[c] EXCEPT !.pc = "connecting"]
    \/ /\ c \in Retryable /\ ~call[c].again /\ call[c].pc \in {"connecting", "sent"}
       /\ call'[c] = Retried(c)
    \/ call[c].pc = "sent" /\ \E fate \in {"slow", "lost"} : call'[c] = Failed(fate)
    \/ call[c].pc = "connecting" /\ call'[c] = Failed("unsent")
    \/ /\ call[c].pc = "sent"
       /\ \E f \in frames : f.at = "answered" /\ f.id = call[c].id /\ call'[c] = Answered(f)

(* A step that sends nothing and serves nothing. *)
Settles ==
    /\ \E g : call' = [c \in Calls |-> g[c]]
    /\ \A c \in Calls : Moves(c)
    /\ nextId' = nextId /\ ran' = ran /\ frames' \subseteq frames

(* A finite set has an id for each of its members. *)
LEMMA IdsExist ==
  ASSUME CallShape, NEW cs \in SUBSET Calls
  PROVE  /\ IsFiniteSet(cs) /\ Cardinality(cs) \in Nat
         /\ \A c \in cs : /\ IdsOf(cs)[c] \in Nat /\ nextId <= IdsOf(cs)[c]
                          /\ IdsOf(cs)[c] < nextId + Cardinality(cs)
         /\ \A c, d \in cs : IdsOf(cs)[c] = IdsOf(cs)[d] => c = d
  <1>1. IsFiniteSet(cs) /\ Cardinality(cs) \in Nat
    BY ChannelAssumption, FS_Subset, FS_CardinalityType DEF ChannelAssumption
  <1>2. PICK k \in Nat, n \in Nat : k = Cardinality(cs) /\ n = nextId
    BY <1>1 DEF CallShape
  <1>3. NewIds(cs) = n .. n + k - 1
    BY <1>2 DEF NewIds
  <1>4. IsFiniteSet(n .. n + k - 1) /\ Cardinality(n .. n + k - 1) = k
    <2>1. n \in Int /\ n + k - 1 \in Int
      OBVIOUS
    <2>2. /\ IsFiniteSet(n .. n + k - 1)
          /\ Cardinality(n .. n + k - 1) = IF n > n + k - 1 THEN 0 ELSE n + k - 1 - n + 1
      BY <2>1, FS_Interval
    <2>3. (IF n > n + k - 1 THEN 0 ELSE n + k - 1 - n + 1) = k
      OBVIOUS
    <2> QED BY <2>2, <2>3
  <1>5. Bijection(cs, NewIds(cs)) # {}
    BY <1>1, <1>2, <1>3, <1>4, FS_SameCardinalityBij DEF ExistsBijection
  <1>6. IdsOf(cs) \in Bijection(cs, NewIds(cs))
    BY <1>5 DEF IdsOf
  <1>7. IdsOf(cs) \in [cs -> NewIds(cs)] /\ \A c, d \in cs : IdsOf(cs)[c] = IdsOf(cs)[d] => c = d
    BY <1>6 DEF Bijection, Injection, IsInjective
  <1>8. ASSUME NEW c \in cs
        PROVE  IdsOf(cs)[c] \in Nat /\ n <= IdsOf(cs)[c] /\ IdsOf(cs)[c] < n + k
    <2>1. IdsOf(cs)[c] \in n .. n + k - 1
      BY <1>3, <1>7
    <2> QED BY <2>1
  <1> QED BY <1>1, <1>2, <1>7, <1>8

LEMMA RequestSends ==
  ASSUME CallShape, NEW cs \in SUBSET Calls, \A c \in cs : call[c].pc \in {"idle", "connecting"},
         NEW s, Request(cs, s)
  PROVE  Sends(cs, s)
  <1>1. PICK id : id = IdsOf(cs)
    OBVIOUS
  <1>2. /\ call' = [c \in Calls |->
                      IF c \in cs THEN [call[c] EXCEPT !.pc = "sent", !.id = id[c]] ELSE call[c]]
        /\ nextId' = nextId + Cardinality(cs)
        /\ frames' = frames \cup
              {[sock |-> s, id |-> id[c], who |-> c, at |-> "sent"] :
                 c \in {x \in cs : s \in served'}}
    BY <1>1 DEF Request
  <1>3. /\ \A c \in cs : id[c] \in Nat /\ nextId <= id[c] /\ id[c] < nextId'
        /\ \A c, d \in cs : id[c] = id[d] => c = d
    BY <1>1, <1>2, IdsExist
  <1>4. ASSUME NEW c \in cs
        PROVE  /\ call'[c] \in Record /\ call'[c].pc = "sent" /\ call'[c].again = call[c].again
               /\ call'[c].fate = call[c].fate /\ call'[c].id = id[c]
    <2>1. call'[c] = [call[c] EXCEPT !.pc = "sent", !.id = id[c]] /\ id[c] \in Nat
      BY <1>2, <1>3
    <2>2. call[c] \in Record
      BY DEF CallShape
    <2> QED BY <2>1, <2>2 DEF Record
  <1>5. \A c \in Calls \ cs : call'[c] = call[c]
    BY <1>2
  <1>6. call' \in [Calls -> Record]
    BY <1>2, <1>4, <1>5 DEF CallShape
  <1>7. ASSUME NEW f \in frames' \ frames
        PROVE  \E c \in cs : f = [sock |-> s, id |-> call'[c].id, who |-> c, at |-> "sent"]
    <2>1. PICK c \in cs : f = [sock |-> s, id |-> id[c], who |-> c, at |-> "sent"]
      BY <1>2, <1>7
    <2> QED BY <1>4, <2>1
  <1>8. frames \subseteq frames'
    BY <1>2
  <1>9. \A c, d \in cs : call'[c].id = call'[d].id => c = d
    BY <1>3, <1>4
  <1>10. \A c \in cs : nextId <= call'[c].id /\ call'[c].id < nextId'
    BY <1>3, <1>4
  <1> QED BY <1>2, <1>4, <1>5, <1>6, <1>7, <1>8, <1>9, <1>10 DEF Sends

(* A recovery tries the calls `again` once more and gives the others up. *)
Recovers(swept, again, unsent) ==
    \A c \in Calls :
        /\ c \in again => call'[c] = Retried(c)
        /\ c \notin again /\ c \in swept => call'[c] = Failed("lost")
        /\ c \notin again /\ c \notin swept /\ c \in unsent => call'[c] = Failed("unsent")
        /\ c \notin again /\ c \notin swept /\ c \notin unsent => call'[c] = call[c]

LEMMA RecoverCalls ==
  ASSUME NEW lost \in SUBSET Pending, NEW unsent \in SUBSET Waiting, NEW ends, NEW cur, NEW opn,
         Recover(lost, unsent, ends, cur, opn)
  PROVE  /\ \E swept, again :
              /\ swept \in SUBSET Pending /\ again = Retries(swept \cup unsent)
              /\ Recovers(swept, again, unsent)
              /\ Reopen(again, ends, cur, opn)
         /\ \E g : call' = [c \in Calls |-> g[c]]
         /\ frames' \subseteq frames /\ nextId' = nextId
  <1>1. PICK swept, again :
          /\ swept = Swept(lost, unsent) /\ again = Retries(swept \cup unsent)
          /\ call' = [c \in Calls |->
                     IF c \in again THEN Retried(c)
                     ELSE IF c \in swept THEN Failed(FateSent)
                     ELSE IF c \in unsent THEN Failed("unsent")
                     ELSE call[c]]
          /\ Reopen(again, ends, cur, opn)
          /\ frames' \subseteq frames /\ nextId' = nextId
    BY DEF Recover
  <1>2. Recovers(swept, again, unsent)
    BY <1>1 DEF Recovers, FateSent
  <1>3. call' = [c \in Calls |-> call'[c]]
    BY <1>1
  <1>4. swept \in SUBSET Pending
    BY <1>1 DEF Swept
  <1> QED BY <1>1, <1>2, <1>3, <1>4

(* Which calls recover, and which are given up. *)
LEMMA RecoverMoves ==
  ASSUME NEW lost \in SUBSET Pending, NEW unsent \in SUBSET Waiting, NEW ends, NEW cur,
         NEW opn, Recover(lost, unsent, ends, cur, opn), ran' = ran
  PROVE  Settles
  <1>1. PICK swept, again :
          /\ swept \in SUBSET Pending /\ again = Retries(swept \cup unsent)
          /\ Recovers(swept, again, unsent)
    BY RecoverCalls
  <1>2. \A c \in Calls : Moves(c)
    <2> SUFFICES ASSUME NEW c \in Calls PROVE Moves(c)
      OBVIOUS
    <2>1. CASE c \in again
      <3>1. c \in Retryable /\ ~call[c].again /\ call[c].pc \in {"connecting", "sent"}
        BY <1>1, <2>1 DEF Retries, Pending, Waiting
      <3> QED BY <1>1, <2>1, <3>1 DEF Moves, Recovers
    <2>2. CASE c \notin again /\ c \in swept
      BY <1>1, <2>2 DEF Moves, Pending, Recovers
    <2>3. CASE c \notin again /\ c \notin swept /\ c \in unsent
      BY <1>1, <2>3 DEF Moves, Waiting, Recovers
    <2>4. CASE c \notin again /\ c \notin swept /\ c \notin unsent
      BY <1>1, <2>4 DEF Moves, Recovers
    <2> QED BY <2>1, <2>2, <2>3, <2>4
  <1> QED BY <1>2, RecoverCalls DEF Settles

(* The daemon takes a frame up, or has served it. *)
Serves == UNCHANGED client /\ \E f \in frames : Take(f) \/ Run(f)

(* A step sends, settles or serves. *)
LEMMA StepKinds ==
  ASSUME CallShape, SocketShape, Next
  PROVE  \/ \E cs \in SUBSET Calls, s \in Sockets : Sends(cs, s) /\ ran' = ran
         \/ Settles
         \/ Serves
  <1>0. \E g : call = [c \in Calls |-> g[c]]
    <2>1. call = [c \in Calls |-> call[c]]
      BY DEF CallShape
    <2> QED BY <2>1
  <1>1. ASSUME call' = call, nextId' = nextId, ran' = ran, frames' \subseteq frames PROVE Settles
    BY <1>0, <1>1 DEF Settles, Moves
  <1>2. ASSUME NEW c \in Calls, Call(c)
        PROVE  Settles \/ \E cs \in SUBSET Calls, s \in Sockets : Sends(cs, s) /\ ran' = ran
    <2>1. CASE Live /\ Request({c}, current)
      <3>1. current \in Sockets /\ {c} \in SUBSET Calls
        BY <2>1 DEF Live, SocketShape
      <3>2. \A d \in {c} : call[d].pc \in {"idle", "connecting"}
        BY <1>2 DEF Call
      <3>3. Sends({c}, current)
        BY <2>1, <3>1, <3>2, RequestSends
      <3> QED BY <1>2, <3>1, <3>3 DEF Call
    <2>2. CASE call' = [call EXCEPT ![c].pc = "connecting"] /\ UNCHANGED <<nextId, frames>>
      <3>1. call' = [d \in Calls |-> call'[d]]
        BY <2>2 DEF CallShape
      <3>2. \A d \in Calls : Moves(d)
        BY <1>2, <2>2 DEF Call, Moves, CallShape
      <3> QED BY <1>2, <2>2, <3>1, <3>2 DEF Call, Settles
    <2> QED BY <1>2, <2>1, <2>2 DEF Call
  <1>3. ASSUME NEW c \in Calls, Deadline(c) PROVE Settles
    <2>1. call' = [d \in Calls |-> call'[d]]
      BY <1>3 DEF CallShape, Deadline
    <2>2. \A d \in Calls : Moves(d)
      BY <1>3 DEF Deadline, Moves, CallShape
    <2> QED BY <1>3, <2>1, <2>2 DEF Deadline, Settles
  <1>4. CASE Connected
    <2>1. opening \in Sockets /\ Waiting \in SUBSET Calls
          /\ \A c \in Waiting : call[c].pc \in {"idle", "connecting"}
      BY <1>4 DEF Connected, SocketShape, Waiting
    <2>2. Sends(Waiting, opening)
      BY <1>4, <2>1, RequestSends DEF Connected
    <2> QED BY <1>4, <2>1, <2>2 DEF Connected
  <1>5. CASE Refused \/ ConnectTimesOut
    <2>1. Pending \subseteq Pending /\ {} \subseteq Pending /\ Waiting \subseteq Waiting
      OBVIOUS
    <2> QED BY <1>5, <2>1, RecoverMoves DEF Refused, ConnectTimesOut
  <1>6. ASSUME NEW s \in Sockets, Closed(s) PROVE Settles
    <2>1. Pending \subseteq Pending /\ {} \subseteq Waiting
      OBVIOUS
    <2> QED BY <1>6, <2>1, RecoverMoves DEF Closed
  <1>7. ASSUME NEW s \in Sockets, Ends(s) PROVE Settles
    BY <1>1, <1>7 DEF Ends
  <1>8. ASSUME NEW f \in frames, Receive(f) PROVE Settles
    <2>1. call' = [c \in Calls |-> call'[c]]
      BY <1>8 DEF Receive
    <2>2. \A c \in Calls : Moves(c)
      BY <1>8 DEF Receive, Moves, Pending, Answered
    <2> QED BY <1>8, <2>1, <2>2 DEF Receive, Settles
  <1>9. ASSUME NEW f \in frames, Take(f) \/ Run(f) PROVE Serves
    BY <1>9 DEF Serves, Take, Run
  <1>10. CASE DaemonCloses \/ DaemonExits \/ DaemonStarts
    BY <1>1, <1>10 DEF DaemonCloses, DaemonExits, DaemonStarts, client
  <1> QED BY <1>2, <1>3, <1>4, <1>5, <1>6, <1>7, <1>8, <1>9, <1>10 DEF Next

LEMMA FailedFields ==
  \A fate \in {"slow", "lost", "unsent"} :
     /\ Failed(fate) \in Record /\ Failed(fate).pc = "failed" /\ Failed(fate).fate = fate
     /\ Failed(fate).id = 0
  BY DEF Failed, Idle, Record

Again(e) == [pc |-> "connecting", again |-> TRUE, id |-> 0, fate |-> e.fate, got |-> e.got]

LEMMA RetriedIs ==
  ASSUME NEW c, call[c] \in Record
  PROVE  Retried(c) = Again(call[c])
  <1>1. PICK e \in Record : e = call[c]
    OBVIOUS
  <1>2. PICK r : r = [e EXCEPT !.pc = "connecting", !.again = TRUE, !.id = 0]
    OBVIOUS
  <1>3. /\ r.pc = "connecting" /\ r.again = TRUE /\ r.id = 0
        /\ r.fate = e.fate /\ r.got = e.got
    BY <1>2 DEF Record
  <1>4. r = [pc |-> r.pc, again |-> r.again, id |-> r.id, fate |-> r.fate, got |-> r.got]
    BY <1>2 DEF Record
  <1>5. r = Again(e)
    BY <1>3, <1>4 DEF Again
  <1> QED BY <1>1, <1>2, <1>5 DEF Retried

LEMMA MovedCall ==
  ASSUME CallShape, FrameShape, NEW c \in Calls, Moves(c)
  PROVE  /\ call'[c] \in Record
         /\ call'[c].fate # "none" => call'[c].pc = "failed"
         /\ call'[c].pc = "idle" => ~call'[c].again
         /\ call'[c].pc = "sent" => call'[c].id # 0
         /\ call'[c].id = call[c].id \/ call'[c].id = 0
         /\ call'[c].pc = "sent" => call'[c] = call[c]
         /\ call'[c].pc \in {"idle", "connecting"} =>
              \/ call[c].pc \in {"idle", "connecting"} 
                 /\ (c \in Retryable \/ call'[c].again = call[c].again)
              \/ c \in Retryable
         /\ call'[c].fate = "unsent" => call[c].fate = "unsent" \/ call[c].pc = "connecting"
  <1>1. /\ call[c] \in Record
        /\ call[c].fate # "none" => call[c].pc = "failed"
        /\ call[c].pc = "idle" => ~call[c].again
        /\ call[c].pc = "sent" => call[c].id # 0
    BY DEF CallShape
  <1>2. CASE call'[c] = call[c]
    BY <1>1, <1>2
  <1>3. CASE call[c].pc = "idle" /\ call'[c] = [call[c] EXCEPT !.pc = "connecting"]
    BY <1>1, <1>3 DEF Record
  <1>4. CASE /\ c \in Retryable /\ ~call[c].again /\ call[c].pc \in {"connecting", "sent"}
             /\ call'[c] = Retried(c)
    <2>1. call'[c] = Again(call[c])
      BY <1>1, <1>4, RetriedIs
    <2>3. Again(call[c]) \in Record
      BY <1>1 DEF Record, Again
    <2>4. /\ Again(call[c]).pc = "connecting" /\ Again(call[c]).id = 0
          /\ Again(call[c]).fate = call[c].fate
      BY DEF Again
    <2>2. call[c].fate = "none"
      BY <1>1, <1>4
    <2> QED BY <1>4, <2>1, <2>2, <2>3, <2>4
  <1>5. CASE call[c].pc = "sent" /\ \E fate \in {"slow", "lost"} : call'[c] = Failed(fate)
    BY <1>1, <1>5, FailedFields
  <1>6. CASE call[c].pc = "connecting" /\ call'[c] = Failed("unsent")
    BY <1>1, <1>6, FailedFields
  <1>7. CASE /\ call[c].pc = "sent"
             /\ \E f \in frames : f.at = "answered" /\ f.id = call[c].id /\ call'[c] = Answered(f)
    <2>1. PICK f \in frames : call'[c] = Answered(f)
      BY <1>7
    <2>2. call'[c] = [pc |-> "answered", again |-> FALSE, id |-> 0, fate |-> "none", got |-> f.who]
          /\ f.who \in Calls
      BY <2>1 DEF Answered, Idle, FrameShape, Packet
    <2> QED BY <1>1, <2>2 DEF Record
  <1> QED BY <1>2, <1>3, <1>4, <1>5, <1>6, <1>7 DEF Moves

LEMMA CallShapeStep ==
  ASSUME CallShape, FrameShape, SocketShape, Next
  PROVE  CallShape' /\ nextId <= nextId'
  <1>1. ASSUME NEW cs \in SUBSET Calls, NEW s, Sends(cs, s) PROVE CallShape' /\ nextId <= nextId'
    <2>1. nextId' = nextId + Cardinality(cs) /\ Cardinality(cs) \in Nat /\ nextId \in Nat \ {0}
      BY <1>1, IdsExist DEF Sends, CallShape
    <2>2. nextId' \in Nat \ {0} /\ nextId <= nextId'
      BY <2>1
    <2>3. ASSUME NEW c \in Calls
          PROVE  /\ call'[c].fate # "none" => call'[c].pc = "failed"
                 /\ call'[c].pc = "idle" => ~call'[c].again
                 /\ call'[c].pc = "sent" => call'[c].id # 0
      <3>1. CASE c \in cs
        BY <1>1, <2>1, <3>1 DEF Sends, CallShape
      <3>2. CASE c \notin cs
        BY <1>1, <3>2 DEF Sends, CallShape
      <3> QED BY <3>1, <3>2
    <2> QED BY <1>1, <2>2, <2>3 DEF Sends, CallShape
  <1>2. CASE Settles
    <2>1. nextId' = nextId /\ nextId \in Nat \ {0}
      BY <1>2 DEF Settles, CallShape
    <2>2. \A c \in Calls : Moves(c)
      BY <1>2 DEF Settles
    <2>3. call' \in [Calls -> Record]
      <3>1. PICK g : call' = [c \in Calls |-> g[c]]
        BY <1>2 DEF Settles
      <3>2. \A c \in Calls : call'[c] \in Record
        BY <2>2, MovedCall
      <3> QED BY <3>1, <3>2
    <2> QED BY <2>1, <2>2, <2>3, MovedCall DEF CallShape
  <1>3. CASE Serves
    BY <1>3 DEF Serves, client, CallShape
  <1> QED BY <1>1, <1>2, <1>3, StepKinds

-----------------------------------------------------------------------------
(* Frames *)

LEMMA SentPacket ==
  ASSUME CallShape, NEW cs \in SUBSET Calls, NEW s \in Sockets, Sends(cs, s),
         NEW f \in frames' \ frames
  PROVE  f \in Packet
  <1>1. PICK c \in cs : f = [sock |-> s, id |-> call'[c].id, who |-> c, at |-> "sent"]
    BY DEF Sends
  <1>2. call'[c].id \in Nat \ {0}
    <2>1. call'[c].id \in Nat /\ nextId <= call'[c].id /\ nextId \in Nat \ {0}
      BY DEF Sends, CallShape, Record
    <2> QED BY <2>1
  <1> QED BY <1>1, <1>2 DEF Packet

LEMMA TakenPacket ==
  ASSUME FrameShape, NEW f \in frames, NEW at \in {"sent", "running", "answered"}
  PROVE  /\ [f EXCEPT !.at = at] \in Packet /\ [f EXCEPT !.at = at].at = at
         /\ [f EXCEPT !.at = at].who = f.who /\ [f EXCEPT !.at = at].id = f.id
  BY DEF FrameShape, Packet

(* A frame the daemon takes up is the same frame, and running; one it has    *)
(* served is answered, or gone.                                              *)
LEMMA ServedFrames ==
  ASSUME FrameShape, NEW f \in frames, Take(f) \/ Run(f)
  PROVE  \E g \in Packet :
           /\ g.who = f.who /\ g.id = f.id
           /\ frames' \subseteq (frames \ {f}) \cup {g}
           /\ \/ f.at = "sent" /\ g.at = "running" /\ ran' = ran
              \/ /\ f.at = "running" /\ g.at = "answered"
                 /\ ran' = [ran EXCEPT ![f.who] = @ + 1]
  <1>1. CASE Take(f)
    BY <1>1, TakenPacket DEF Take
  <1>2. CASE Run(f)
    BY <1>2, TakenPacket DEF Run
  <1> QED BY <1>1, <1>2

LEMMA ServedSockets ==
  ASSUME FrameShape, SocketShape, Next
  PROVE  served' \subseteq Sockets
  <1>1. ASSUME NEW c \in Calls, Call(c) \/ Deadline(c) PROVE served' = served
    BY <1>1 DEF Call, Deadline
  <1>2. CASE Connected
    BY <1>2 DEF Connected, FrameShape, SocketShape
  <1>3. (Refused => served' = served) /\ (ConnectTimesOut => served' = served)
    BY DEF Refused, ConnectTimesOut
  <1>4. ASSUME NEW s \in Sockets, Ends(s) \/ Closed(s) PROVE served' = served
    BY <1>4 DEF Ends, Closed
  <1>5. ASSUME NEW f \in frames, Receive(f) \/ Take(f) \/ Run(f) PROVE served' = served
    BY <1>5 DEF Receive, Take, Run
  <1>6. CASE DaemonCloses \/ DaemonExits \/ DaemonStarts
    BY <1>6 DEF DaemonCloses, DaemonExits, DaemonStarts, FrameShape
  <1> QED BY <1>1, <1>2, <1>3, <1>4, <1>5, <1>6 DEF Next, FrameShape

LEMMA FrameShapeStep ==
  ASSUME CallShape, FrameShape, SocketShape, Next
  PROVE  FrameShape'
  <1>1. ASSUME NEW cs \in SUBSET Calls, NEW s \in Sockets, Sends(cs, s), ran' = ran
        PROVE  frames' \subseteq Packet /\ ran' \in [Calls -> Nat]
    BY <1>1, SentPacket DEF FrameShape
  <1>2. ASSUME Settles PROVE frames' \subseteq Packet /\ ran' \in [Calls -> Nat]
    <2>1. ran' = ran /\ frames' \subseteq frames
      BY <1>2 DEF Settles
    <2> QED BY <2>1 DEF FrameShape
  <1>3. ASSUME Serves PROVE frames' \subseteq Packet /\ ran' \in [Calls -> Nat]
    <2>1. PICK f \in frames : Take(f) \/ Run(f)
      BY <1>3 DEF Serves
    <2>2. frames' \subseteq Packet
      BY <2>1, ServedFrames DEF FrameShape
    <2>3. ran' \in [Calls -> Nat]
      <3>1. ran' = ran \/ ran' = [ran EXCEPT ![f.who] = @ + 1]
        BY <2>1, ServedFrames
      <3>2. ran' = ran => ran' \in [Calls -> Nat]
        BY DEF FrameShape
      <3>3. ASSUME ran' = [ran EXCEPT ![f.who] = @ + 1] PROVE ran' \in [Calls -> Nat]
        <4>1. ran \in [Calls -> Nat] /\ f.who \in Calls
          BY DEF FrameShape, Packet
        <4> QED BY <3>3, <4>1
      <3> QED BY <3>1, <3>2, <3>3
    <2> QED BY <2>2, <2>3
  <1>4. frames' \subseteq Packet /\ ran' \in [Calls -> Nat]
    BY <1>1, <1>2, <1>3, StepKinds
  <1> QED BY <1>4, ServedSockets DEF FrameShape

-----------------------------------------------------------------------------
(* Writes *)

(* A write that has not been sent, or failed before it was, has not been run *)
(* and is on no frame; else one frame bears it, which is run once.           *)
WritesOnce ==
    \A c \in Calls \ Retryable :
        /\ ran[c] <= 1
        /\ call[c].pc \in {"idle", "connecting"} \/ call[c].fate = "unsent" =>
             ran[c] = 0 /\ \A f \in frames : f.who # c
        /\ \A f, g \in frames : f.who = c /\ g.who = c => f = g
        /\ \A f \in frames : f.who = c /\ f.at # "answered" => ran[c] = 0

LEMMA WritesOnceStep ==
  ASSUME CallShape, FrameShape, SocketShape, WritesOnce, Next
  PROVE  WritesOnce'
  <1> SUFFICES ASSUME NEW c \in Calls \ Retryable
               PROVE  /\ ran'[c] <= 1
                      /\ call'[c].pc \in {"idle", "connecting"} \/ call'[c].fate = "unsent" =>
                           ran'[c] = 0 /\ \A f \in frames' : f.who # c
                      /\ \A f, g \in frames' : f.who = c /\ g.who = c => f = g
                      /\ \A f \in frames' : f.who = c /\ f.at # "answered" => ran'[c] = 0
    BY DEF WritesOnce
  <1>0. /\ ran[c] <= 1 /\ ran[c] \in Nat
        /\ call[c].pc \in {"idle", "connecting"} \/ call[c].fate = "unsent" =>
             ran[c] = 0 /\ \A f \in frames : f.who # c
        /\ \A f, g \in frames : f.who = c /\ g.who = c => f = g
        /\ \A f \in frames : f.who = c /\ f.at # "answered" => ran[c] = 0
        /\ call[c].fate = "unsent" => call[c].pc = "failed"
    BY DEF WritesOnce, FrameShape, CallShape
  <1>1. ASSUME NEW cs \in SUBSET Calls, NEW s \in Sockets, Sends(cs, s), ran' = ran, c \in cs
        PROVE  /\ call'[c].pc = "sent" /\ call'[c].fate # "unsent" /\ ran[c] = 0
               /\ \A f \in frames' : f.who = c =>
                    f = [sock |-> s, id |-> call'[c].id, who |-> c, at |-> "sent"]
    <2>1. call[c].pc \in {"idle", "connecting"} /\ call'[c].pc = "sent"
          /\ call'[c].fate = call[c].fate
      BY <1>1 DEF Sends
    <2>2. call'[c].fate # "unsent" /\ ran[c] = 0 /\ \A f \in frames : f.who # c
      BY <1>0, <2>1
    <2>3. ASSUME NEW f \in frames', f.who = c
          PROVE  f = [sock |-> s, id |-> call'[c].id, who |-> c, at |-> "sent"]
      <3>1. f \in frames' \ frames
        BY <2>2, <2>3
      <3>2. PICK d \in cs : f = [sock |-> s, id |-> call'[d].id, who |-> d, at |-> "sent"]
        BY <1>1, <3>1 DEF Sends
      <3> QED BY <2>3, <3>2
    <2> QED BY <2>1, <2>2, <2>3
  <1>2. ASSUME NEW cs \in SUBSET Calls, NEW s \in Sockets, Sends(cs, s), ran' = ran, c \notin cs
        PROVE  call'[c] = call[c] /\ \A f \in frames' : f.who = c => f \in frames
    <2>1. ASSUME NEW f \in frames', f.who = c PROVE f \in frames
      <3>1. CASE f \notin frames
        <4>1. PICK d \in cs : f = [sock |-> s, id |-> call'[d].id, who |-> d, at |-> "sent"]
          BY <1>2, <3>1 DEF Sends
        <4> QED BY <1>2, <2>1, <4>1
      <3> QED BY <3>1
    <2> QED BY <1>2, <2>1 DEF Sends
  <1>3. CASE Settles
    <2>1. /\ Moves(c) /\ ran' = ran /\ frames' \subseteq frames
      BY <1>3 DEF Settles
    <2>2. /\ call'[c].pc \in {"idle", "connecting"} => call[c].pc \in {"idle", "connecting"}
          /\ call'[c].fate = "unsent" => call[c].fate = "unsent" \/ call[c].pc = "connecting"
      BY <2>1, MovedCall
    <2> QED BY <1>0, <2>1, <2>2
  <1>4. CASE Serves
    <2>1. PICK f \in frames : Take(f) \/ Run(f)
      BY <1>4 DEF Serves
    <2>2. PICK g \in Packet :
           /\ g.who = f.who /\ g.id = f.id
           /\ frames' \subseteq (frames \ {f}) \cup {g}
           /\ \/ f.at = "sent" /\ g.at = "running" /\ ran' = ran
              \/ /\ f.at = "running" /\ g.at = "answered"
                 /\ ran' = [ran EXCEPT ![f.who] = @ + 1]
      BY <2>1, ServedFrames
    <2>3. call' = call
      BY <1>4 DEF Serves, client
    <2>4. CASE f.who # c
      <3>1. ran'[c] = ran[c]
        BY <2>2, <2>4 DEF FrameShape
      <3>2. \A h \in frames' : h.who = c => h \in frames
        BY <2>2, <2>4
      <3> QED BY <1>0, <2>3, <3>1, <3>2
    <2>5. CASE f.who = c
      <3>1. \A h \in frames' : h.who = c => h = g
        BY <1>0, <2>2, <2>5
      <3>2. ran[c] = 0 /\ ~(call[c].pc \in {"idle", "connecting"} \/ call[c].fate = "unsent")
        BY <1>0, <2>2, <2>5
      <3>3. ran'[c] = ran[c] \/ (ran'[c] = ran[c] + 1 /\ g.at = "answered")
        BY <2>2, <2>5 DEF FrameShape
      <3> QED BY <2>3, <3>1, <3>2, <3>3
    <2> QED BY <2>4, <2>5
  <1>5. ASSUME NEW cs \in SUBSET Calls, NEW s \in Sockets, Sends(cs, s), ran' = ran
        PROVE  /\ ran'[c] <= 1
               /\ call'[c].pc \in {"idle", "connecting"} \/ call'[c].fate = "unsent" =>
                    ran'[c] = 0 /\ \A f \in frames' : f.who # c
               /\ \A f, g \in frames' : f.who = c /\ g.who = c => f = g
               /\ \A f \in frames' : f.who = c /\ f.at # "answered" => ran'[c] = 0
    <2>1. CASE c \in cs
      BY <1>0, <1>1, <1>5, <2>1
    <2>2. CASE c \notin cs
      BY <1>0, <1>2, <1>5, <2>2
    <2> QED BY <2>1, <2>2
  <1> QED BY <1>3, <1>4, <1>5, StepKinds

-----------------------------------------------------------------------------
(* Answers *)

(* Ids are new, and an id a call waits for is on its own frames only.        *)
Matched ==
    /\ \A c \in Calls : call[c].id < nextId
    /\ \A f \in frames : f.id < nextId /\ (f.at = "answered" => ran[f.who] > 0)
    /\ \A c \in Calls, f \in frames : call[c].pc = "sent" /\ call[c].id = f.id => f.who = c

LEMMA MatchedStep ==
  ASSUME CallShape, FrameShape, SocketShape, Matched, AnswerIsOwn, Next
  PROVE  Matched' /\ AnswerIsOwn'
  <1>0. /\ nextId \in Nat \ {0} /\ \A c \in Calls : call[c].id \in Nat /\ ran[c] \in Nat
        /\ \A f \in frames : f.id \in Nat /\ f.who \in Calls
    BY DEF CallShape, FrameShape, Record, Packet
  <1>1. ASSUME NEW cs \in SUBSET Calls, NEW s \in Sockets, Sends(cs, s), ran' = ran
        PROVE  Matched' /\ AnswerIsOwn'
    <2>1. nextId' = nextId + Cardinality(cs) /\ Cardinality(cs) \in Nat
      BY <1>1, IdsExist DEF Sends
    <2>2. nextId <= nextId' /\ nextId' \in Nat
      BY <1>0, <2>1
    <2>3. ASSUME NEW c \in Calls PROVE call'[c].id < nextId' /\ call'[c].id \in Nat
      <3>1. CASE c \in cs
        BY <1>1, <3>1 DEF Sends, Record
      <3>2. CASE c \notin cs
        <4>1. call'[c] = call[c]
          BY <1>1, <3>2 DEF Sends
        <4> QED BY <1>0, <2>2, <4>1 DEF Matched
      <3> QED BY <3>1, <3>2
    <2>4. ASSUME NEW f \in frames' \ frames
          PROVE  \E c \in cs : f = [sock |-> s, id |-> call'[c].id, who |-> c, at |-> "sent"]
      BY <1>1, <2>4 DEF Sends
    <2>5. ASSUME NEW f \in frames'
          PROVE  f.id < nextId' /\ (f.at = "answered" => ran'[f.who] > 0)
      <3>1. CASE f \in frames
        BY <1>0, <1>1, <2>2, <3>1 DEF Matched
      <3>2. CASE f \notin frames
        BY <2>3, <2>4, <3>2
      <3> QED BY <3>1, <3>2
    <2>6. ASSUME NEW c \in Calls, NEW f \in frames', call'[c].pc = "sent", call'[c].id = f.id
          PROVE  f.who = c
      <3>1. CASE f \in frames /\ c \in cs
        <4>1. f.id < nextId /\ nextId <= call'[c].id
          BY <1>1, <3>1 DEF Matched, Sends
        <4> QED BY <1>0, <2>3, <2>6, <3>1, <4>1
      <3>2. CASE f \in frames /\ c \notin cs
        <4>1. call'[c] = call[c]
          BY <1>1, <3>2 DEF Sends
        <4> QED BY <2>6, <3>2, <4>1 DEF Matched
      <3>3. CASE f \notin frames
        <4>1. PICK d \in cs : f = [sock |-> s, id |-> call'[d].id, who |-> d, at |-> "sent"]
          BY <2>4, <3>3
        <4>2. CASE c \in cs
          BY <1>1, <2>6, <4>1, <4>2 DEF Sends
        <4>3. CASE c \notin cs
          <5>1. call'[c] = call[c] /\ nextId <= call'[d].id /\ call[c].id < nextId
            BY <1>1, <4>3 DEF Sends, Matched
          <5> QED BY <1>0, <2>3, <2>6, <4>1, <5>1
        <4> QED BY <4>2, <4>3
      <3> QED BY <3>1, <3>2, <3>3
    <2>7. AnswerIsOwn'
      BY <1>1 DEF AnswerIsOwn, Sends
    <2> QED BY <2>3, <2>5, <2>6, <2>7 DEF Matched
  <1>2. CASE Settles
    <2>1. /\ nextId' = nextId /\ ran' = ran /\ frames' \subseteq frames
          /\ \A c \in Calls : Moves(c)
      BY <1>2 DEF Settles
    <2>2. \A c \in Calls : /\ call'[c].id = call[c].id \/ call'[c].id = 0
                           /\ call'[c].pc = "sent" => call'[c] = call[c]
      BY <2>1, MovedCall
    <2>3. \A c \in Calls : call'[c].id < nextId
      BY <1>0, <2>2 DEF Matched
    <2>4. Matched'
      BY <2>1, <2>2, <2>3 DEF Matched
    <2>5. ASSUME NEW c \in Calls, call'[c].pc = "answered"
          PROVE  call'[c].got = c /\ ran'[c] > 0
      <3>1. CASE call'[c] = call[c]
        BY <2>1, <2>5, <3>1 DEF AnswerIsOwn
      <3>2. CASE call'[c] # call[c]
        <4>1. call[c] \in Record
          BY DEF CallShape
        <4>2. call'[c] # Retried(c) /\ call'[c] # [call[c] EXCEPT !.pc = "connecting"]
          BY <2>5, <4>1 DEF Retried, Record
        <4>3. \A fate \in {"slow", "lost", "unsent"} : call'[c] # Failed(fate)
          BY <2>5, FailedFields
        <4>4. call[c].pc = "sent"
              /\ \E f \in frames : f.at = "answered" /\ f.id = call[c].id /\ call'[c] = Answered(f)
          BY <2>1, <3>2, <4>2, <4>3 DEF Moves
        <4>5. PICK f \in frames : f.at = "answered" /\ f.id = call[c].id /\ call'[c] = Answered(f)
          BY <4>4
        <4>6. f.who = c /\ ran[f.who] > 0
          BY <4>4, <4>5 DEF Matched
        <4>7. call'[c].got = f.who
          BY <4>5 DEF Answered, Idle
        <4> QED BY <2>1, <4>6, <4>7
      <3> QED BY <3>1, <3>2
    <2> QED BY <2>4, <2>5 DEF AnswerIsOwn
  <1>3. CASE Serves
    <2>1. PICK f \in frames : Take(f) \/ Run(f)
      BY <1>3 DEF Serves
    <2>2. PICK g \in Packet :
           /\ g.who = f.who /\ g.id = f.id
           /\ frames' \subseteq (frames \ {f}) \cup {g}
           /\ \/ f.at = "sent" /\ g.at = "running" /\ ran' = ran
              \/ /\ f.at = "running" /\ g.at = "answered"
                 /\ ran' = [ran EXCEPT ![f.who] = @ + 1]
      BY <2>1, ServedFrames
    <2>3. call' = call /\ nextId' = nextId
      BY <1>3 DEF Serves, client
    <2>4. \A c \in Calls : ran'[c] >= ran[c] /\ (g.at = "answered" => ran'[f.who] > 0)
      <3>1. CASE ran' = ran /\ g.at = "running"
        BY <1>0, <3>1
      <3>2. CASE ran' = [ran EXCEPT ![f.who] = @ + 1]
        BY <1>0, <3>2 DEF FrameShape
      <3> QED BY <2>2, <3>1, <3>2
    <2>5. \A h \in frames' : h \in frames \/ h = g
      BY <2>2
    <2>6. ran' \in [Calls -> Nat]
      BY FrameShapeStep DEF FrameShape
    <2>7. Matched'
      <3>1. \A c \in Calls : call'[c].id < nextId'
        BY <2>3 DEF Matched
      <3>2. ASSUME NEW h \in frames'
            PROVE  h.id < nextId' /\ (h.at = "answered" => ran'[h.who] > 0)
        <4>1. CASE h \in frames
          BY <1>0, <2>3, <2>4, <2>6, <4>1 DEF Matched
        <4>2. CASE h = g
          BY <1>0, <2>2, <2>3, <2>4, <4>2 DEF Matched
        <4> QED BY <2>5, <4>1, <4>2
      <3>3. \A c \in Calls, h \in frames' : call'[c].pc = "sent" /\ call'[c].id = h.id => h.who = c
        BY <2>2, <2>3, <2>5 DEF Matched
      <3> QED BY <3>1, <3>2, <3>3 DEF Matched
    <2>8. AnswerIsOwn'
      BY <1>0, <2>3, <2>4, <2>6 DEF AnswerIsOwn
    <2> QED BY <2>7, <2>8
  <1> QED BY <1>1, <1>2, <1>3, StepKinds

-----------------------------------------------------------------------------
(* Counting *)

Attempts == Calls \X {1, 2}

(* A call's first attempt begins when the call does, its second when it is   *)
(* tried again; an attempt is spent once it can write no frame.              *)
Begun(c, n) ==
    IF n = 1 THEN call[c].pc # "idle" ELSE call[c].again \/ call[c].pc \in {"answered", "failed"}

Spent(c, n) ==
    IF n = 1 THEN call[c].pc \notin {"idle", "connecting"} \/ call[c].again
    ELSE call[c].pc \in {"answered", "failed"} \/ (call[c].again /\ call[c].pc = "sent")

Unbegun == {a \in Attempts : ~Begun(a[1], a[2])}
Unspent == {a \in Attempts : ~Spent(a[1], a[2])}
Used == {s \in Sockets : sock[s] # "unused"}

(* Every attempt yet to begin can have a socket, and every one yet to write  *)
(* an id.                                                                    *)
SocketsLeft == Cardinality(Used) + Cardinality(Unbegun) <= 2 * Cardinality(Calls)
IdsLeft == nextId - 1 + Cardinality(Unspent) <= 2 * Cardinality(Calls)

(* The sets that are counted are finite. *)
LEMMA Finite ==
  /\ Cardinality(Calls) \in Nat /\ Cardinality(Attempts) = 2 * Cardinality(Calls)
  /\ \A S \in SUBSET Attempts : IsFiniteSet(S) /\ Cardinality(S) \in Nat
  /\ \A S \in SUBSET Sockets : IsFiniteSet(S) /\ Cardinality(S) \in Nat
  /\ Cardinality(Sockets) = 2 * Cardinality(Calls)
  <1>1. IsFiniteSet(Calls) /\ Cardinality(Calls) \in Nat
    BY ChannelAssumption, FS_CardinalityType DEF ChannelAssumption
  <1>2. IsFiniteSet(1 .. 2) /\ Cardinality(1 .. 2) = 2
    <2>1. PICK n \in Nat : n = 2
      OBVIOUS
    <2>2. IsFiniteSet(1 .. n) /\ Cardinality(1 .. n) = IF 1 > n THEN 0 ELSE n - 1 + 1
      BY FS_Interval
    <2> QED BY <2>1, <2>2
  <1>3. 1 .. 2 = {1, 2}
    OBVIOUS
  <1>4. IsFiniteSet(Attempts) /\ Cardinality(Attempts) = Cardinality(Calls) * 2
    BY <1>1, <1>2, <1>3, FS_Product DEF Attempts
  <1>5. IsFiniteSet(Sockets) /\ Cardinality(Sockets) = 2 * Cardinality(Calls)
    <2>1. PICK n \in Nat : n = 2 * Cardinality(Calls)
      BY <1>1
    <2>2. IsFiniteSet(1 .. n) /\ Cardinality(1 .. n) = IF 1 > n THEN 0 ELSE n - 1 + 1
      BY FS_Interval
    <2> QED BY <2>1, <2>2 DEF Sockets
  <1>6. ASSUME NEW T, IsFiniteSet(T), NEW S \in SUBSET T
        PROVE  IsFiniteSet(S) /\ Cardinality(S) \in Nat
    BY <1>6, FS_Subset, FS_CardinalityType
  <1>7. Cardinality(Attempts) = 2 * Cardinality(Calls)
    BY <1>1, <1>4
  <1> QED BY <1>1, <1>4, <1>5, <1>6, <1>7

(* A subset counts no more, and fewer if it lacks a member. *)
LEMMA Fewer ==
  ASSUME NEW S, IsFiniteSet(S), NEW T \in SUBSET S
  PROVE  /\ Cardinality(T) <= Cardinality(S)
         /\ \A a \in S \ T : Cardinality(T) + 1 <= Cardinality(S)
  <1>1. Cardinality(T) <= Cardinality(S)
    BY FS_Subset
  <1>2. ASSUME NEW a \in S \ T PROVE Cardinality(T) + 1 <= Cardinality(S)
    <2>1. IsFiniteSet(S \ {a}) /\ Cardinality(S \ {a}) = Cardinality(S) - 1
      BY FS_RemoveElement
    <2>2. T \in SUBSET (S \ {a})
      OBVIOUS
    <2>3. Cardinality(T) <= Cardinality(S \ {a})
      BY <2>1, <2>2, FS_Subset
    <2>4. Cardinality(T) \in Nat /\ Cardinality(S) \in Nat
      BY FS_Subset, FS_CardinalityType
    <2> QED BY <2>1, <2>3, <2>4
  <1> QED BY <1>1, <1>2

(* A set of sockets that is not empty has a lowest. *)
LEMMA Lowest ==
  ASSUME NEW S \in SUBSET Sockets, S # {}
  PROVE  \E x \in S : \A y \in S : x <= y
  <1> DEFINE Below(x) == {m \in S : m < x}
             T == {Below(x) : x \in S}
             R == StrictSubsetOrdering(S)
  <1>0. S \subseteq Nat /\ IsFiniteSet(S)
    BY Finite DEF Sockets
  <1>1. T \subseteq FiniteSubsetsOf(S) /\ T # {}
    <2>1. ASSUME NEW U \in T PROVE U \in FiniteSubsetsOf(S)
      <3>1. U \in SUBSET S
        OBVIOUS
      <3>2. IsFiniteSet(U)
        BY <1>0, <3>1, FS_Subset
      <3> QED BY <3>1, <3>2 DEF FiniteSubsetsOf
    <2>2. PICK x : x \in S
      OBVIOUS
    <2>3. Below(x) \in T
      BY <2>2
    <2> QED BY <2>1, <2>3
  <1>2. PICK U \in T : \A V \in T : ~ (<<V, U>> \in R)
    <2> HIDE DEF T
    <2> QED BY <1>0, <1>1, WFMin, FS_StrictSubsetOrderingWellFounded
  <1>3. PICK x \in S : U = Below(x)
    BY <1>2
  <1>4. ASSUME NEW y \in S, y < x PROVE FALSE
    <2>1. Below(y) \in T
      OBVIOUS
    <2>2. Below(y) \subseteq U /\ y \in U /\ y \notin Below(y) /\ U \subseteq S
      <3>1. y \in Nat /\ x \in Nat /\ \A m \in S : m \in Nat
        BY <1>0
      <3>2. \A m \in S : m < y => m < x
        BY <1>4, <3>1
      <3>3. Below(y) \subseteq Below(x)
        BY <3>2
      <3>4. y \in Below(x) /\ Below(x) \subseteq S
        BY <1>4
      <3>5. y \notin Below(y)
        BY <3>1
      <3> QED BY <1>3, <3>3, <3>4, <3>5
    <2>3. <<Below(y), U>> \in R
      BY <2>2 DEF StrictSubsetOrdering
    <2> QED BY <1>2, <2>1, <2>3
  <1> QED BY <1>0, <1>4

(* Whoever begins an attempt finds a socket nobody has used. *)
LEMMA NextSocketIsFree ==
  ASSUME SocketsLeft, Unbegun # {}
  PROVE  NextSocket \in Sockets /\ sock[NextSocket] = "unused"
  <1>1. /\ Cardinality(Calls) \in Nat /\ Cardinality(Used) \in Nat /\ Cardinality(Unbegun) \in Nat
        /\ IsFiniteSet(Unbegun)
    BY Finite DEF Used, Unbegun
  <1>2. Cardinality(Unbegun) # 0
    BY <1>1, FS_EmptySet
  <1>3. Used # Sockets
    BY <1>1, <1>2, Finite DEF SocketsLeft
  <1>4. Sockets \ Used # {} /\ Sockets \ Used \in SUBSET Sockets
    BY <1>3 DEF Used
  <1>5. PICK s \in Sockets \ Used : \A t \in Sockets \ Used : s <= t
    BY <1>4, Lowest
  <1>6. sock[s] = "unused" /\ \A t \in 1 .. s - 1 : sock[t] # "unused"
    <2>1. ASSUME NEW t \in 1 .. s - 1 PROVE sock[t] # "unused"
      <3>1. s \in Nat /\ t \in Sockets /\ ~(s <= t)
        BY <1>1 DEF Sockets
      <3> QED BY <1>5, <3>1 DEF Used
    <2> QED BY <1>5, <2>1 DEF Used
  <1> QED BY <1>6 DEF NextSocket

(* An attempt that has begun, or is spent, stays so. *)
LEMMA MovedAttempts ==
  ASSUME CallShape, NEW c \in Calls, Moves(c), NEW n \in {1, 2}
  PROVE  (Begun(c, n) => Begun(c, n)') /\ (Spent(c, n) => Spent(c, n)')
  <1>1. call[c] \in Record /\ (call[c].pc = "idle" => ~call[c].again)
    BY DEF CallShape
  <1>2. CASE call'[c] = call[c]
    BY <1>2 DEF Begun, Spent
  <1>3. CASE call[c].pc = "idle"
    BY <1>1, <1>3 DEF Begun, Spent
  <1>4. CASE ~call[c].again /\ call[c].pc \in {"connecting", "sent"} /\ call'[c] = Retried(c)
    <2>1. call'[c] = Again(call[c])
      BY <1>1, <1>4, RetriedIs
    <2>2. call'[c].pc = "connecting" /\ call'[c].again
      BY <2>1 DEF Again
    <2> QED BY <1>4, <2>2 DEF Begun, Spent
  <1>5. CASE call'[c].pc \in {"answered", "failed"}
    BY <1>5 DEF Begun, Spent
  <1>6. ASSUME NEW f, call'[c] = Answered(f) PROVE call'[c].pc = "answered"
    BY <1>6 DEF Answered, Idle
  <1>7. \A fate \in {"slow", "lost", "unsent"} : Failed(fate).pc = "failed"
    BY FailedFields
  <1> QED BY <1>2, <1>3, <1>4, <1>5, <1>6, <1>7 DEF Moves

LEMMA SentAttempts ==
  ASSUME CallShape, NEW cs \in SUBSET Calls, NEW s, Sends(cs, s), NEW c \in Calls, NEW n \in {1, 2}
  PROVE  (Begun(c, n) => Begun(c, n)') /\ (Spent(c, n) => Spent(c, n)')
  <1>1. CASE c \in cs
    <2>1. call[c].pc \in {"idle", "connecting"} /\ call'[c].pc = "sent"
          /\ call'[c].again = call[c].again
      BY <1>1 DEF Sends
    <2>2. call[c].again <=> call'[c].again
      BY <2>1
    <2>3. CASE n = 1
      BY <2>1, <2>2, <2>3 DEF Begun, Spent
    <2>4. CASE n = 2
      BY <2>1, <2>2, <2>4 DEF Begun, Spent
    <2> QED BY <2>3, <2>4
  <1>2. CASE c \notin cs
    <2>1. call'[c] = call[c]
      BY <1>2 DEF Sends
    <2> QED BY <2>1 DEF Begun, Spent
  <1> QED BY <1>1, <1>2

LEMMA AttemptsStep ==
  ASSUME CallShape, SocketShape, Next
  PROVE  Unbegun' \subseteq Unbegun /\ Unspent' \subseteq Unspent
  <1>1. ASSUME NEW c \in Calls, NEW n \in {1, 2}
        PROVE  (Begun(c, n) => Begun(c, n)') /\ (Spent(c, n) => Spent(c, n)')
    <2>1. CASE Settles
      BY <2>1, MovedAttempts DEF Settles
    <2>2. CASE Serves
      BY <2>2 DEF Serves, client, Begun, Spent
    <2> QED BY <2>1, <2>2, SentAttempts, StepKinds
  <1>2. \A a \in Attempts : a[1] \in Calls /\ a[2] \in {1, 2}
    BY DEF Attempts
  <1>3. ASSUME NEW a \in Attempts
        PROVE  /\ Begun(a[1], a[2]) => Begun(a[1], a[2])'
               /\ Spent(a[1], a[2]) => Spent(a[1], a[2])'
    BY <1>1, <1>2
  <1>4. Attempts' = Attempts
    BY DEF Attempts
  <1> QED BY <1>3, <1>4 DEF Unbegun, Unspent

(* The calls that write a frame spend an attempt each. *)
LEMMA SentSpends ==
  ASSUME CallShape, NEW cs \in SUBSET Calls, NEW s, Sends(cs, s), Unspent' \subseteq Unspent
  PROVE  Cardinality(cs) + Cardinality(Unspent') <= Cardinality(Unspent)
  <1> DEFINE its == [c \in cs |-> <<c, IF call[c].again THEN 2 ELSE 1>>]
             now == Unspent \ Unspent'
  <1>1. ASSUME NEW c \in cs PROVE its[c] \in now
    <2>1. call[c].pc \in {"idle", "connecting"} /\ call'[c].pc = "sent"
          /\ call'[c].again = call[c].again /\ c \in Calls
      BY DEF Sends
    <2>2. PICK n \in {1, 2} : n = IF call[c].again THEN 2 ELSE 1
      OBVIOUS
    <2>3. ~Spent(c, n) /\ Spent(c, n)'
      <3>1. CASE call[c].again
        <4>1. n = 2 /\ call'[c].again
          BY <2>1, <2>2, <3>1
        <4> QED BY <2>1, <4>1 DEF Spent
      <3>2. CASE ~call[c].again
        BY <2>1, <2>2, <3>2 DEF Spent
      <3> QED BY <3>1, <3>2
    <2>4. <<c, n>> \in Attempts /\ <<c, n>>[1] = c /\ <<c, n>>[2] = n
      BY <2>1 DEF Attempts
    <2>5. <<c, n>> \in Unspent
      BY <2>3, <2>4 DEF Unspent
    <2>6. <<c, n>> \notin Unspent'
      BY <2>3, <2>4 DEF Unspent
    <2>7. its[c] = <<c, n>>
      BY <2>2
    <2> QED BY <2>5, <2>6, <2>7
  <1>2. \A c, d \in cs : its[c] = its[d] => c = d
    OBVIOUS
  <1>3. its \in Injection(cs, now)
    <2>1. its \in [cs -> now]
      <3>1. its = [c \in cs |-> its[c]]
        OBVIOUS
      <3> HIDE DEF its
      <3> QED BY <1>1, <3>1
    <2> HIDE DEF its, now
    <2> QED BY <1>2, <2>1 DEF Injection, IsInjective
  <1>4. IsFiniteSet(Unspent) /\ IsFiniteSet(Unspent') /\ Unspent \cap Unspent' = Unspent'
        /\ Cardinality(Unspent) \in Nat /\ Cardinality(Unspent') \in Nat
    <2>1. Unspent \in SUBSET Attempts /\ Unspent' \in SUBSET Attempts
      BY DEF Unspent
    <2> QED BY <2>1, Finite
  <1>5. IsFiniteSet(now) /\ Cardinality(now) = Cardinality(Unspent) - Cardinality(Unspent')
    BY <1>4, FS_Difference
  <1>6. Cardinality(cs) <= Cardinality(now) /\ Cardinality(cs) \in Nat
    <2> HIDE DEF its, now
    <2> QED BY <1>3, <1>5, FS_Injection, FS_CardinalityType
  <1> QED BY <1>4, <1>5, <1>6

LEMMA IdsLeftStep ==
  ASSUME CallShape, SocketShape, IdsLeft, Next
  PROVE  IdsLeft'
  <1>1. Unspent' \subseteq Unspent /\ Unspent \in SUBSET Attempts /\ Unspent' \in SUBSET Attempts
    BY AttemptsStep DEF Unspent
  <1>2. /\ Cardinality(Unspent) \in Nat /\ Cardinality(Unspent') \in Nat /\ IsFiniteSet(Unspent)
        /\ Cardinality(Calls) \in Nat /\ nextId \in Nat
    BY <1>1, Finite DEF CallShape
  <1>3. Cardinality(Unspent') <= Cardinality(Unspent)
    BY <1>1, <1>2, Fewer
  <1>4. nextId - 1 + Cardinality(Unspent) <= 2 * Cardinality(Calls)
    BY DEF IdsLeft
  <1>5. ASSUME NEW cs \in SUBSET Calls, NEW s, Sends(cs, s) PROVE IdsLeft'
    <2>1. Cardinality(cs) + Cardinality(Unspent') <= Cardinality(Unspent)
      BY <1>1, <1>5, SentSpends
    <2>2. nextId' = nextId + Cardinality(cs) /\ Cardinality(cs) \in Nat
      BY <1>5, IdsExist DEF Sends
    <2>3. nextId' - 1 + Cardinality(Unspent') <= 2 * Cardinality(Calls)
      BY <1>2, <1>4, <2>1, <2>2
    <2> QED BY <2>3 DEF IdsLeft
  <1>6. ASSUME nextId' = nextId PROVE IdsLeft'
    <2>1. nextId' - 1 + Cardinality(Unspent') <= 2 * Cardinality(Calls)
      BY <1>2, <1>3, <1>4, <1>6
    <2> QED BY <2>1 DEF IdsLeft
  <1>7. Serves => nextId' = nextId
    BY DEF Serves, client
  <1>8. Settles => nextId' = nextId
    BY DEF Settles
  <1> QED BY <1>5, <1>6, <1>7, <1>8, StepKinds

-----------------------------------------------------------------------------
(* Sockets *)

InUse == {"connecting", "open", "ended"}

(* A step takes one socket at most, and only for an attempt that begins. *)
TakesOne == Used' \subseteq Used \/ (Unbegun' # Unbegun /\ \E s : Used' \subseteq Used \cup {s})

LEMMA SocketsLeftStep ==
  ASSUME SocketsLeft, Unbegun' \subseteq Unbegun, TakesOne
  PROVE  SocketsLeft'
  <1>1. /\ Used \in SUBSET Sockets /\ Used' \in SUBSET Sockets
        /\ Unbegun \in SUBSET Attempts /\ Unbegun' \in SUBSET Attempts
    BY DEF Used, Unbegun
  <1>2. /\ IsFiniteSet(Used) /\ Cardinality(Used) \in Nat /\ Cardinality(Used') \in Nat
        /\ IsFiniteSet(Unbegun) /\ Cardinality(Unbegun) \in Nat /\ Cardinality(Unbegun') \in Nat
        /\ Cardinality(Calls) \in Nat
    BY <1>1, Finite
  <1>3. Cardinality(Used) + Cardinality(Unbegun) <= 2 * Cardinality(Calls)
    BY DEF SocketsLeft
  <1>4. ASSUME Used' \subseteq Used
        PROVE  Cardinality(Used') + Cardinality(Unbegun') <= 2 * Cardinality(Calls)
    <2>1. Cardinality(Used') <= Cardinality(Used)
      BY <1>2, <1>4, Fewer
    <2>2. Cardinality(Unbegun') <= Cardinality(Unbegun)
      BY <1>2, Fewer
    <2> QED BY <1>2, <1>3, <2>1, <2>2
  <1>5. ASSUME Unbegun' # Unbegun, NEW s, Used' \subseteq Used \cup {s}
        PROVE  Cardinality(Used') + Cardinality(Unbegun') <= 2 * Cardinality(Calls)
    <2>1. PICK a : a \in Unbegun \ Unbegun'
      BY <1>5
    <2>2. Cardinality(Unbegun') + 1 <= Cardinality(Unbegun)
      BY <1>2, <2>1, Fewer
    <2>3. IsFiniteSet(Used \cup {s}) /\ Cardinality(Used \cup {s}) \in Nat
          /\ Cardinality(Used \cup {s}) <= Cardinality(Used) + 1
      <3>1. /\ IsFiniteSet(Used \cup {s})
            /\ Cardinality(Used \cup {s}) =
                 IF s \in Used THEN Cardinality(Used) ELSE Cardinality(Used) + 1
        BY <1>2, FS_AddElement
      <3> QED BY <1>2, <3>1
    <2>4. Cardinality(Used') <= Cardinality(Used \cup {s})
      BY <1>5, <2>3, Fewer
    <2> QED BY <1>2, <1>3, <2>2, <2>3, <2>4
  <1> QED BY <1>4, <1>5 DEF TakesOne, SocketsLeft

(* A call that begins, or is tried again, begins an attempt. *)
LEMMA Begins ==
  ASSUME CallShape, NEW c \in Calls, call'[c].pc = "connecting",
         \/ call[c].pc = "idle"
         \/ ~call[c].again /\ call[c].pc \in {"connecting", "sent"} /\ call'[c].again
  PROVE  Unbegun # {} /\ Unbegun' # Unbegun
  <1>1. PICK n \in {1, 2} : ~Begun(c, n) /\ Begun(c, n)'
    <2>1. CASE call[c].pc = "idle"
      <3>1. ~Begun(c, 1) /\ Begun(c, 1)'
        BY <2>1 DEF Begun
      <3> QED BY <3>1
    <2>2. CASE ~call[c].again /\ call[c].pc \in {"connecting", "sent"} /\ call'[c].again
      <3>1. ~Begun(c, 2) /\ Begun(c, 2)'
        BY <2>2 DEF Begun
      <3> QED BY <3>1
    <2> QED BY <2>1, <2>2
  <1>2. <<c, n>> \in Attempts /\ <<c, n>>[1] = c /\ <<c, n>>[2] = n
    BY DEF Attempts
  <1>3. <<c, n>> \in Unbegun
    BY <1>1, <1>2 DEF Unbegun
  <1>4. <<c, n>> \notin Unbegun'
    BY <1>1, <1>2 DEF Unbegun
  <1> QED BY <1>3, <1>4

(* Destroying a socket leaves it used. *)
LEMMA DestroyedSockets ==
  ASSUME NEW ends \in [Sockets -> SocketStates], NEW s \in Sockets \cup {0}
  PROVE  /\ Destroyed(ends, s) \in [Sockets -> SocketStates]
         /\ \A t \in Sockets : Destroyed(ends, s)[t] = "unused" <=> ends[t] = "unused"
         /\ \A t \in Sockets : t # s => Destroyed(ends, s)[t] = ends[t]
  BY DEF Destroyed, SocketStates

(* What `send` leaves of the connection when it has to do with failures. *)
LEMMA RecoverSockets ==
  ASSUME CallShape, SocketsLeft, NEW lost \in SUBSET Pending, NEW unsent \in SUBSET Waiting,
         NEW ends \in [Sockets -> SocketStates],
         \A t \in Sockets : ends[t] = "unused" <=> sock[t] = "unused",
         NEW cur \in Sockets \cup {0}, cur # 0 => ends[cur] \in InUse,
         NEW opn \in Sockets \cup {0}, opn # 0 => ends[opn] # "unused",
         Waiting \ unsent # {} <=> opn # 0,
         Recover(lost, unsent, ends, cur, opn)
  PROVE  SocketShape' /\ TakesOne
  <1> DEFINE closed == Destroyed(ends, cur)
  <1>1. PICK swept, again :
          /\ swept \in SUBSET Pending /\ again = Retries(swept \cup unsent)
          /\ Recovers(swept, again, unsent)
          /\ Reopen(again, ends, cur, opn)
    BY RecoverCalls
  <1>9. \/ again = {} /\ sock' = ends /\ current' = cur /\ opening' = opn
        \/ again # {} /\ opn # 0 /\ sock' = closed /\ current' = 0 /\ opening' = opn
        \/ /\ again # {} /\ opn = 0 /\ opening' = NextSocket
           /\ \/ sock' = [closed EXCEPT ![NextSocket] = "connecting"] /\ current' = NextSocket
              \/ sock' = [closed EXCEPT ![NextSocket] = "destroyed"] /\ current' = 0
    BY <1>1 DEF Reopen
  <1> HIDE DEF closed
  <1>2. ASSUME NEW c \in again
        PROVE  /\ c \in Calls /\ call'[c].pc = "connecting" /\ call'[c].again
               /\ ~call[c].again /\ call[c].pc \in {"connecting", "sent"}
    <2>1. c \in Calls /\ ~call[c].again /\ call[c].pc \in {"connecting", "sent"}
      BY <1>1, <1>2 DEF Retries, Pending, Waiting
    <2>2. call'[c] = Retried(c) /\ call[c] \in Record
      BY <1>1, <1>2, <2>1 DEF Recovers, CallShape
    <2>3. call'[c] = Again(call[c])
      BY <2>2, RetriedIs
    <2> QED BY <2>1, <2>3 DEF Again
  <1>3. Waiting' = (Waiting \ unsent) \cup again
    <2>1. ASSUME NEW c \in Calls
          PROVE  call'[c].pc = "connecting" <=>
                   (call[c].pc = "connecting" /\ c \notin unsent) \/ c \in again
      <3>1. Failed("lost").pc = "failed" /\ Failed("unsent").pc = "failed"
        BY FailedFields
      <3>2. CASE c \in again
        BY <1>2, <3>2
      <3>3. CASE c \notin again /\ c \in swept
        <4>1. call[c].pc = "sent" /\ call'[c] = Failed("lost")
          BY <1>1, <3>3 DEF Pending, Recovers
        <4> QED BY <3>1, <3>3, <4>1
      <3>4. CASE c \notin again /\ c \notin swept /\ c \in unsent
        <4>1. call'[c] = Failed("unsent")
          BY <1>1, <3>4 DEF Recovers
        <4> QED BY <3>1, <3>4, <4>1
      <3>5. CASE c \notin again /\ c \notin swept /\ c \notin unsent
        <4>1. call'[c] = call[c]
          BY <1>1, <3>5 DEF Recovers
        <4> QED BY <3>5, <4>1
      <3> QED BY <3>2, <3>3, <3>4, <3>5
    <2>2. Waiting' = {c \in Calls : call'[c].pc = "connecting"}
      BY DEF Waiting
    <2>3. again \subseteq Calls
      BY <1>2
    <2> QED BY <2>1, <2>2, <2>3 DEF Waiting
  <1>4. /\ closed \in [Sockets -> SocketStates]
        /\ \A t \in Sockets : closed[t] = "unused" <=> sock[t] = "unused"
    BY DestroyedSockets DEF closed
  <1>5. ASSUME again = {}, sock' = ends, current' = cur, opening' = opn
        PROVE  SocketShape' /\ TakesOne
    <2>1. Used' \subseteq Used
      BY <1>5 DEF Used
    <2>2. Waiting' # {} <=> opn # 0
      BY <1>3, <1>5
    <2> QED BY <1>5, <2>1, <2>2 DEF SocketShape, TakesOne, InUse
  <1>6. ASSUME again # {}, opn # 0, sock' = closed, current' = 0, opening' = opn
        PROVE  SocketShape' /\ TakesOne
    <2>1. Used' \subseteq Used
      BY <1>4, <1>6 DEF Used
    <2>2. Waiting' # {}
      BY <1>3, <1>6
    <2>3. sock'[opening'] # "unused"
      BY <1>4, <1>6
    <2> QED BY <1>4, <1>6, <2>1, <2>2, <2>3 DEF SocketShape, TakesOne
  <1>7. ASSUME again # {}, opn = 0, opening' = NextSocket, NEW as \in {"connecting", "destroyed"},
               sock' = [closed EXCEPT ![NextSocket] = as],
               current' = 0 \/ (current' = NextSocket /\ as = "connecting")
        PROVE  SocketShape' /\ TakesOne
    <2>1. PICK c \in again : TRUE
      BY <1>7
    <2>2. Unbegun # {} /\ Unbegun' # Unbegun
      BY <1>2, <2>1, Begins
    <2>3. NextSocket \in Sockets
      BY <2>2, NextSocketIsFree
    <2>4. sock' \in [Sockets -> SocketStates] /\ sock'[NextSocket] = as
      BY <1>4, <1>7, <2>3 DEF SocketStates
    <2>5. Used' \subseteq Used \cup {NextSocket}
      BY <1>4, <1>7 DEF Used
    <2>6. Waiting' # {} /\ NextSocket # 0
      BY <1>3, <2>1, <2>3, Finite DEF Sockets
    <2>7. TakesOne
      BY <2>2, <2>5 DEF TakesOne
    <2> QED BY <1>7, <2>3, <2>4, <2>6, <2>7 DEF SocketShape
  <1> QED BY <1>5, <1>6, <1>7, <1>9

(* A call that writes at once leaves the connection alone; one that does not *)
(* joins the one being opened, or opens it.                                  *)
LEMMA CallSockets ==
  ASSUME CallShape, SocketShape, SocketsLeft, NEW c \in Calls, Call(c)
  PROVE  SocketShape' /\ TakesOne
  <1>1. CASE Live /\ Request({c}, current) /\ UNCHANGED <<sock, current, opening>>
    <2>1. Sends({c}, current)
      <3>1. {c} \in SUBSET Calls /\ \A d \in {c} : call[d].pc \in {"idle", "connecting"}
        BY DEF Call
      <3> QED BY <1>1, <3>1, RequestSends
    <2>2. Waiting' = Waiting
      <3>1. \A d \in Calls : call'[d].pc = "connecting" <=> call[d].pc = "connecting"
        BY <2>1 DEF Sends, Call
      <3> QED BY <3>1 DEF Waiting
    <2>3. Used' \subseteq Used
      BY <1>1 DEF Used
    <2> QED BY <1>1, <2>2, <2>3 DEF SocketShape, TakesOne
  <1>2. ASSUME call' = [call EXCEPT ![c].pc = "connecting"]
        PROVE  Waiting' # {} /\ Unbegun # {} /\ Unbegun' # Unbegun
    <2>1. call'[c].pc = "connecting" /\ call[c].pc = "idle"
      BY <1>2 DEF CallShape, Record, Call
    <2>2. c \in Waiting'
      BY <2>1 DEF Waiting
    <2> QED BY <2>1, <2>2, Begins
  <1>3. CASE /\ call' = [call EXCEPT ![c].pc = "connecting"]
             /\ opening # 0 /\ UNCHANGED <<sock, current, opening>>
    <2>1. Used' \subseteq Used
      BY <1>3 DEF Used
    <2> QED BY <1>2, <1>3, <2>1 DEF SocketShape, TakesOne
  <1>4. CASE /\ call' = [call EXCEPT ![c].pc = "connecting"]
             /\ sock' = [sock EXCEPT ![NextSocket] = "connecting"]
             /\ current' = NextSocket /\ opening' = NextSocket
    <2>1. NextSocket \in Sockets /\ NextSocket # 0
      BY <1>2, <1>4, NextSocketIsFree, Finite DEF Sockets
    <2>2. sock' \in [Sockets -> SocketStates] /\ sock'[NextSocket] = "connecting"
      BY <1>4, <2>1 DEF SocketShape, SocketStates
    <2>3. Used' \subseteq Used \cup {NextSocket}
      BY <1>4 DEF Used, SocketShape
    <2>4. TakesOne
      BY <1>2, <1>4, <2>3 DEF TakesOne
    <2>5. Waiting' # {}
      BY <1>2, <1>4
    <2> QED BY <1>4, <2>1, <2>2, <2>4, <2>5 DEF SocketShape
  <1> QED BY <1>1, <1>3, <1>4 DEF Call

LEMMA ConnectedSockets ==
  ASSUME CallShape, SocketShape, Connected
  PROVE  SocketShape' /\ TakesOne
  <1>1. Sends(Waiting, opening)
    <2>1. Waiting \in SUBSET Calls /\ \A c \in Waiting : call[c].pc \in {"idle", "connecting"}
      BY DEF Waiting
    <2> QED BY <2>1, RequestSends DEF Connected
  <1>2. Waiting' = {}
    <2>1. \A c \in Calls : call'[c].pc # "connecting"
      BY <1>1 DEF Sends, Waiting
    <2> QED BY <2>1 DEF Waiting
  <1>3. /\ opening \in Sockets /\ sock[opening] = "connecting" /\ opening' = 0 /\ current' = current
        /\ sock' = [sock EXCEPT ![opening] = "open"]
    BY DEF Connected, SocketShape
  <1>4. sock' \in [Sockets -> SocketStates]
    BY <1>3 DEF SocketShape, SocketStates
  <1>5. Used' \subseteq Used
    BY <1>3 DEF Used, SocketShape
  <1>6. current # 0 => sock'[current] \in {"connecting", "open", "ended"}
    BY <1>3 DEF SocketShape
  <1> QED BY <1>2, <1>3, <1>4, <1>5, <1>6 DEF SocketShape, TakesOne

LEMMA RefusedSockets ==
  ASSUME CallShape, SocketShape, SocketsLeft, Refused
  PROVE  SocketShape' /\ TakesOne
  <1> DEFINE ends == [sock EXCEPT ![opening] = "closed"]
  <1>1. /\ opening \in Sockets /\ sock[opening] = "connecting"
        /\ Recover(Pending, Waiting, ends, Without(opening), 0)
    BY DEF Refused, SocketShape
  <1>2. /\ ends \in [Sockets -> SocketStates]
        /\ \A t \in Sockets : ends[t] = "unused" <=> sock[t] = "unused"
    BY <1>1 DEF SocketShape, SocketStates
  <1>3. Without(opening) \in Sockets \cup {0}
        /\ (Without(opening) # 0 => ends[Without(opening)] \in InUse)
    BY <1>1 DEF Without, SocketShape, InUse
  <1>4. Pending \in SUBSET Pending /\ Waiting \in SUBSET Waiting /\ 0 \in Sockets \cup {0}
        /\ (Waiting \ Waiting # {} <=> 0 # 0) /\ (0 # 0 => ends[0] # "unused")
    OBVIOUS
  <1> HIDE DEF ends
  <1> QED BY <1>1, <1>2, <1>3, <1>4, RecoverSockets

LEMMA TimedOutSockets ==
  ASSUME CallShape, SocketShape, SocketsLeft, ConnectTimesOut
  PROVE  SocketShape' /\ TakesOne
  <1> DEFINE ends == Destroyed(sock, opening)
  <1>1. opening \in Sockets /\ Recover({}, Waiting, ends, Without(opening), 0)
    BY DEF ConnectTimesOut, SocketShape
  <1>2. /\ ends \in [Sockets -> SocketStates]
        /\ \A t \in Sockets : ends[t] = "unused" <=> sock[t] = "unused"
        /\ \A t \in Sockets : t # opening => ends[t] = sock[t]
    BY <1>1, DestroyedSockets DEF SocketShape
  <1>3. Without(opening) \in Sockets \cup {0}
        /\ (Without(opening) # 0 => ends[Without(opening)] \in InUse)
    <2> HIDE DEF ends
    <2> QED BY <1>1, <1>2 DEF Without, SocketShape, InUse
  <1>4. {} \in SUBSET Pending /\ Waiting \in SUBSET Waiting /\ 0 \in Sockets \cup {0}
        /\ (Waiting \ Waiting # {} <=> 0 # 0) /\ (0 # 0 => ends[0] # "unused")
    OBVIOUS
  <1> HIDE DEF ends
  <1> QED BY <1>1, <1>2, <1>3, <1>4, RecoverSockets

LEMMA ClosedSockets ==
  ASSUME CallShape, SocketShape, SocketsLeft, NEW s \in Sockets, Closed(s)
  PROVE  SocketShape' /\ TakesOne
  <1> DEFINE ends == [sock EXCEPT ![s] = "closed"]
  <1>1. /\ sock[s] \in {"ended", "destroyed"}
        /\ Recover(Pending, {}, ends, Without(s), opening)
    BY DEF Closed
  <1>2. /\ ends \in [Sockets -> SocketStates]
        /\ \A t \in Sockets : ends[t] = "unused" <=> sock[t] = "unused"
    BY <1>1 DEF SocketShape, SocketStates
  <1>3. Without(s) \in Sockets \cup {0} /\ (Without(s) # 0 => ends[Without(s)] \in InUse)
    BY <1>1 DEF Without, SocketShape, InUse
  <1>4. /\ Pending \in SUBSET Pending /\ {} \in SUBSET Waiting /\ opening \in Sockets \cup {0}
        /\ Waiting \ {} # {} <=> opening # 0
    BY DEF SocketShape
  <1>5. opening # 0 => ends[opening] # "unused"
    BY <1>2 DEF SocketShape
  <1> HIDE DEF ends
  <1> QED BY <1>1, <1>2, <1>3, <1>4, <1>5, RecoverSockets

LEMMA SocketShapeStep ==
  ASSUME CallShape, SocketShape, SocketsLeft, Next
  PROVE  SocketShape' /\ TakesOne
  <1>1. ASSUME UNCHANGED <<sock, current, opening>>, Waiting' = Waiting
        PROVE  SocketShape' /\ TakesOne
    <2>1. Used' \subseteq Used
      BY <1>1 DEF Used
    <2> QED BY <1>1, <2>1 DEF SocketShape, TakesOne
  <1>2. ASSUME NEW c \in Calls, Deadline(c) PROVE SocketShape' /\ TakesOne
    <2>1. call[c].pc = "sent" /\ call' = [call EXCEPT ![c] = Failed("slow")]
          /\ UNCHANGED <<sock, current, opening>>
      BY <1>2 DEF Deadline
    <2>2. Failed("slow").pc = "failed"
      BY FailedFields
    <2>3. Waiting' = Waiting
      BY <2>1, <2>2 DEF Waiting, CallShape
    <2> QED BY <1>1, <2>1, <2>3
  <1>3. ASSUME NEW s \in Sockets, Ends(s) PROVE SocketShape' /\ TakesOne
    <2>1. /\ sock[s] = "open" /\ sock' = [sock EXCEPT ![s] = "ended"]
          /\ UNCHANGED <<call, current, opening>>
      BY <1>3 DEF Ends
    <2>2. sock' \in [Sockets -> SocketStates] /\ Used' \subseteq Used
      BY <2>1 DEF SocketShape, SocketStates, Used
    <2>3. Waiting' = Waiting
      BY <2>1 DEF Waiting
    <2>4. current # 0 => sock'[current] \in {"connecting", "open", "ended"}
      BY <2>1 DEF SocketShape
    <2>5. opening # 0 => sock'[opening] # "unused"
      BY <2>1 DEF SocketShape
    <2> QED BY <2>1, <2>2, <2>3, <2>4, <2>5 DEF SocketShape, TakesOne
  <1>4. ASSUME NEW f \in frames, Receive(f) PROVE SocketShape' /\ TakesOne
    <2>1. \A c \in Calls : call'[c].pc = "connecting" <=> call[c].pc = "connecting"
      BY <1>4 DEF Receive, Pending, Idle
    <2>2. Waiting' = Waiting
      BY <2>1 DEF Waiting
    <2> QED BY <1>1, <1>4, <2>2 DEF Receive
  <1>5. ASSUME UNCHANGED client PROVE SocketShape' /\ TakesOne
    BY <1>1, <1>5 DEF client, Waiting
  <1>6. ASSUME NEW f \in frames, Take(f) \/ Run(f) PROVE SocketShape' /\ TakesOne
    BY <1>5, <1>6 DEF Take, Run
  <1>7. CASE DaemonCloses \/ DaemonExits \/ DaemonStarts
    BY <1>5, <1>7 DEF DaemonCloses, DaemonExits, DaemonStarts
  <1> QED BY <1>2, <1>3, <1>4, <1>6, <1>7, CallSockets, ConnectedSockets, RefusedSockets,
             TimedOutSockets, ClosedSockets DEF Next

-----------------------------------------------------------------------------
(* The theorems *)

LEMMA DaemonShapeStep ==
  ASSUME DaemonShape, Next
  PROVE  DaemonShape'
  <1>1. ASSUME UNCHANGED <<daemon, stops>> PROVE DaemonShape'
    BY <1>1 DEF DaemonShape
  <1>2. ASSUME NEW c \in Calls, Call(c) \/ Deadline(c) PROVE UNCHANGED <<daemon, stops>>
    BY <1>2 DEF Call, Deadline
  <1>3. CASE Connected \/ Refused \/ ConnectTimesOut
    BY <1>1, <1>3 DEF Connected, Refused, ConnectTimesOut
  <1>4. ASSUME NEW s \in Sockets, Ends(s) \/ Closed(s) PROVE UNCHANGED <<daemon, stops>>
    BY <1>4 DEF Ends, Closed
  <1>5. ASSUME NEW f \in frames, Receive(f) \/ Take(f) \/ Run(f) PROVE UNCHANGED <<daemon, stops>>
    BY <1>5 DEF Receive, Take, Run
  <1>6. CASE DaemonCloses
    BY <1>6, ChannelAssumption DEF DaemonCloses, DaemonShape, ChannelAssumption
  <1>7. CASE DaemonExits \/ DaemonStarts
    BY <1>7 DEF DaemonExits, DaemonStarts, DaemonShape
  <1> QED BY <1>1, <1>2, <1>3, <1>4, <1>5, <1>6, <1>7 DEF Next

(* The inductive invariant. *)
ChannelInv ==
    /\ CallShape /\ FrameShape /\ SocketShape /\ DaemonShape
    /\ SocketsLeft /\ IdsLeft
    /\ WritesOnce /\ Matched /\ AnswerIsOwn

LEMMA InitChannelInv == Init => ChannelInv
  <1> SUFFICES ASSUME Init PROVE ChannelInv
    OBVIOUS
  <1>1. /\ \A c \in Calls : call[c] = Idle /\ ran[c] = 0
        /\ \A s \in Sockets : sock[s] = "unused"
        /\ Idle = [pc |-> "idle", again |-> FALSE, id |-> 0, fate |-> "none", got |-> None]
    BY DEF Init, Idle
  <1>2. CallShape /\ FrameShape
    <2>1. Idle \in Record
      BY <1>1 DEF Record
    <2>2. call \in [Calls -> Record]
      BY <2>1 DEF Init
    <2>3. CallShape
      <3>1. nextId \in Nat \ {0}
        BY DEF Init
      <3>2. \A c \in Calls : call[c].fate = "none" /\ call[c].pc = "idle" /\ ~call[c].again
        BY <1>1
      <3> QED BY <2>2, <3>1, <3>2 DEF CallShape
    <2>4. ran \in [Calls -> Nat] /\ frames = {} /\ served = {}
      BY DEF Init
    <2> QED BY <2>3, <2>4 DEF FrameShape
  <1>3. SocketShape
    <2>1. Waiting = {}
      BY <1>1 DEF Waiting
    <2> QED BY <2>1 DEF Init, SocketShape, SocketStates
  <1>4. DaemonShape
    BY ChannelAssumption DEF Init, DaemonShape, ChannelAssumption
  <1>5. SocketsLeft /\ IdsLeft
    <2>1. Used = {} /\ Unbegun \in SUBSET Attempts /\ Unspent \in SUBSET Attempts /\ nextId = 1
      BY <1>1 DEF Used, Unbegun, Unspent, Init
    <2>2. /\ Cardinality(Unbegun) <= Cardinality(Attempts) /\ Cardinality(Unbegun) \in Nat
          /\ Cardinality(Unspent) <= Cardinality(Attempts) /\ Cardinality(Unspent) \in Nat
      BY <2>1, Finite, Fewer
    <2>3. Cardinality(Used) = 0
      BY <2>1, FS_EmptySet
    <2> QED BY <2>1, <2>2, <2>3, Finite DEF SocketsLeft, IdsLeft
  <1>6. WritesOnce
    BY <1>1 DEF Init, WritesOnce
  <1>7. Matched /\ AnswerIsOwn
    BY <1>1 DEF Init, Matched, AnswerIsOwn
  <1> QED BY <1>2, <1>3, <1>4, <1>5, <1>6, <1>7 DEF ChannelInv

LEMMA NextChannelInv ==
  ASSUME ChannelInv, [Next]_vars
  PROVE  ChannelInv'
  <1>1. CASE Next
    <2>1. SocketShape' /\ TakesOne /\ Unbegun' \subseteq Unbegun
      BY <1>1, SocketShapeStep, AttemptsStep DEF ChannelInv
    <2>2. SocketsLeft'
      BY <2>1, SocketsLeftStep DEF ChannelInv
    <2>3. CallShape' /\ FrameShape' /\ DaemonShape' /\ IdsLeft'
      BY <1>1, CallShapeStep, FrameShapeStep, DaemonShapeStep, IdsLeftStep DEF ChannelInv
    <2>4. WritesOnce' /\ Matched' /\ AnswerIsOwn'
      BY <1>1, WritesOnceStep, MatchedStep DEF ChannelInv
    <2> QED BY <2>1, <2>2, <2>3, <2>4 DEF ChannelInv
  <1>2. CASE UNCHANGED vars
    <2>1. UNCHANGED <<call, sock, current, opening, nextId, frames, served, daemon, stops, ran>>
      BY <1>2 DEF vars, client
    <2>2. CallShape' /\ FrameShape' /\ DaemonShape'
      BY <2>1 DEF ChannelInv, CallShape, FrameShape, DaemonShape
    <2>3. SocketShape'
      BY <2>1 DEF ChannelInv, SocketShape, Waiting
    <2>4. SocketsLeft' /\ IdsLeft'
      <3>1. Used' = Used /\ Unbegun' = Unbegun /\ Unspent' = Unspent
        BY <2>1 DEF Used, Unbegun, Unspent, Begun, Spent
      <3> QED BY <2>1, <3>1 DEF ChannelInv, SocketsLeft, IdsLeft
    <2>5. WritesOnce' /\ Matched' /\ AnswerIsOwn'
      BY <2>1 DEF ChannelInv, WritesOnce, Matched, AnswerIsOwn
    <2> QED BY <2>2, <2>3, <2>4, <2>5 DEF ChannelInv
  <1> QED BY <1>1, <1>2

LEMMA Always == Spec => []ChannelInv
  <1>1. ChannelInv /\ [Next]_vars => ChannelInv'
    BY NextChannelInv
  <1> QED BY <1>1, InitChannelInv, PTL DEF Spec

(* Types, which say that the two attempts a call has, with a socket and an   *)
(* id each, are all it ever takes: Connection.nextId and the sockets opened  *)
(* stay below twice the number of calls (rpc-client.ts:73, 188).             *)
THEOREM TypeCorrect == Spec => []TypeOK
  <1>1. ChannelInv => TypeOK
    <2> SUFFICES ASSUME ChannelInv PROVE TypeOK
      OBVIOUS
    <2>1. ASSUME NEW n \in Nat, n < nextId PROVE n \in Ids \cup {0}
      <3>1. /\ Cardinality(Unspent) \in Nat /\ Cardinality(Calls) \in Nat /\ nextId \in Nat
            /\ nextId - 1 + Cardinality(Unspent) <= 2 * Cardinality(Calls)
        <4>1. Unspent \in SUBSET Attempts
          BY DEF Unspent
        <4> QED BY <4>1, Finite DEF ChannelInv, CallShape, IdsLeft
      <3>2. n <= 2 * Cardinality(Calls)
        BY <2>1, <3>1
      <3> QED BY <3>1, <3>2 DEF Ids
    <2>2. call \in [Calls -> Entry]
      <3>1. ASSUME NEW c \in Calls PROVE call[c] \in Entry
        <4>1. call[c] \in Record /\ call[c].id < nextId
          BY DEF ChannelInv, CallShape, Matched
        <4>2. call[c].id \in Ids \cup {0}
          BY <2>1, <4>1 DEF Record
        <4> QED BY <4>1, <4>2 DEF Record, Entry
      <3> QED BY <3>1 DEF ChannelInv, CallShape
    <2>3. frames \subseteq Frame
      <3>1. ASSUME NEW f \in frames PROVE f \in Frame
        <4>1. f \in Packet /\ f.id < nextId
          BY DEF ChannelInv, FrameShape, Matched
        <4>2. f.id \in Ids
          BY <2>1, <4>1 DEF Packet
        <4> QED BY <4>1, <4>2 DEF Packet, Frame
      <3> QED BY <3>1
    <2>4. \A c \in Pending : call[c].id # 0
      BY DEF ChannelInv, CallShape, Pending
    <2>5. /\ sock \in [Sockets -> SocketStates]
          /\ current \in Sockets \cup {0} /\ opening \in Sockets \cup {0}
          /\ Waiting # {} <=> opening # 0
          /\ current # 0 => sock[current] \in {"connecting", "open", "ended"}
      BY DEF ChannelInv, SocketShape
    <2>6. nextId \in Nat \ {0} /\ served \subseteq Sockets /\ ran \in [Calls -> Nat]
      BY DEF ChannelInv, CallShape, FrameShape
    <2>7. daemon \in {"up", "closing", "down"} /\ stops \in 0 .. MaxStops
      BY DEF ChannelInv, DaemonShape
    <2> QED BY <2>2, <2>3, <2>4, <2>5, <2>6, <2>7 DEF TypeOK, SocketStates
  <1> QED BY <1>1, Always, PTL

(* "A request whose bytes went out is never sent twice" (rpc-client.ts:110): *)
(* a write runs once at most, however often the daemon comes back.           *)
THEOREM WritesRunOnce == Spec => []WriteRunsOnce
  <1>1. ChannelInv => WriteRunsOnce
    BY DEF ChannelInv, WritesOnce, WriteRunsOnce
  <1> QED BY <1>1, Always, PTL

(* What a caller is told was never sent did not run, and never will          *)
(* (remote-kernel.ts:47).                                                    *)
THEOREM UnsentNeverRan == Spec => []UnsentNeverRuns
  <1>1. ChannelInv => UnsentNeverRuns
    BY DEF ChannelInv, WritesOnce, UnsentNeverRuns
  <1> QED BY <1>1, Always, PTL

(* No reply answers a call it is not the reply to: not after a deadline, and *)
(* not on a second connection (rpc-client.ts:137, 250).                      *)
THEOREM AnswersAreOwn == Spec => []AnswerIsOwn
  <1>1. ChannelInv => AnswerIsOwn
    BY DEF ChannelInv
  <1> QED BY <1>1, Always, PTL

=============================================================================
