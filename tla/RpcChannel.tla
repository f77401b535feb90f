----------------------------- MODULE RpcChannel ------------------------------
(* The connection every call of a process shares (rpc-client.ts, class       *)
(* Connection) and the daemon's end of it (presentation/rpc/server.ts), over *)
(* a unix socket.                                                            *)
(*                                                                           *)
(* A step is one event of the client's loop with the promise jobs it queues, *)
(* which run before the next event, or one step of the daemon.  There is no  *)
(* clock: a deadline may pass at any moment, which covers every length of it.*)
(* Left out: the token handshake of tcp, notifications, malformed lines.     *)
EXTENDS Naturals, FiniteSets, Functions

CONSTANTS
    Calls,      \* the calls of one process
    Retryable,  \* those that may be sent twice: reads
    MaxStops,   \* bound: how often the daemon stops
    None

ASSUME ChannelAssumption ==
    /\ IsFiniteSet(Calls)
    /\ Retryable \subseteq Calls
    /\ MaxStops \in Nat
    /\ None \notin Calls

(* A call is attempted twice at most, and an attempt opens one socket and    *)
(* writes one frame at most: neither set is a bound.                         *)
Sockets == 1 .. 2 * Cardinality(Calls)
Ids == 1 .. 2 * Cardinality(Calls)

VARIABLES
    call,     \* what each call is doing, and what became of it
    sock,     \* the client's end of each socket
    current,  \* the field `socket` of the connection, 0 when null
    opening,  \* the socket of the promise `opening`, 0 when null
    nextId,
    frames,   \* requests and replies on their way, or being served
    served,   \* the sockets the daemon holds
    daemon,
    stops,
    ran       \* how often the daemon ran each call

client == <<call, sock, current, opening, nextId>>
vars == <<client, frames, served, daemon, stops, ran>>

Entry == [pc : {"idle", "connecting", "sent", "answered", "failed"},
          again : BOOLEAN,               \* this is the second attempt
          id : Ids \cup {0},             \* of its last frame
          fate : {"none", "slow", "lost", "unsent"},
          got : Calls \cup {None}]       \* the call whose answer it took

Frame == [sock : Sockets, id : Ids, who : Calls,
          at : {"sent", "running", "answered"}]

Idle == [pc |-> "idle", again |-> FALSE, id |-> 0, fate |-> "none", got |-> None]

Failed(fate) == [Idle EXCEPT !.pc = "failed", !.fate = fate]

Init ==
    /\ call = [c \in Calls |-> Idle]
    /\ sock = [s \in Sockets |-> "unused"]
    /\ current = 0 /\ opening = 0 /\ nextId = 1
    /\ frames = {} /\ served = {}
    /\ daemon = "up" /\ stops = 0
    /\ ran = [c \in Calls |-> 0]
-----------------------------------------------------------------------------
(* The client *)

Waiting == {c \in Calls : call[c].pc = "connecting"}
Pending == {c \in Calls : call[c].pc = "sent"}

Live == opening = 0 /\ current # 0 /\ sock[current] = "open"

NextSocket == CHOOSE s \in Sockets :
                 sock[s] = "unused" /\ \A t \in 1 .. s - 1 : sock[t] # "unused"

(* slip: ids are reused once nobody waits for them *)
NewIdsReused(cs) == Cardinality(Pending) + 1 .. Cardinality(Pending \cup cs)

(* The ids of frames written together.  Their order does not matter. *)
NewIds(cs) == nextId .. nextId + Cardinality(cs) - 1
IdsOf(cs) == CHOOSE f \in Bijection(cs, NewIds(cs)) : TRUE

(* A frame per call, on a socket that can be written.  What is written when  *)
(* the daemon's end has gone is lost.                                        *)
Request(cs, s) ==
    /\ call' = [c \in Calls |->
                  IF c \in cs THEN [call[c] EXCEPT !.pc = "sent", !.id = IdsOf(cs)[c]]
                  ELSE call[c]]
    /\ nextId' = nextId + Cardinality(cs)
    /\ frames' = frames \cup
          {[sock |-> s, id |-> IdsOf(cs)[c], who |-> c, at |-> "sent"] :
             c \in {x \in cs : s \in served'}}

Call(c) ==
    /\ call[c].pc = "idle"
    /\ UNCHANGED <<served, daemon, stops, ran>>
    /\ \/ Live /\ Request({c}, current) /\ UNCHANGED <<sock, current, opening>>
       \/ /\ ~Live
          /\ call' = [call EXCEPT ![c].pc = "connecting"]
          /\ \/ opening # 0 /\ UNCHANGED <<sock, current, opening>>
             \/ /\ opening = 0
                /\ sock' = [sock EXCEPT ![NextSocket] = "connecting"]
                /\ current' = NextSocket /\ opening' = NextSocket
          /\ UNCHANGED <<nextId, frames>>

(* `connected` resolves, and everyone who waited writes its request. *)
Connected ==
    /\ opening # 0 /\ sock[opening] = "connecting" /\ daemon = "up"
    /\ sock' = [sock EXCEPT ![opening] = "open"]
    /\ served' = served \cup {opening}
    /\ opening' = 0
    /\ Request(Waiting, opening)
    /\ UNCHANGED <<current, daemon, stops, ran>>

(* slip: a call is tried again whatever it is *)
RetriesAll(cs) == {c \in cs : ~call[c].again}

(* Which of the calls that have just failed `send` tries again. *)
Retries(cs) == {c \in cs : c \in Retryable /\ ~call[c].again}

Retried(c) == [call[c] EXCEPT !.pc = "connecting", !.again = TRUE, !.id = 0]

(* slip: a failure after the request was written is marked as one before *)
FateUnsent == "unsent"

(* How a call fails whose request had been written. *)
FateSent == "lost"

Destroyed(ends, s) ==
    IF s # 0 /\ ends[s] \in {"connecting", "open", "ended"}
    THEN [ends EXCEPT ![s] = "destroyed"] ELSE ends

(* The first call that tries again closes the connection and opens the next, *)
(* or joins the one being opened; each after it closes again, and so destroys *)
(* the socket the first is opening.  With none the connection is as it was.  *)
Reopen(again, ends, cur, opn) ==
    LET open == NextSocket
        closed == Destroyed(ends, cur)
    IN  \/ again = {} /\ sock' = ends /\ current' = cur /\ opening' = opn
        \/ again # {} /\ opn # 0 /\ sock' = closed /\ current' = 0 /\ opening' = opn
        \/ /\ again # {} /\ opn = 0
           /\ opening' = open
           /\ \/ /\ Cardinality(again) = 1
                 /\ sock' = [closed EXCEPT ![open] = "connecting"] /\ current' = open
              \/ /\ Cardinality(again) > 1
                 /\ sock' = [closed EXCEPT ![open] = "destroyed"] /\ current' = 0

(* A call that tries again closes the connection, which fails every call     *)
(* that is still pending.                                                    *)
Swept(lost, unsent) == IF Retries(lost \cup unsent) = {} THEN lost ELSE Pending

(* The calls `lost` had been written and the calls `unsent` had not when an  *)
(* event rejected them; it leaves the sockets `ends` and the fields cur and  *)
(* opn.                                                                      *)
Recover(lost, unsent, ends, cur, opn) ==
    LET swept == Swept(lost, unsent)
        again == Retries(swept \cup unsent)
    IN  /\ call' = [c \in Calls |->
                     IF c \in again
                     THEN Retried(c)
                     ELSE IF c \in swept
                     THEN Failed(FateSent)
                     ELSE IF c \in unsent
                     THEN Failed("unsent")
                     ELSE call[c]]
        /\ Reopen(again, ends, cur, opn)
        /\ frames' = {f \in frames : f.at = "answered" => sock'[f.sock] = "open"}
        /\ UNCHANGED nextId

Without(s) == IF current = s THEN 0 ELSE current

(* connect() is refused: the socket's error event reaches `drop` and `open`. *)
Refused ==
    /\ opening # 0 /\ sock[opening] = "connecting" /\ daemon # "up"
    /\ Recover(Pending, Waiting, [sock EXCEPT ![opening] = "closed"], Without(opening), 0)
    /\ UNCHANGED <<served, daemon, stops, ran>>

(* slip: the timer goes with the socket *)
ConnectTimesOutLive ==
    /\ opening # 0 /\ sock[opening] = "connecting"
    /\ Recover({}, Waiting, Destroyed(sock, opening), Without(opening), 0)
    /\ UNCHANGED <<served, daemon, stops, ran>>

(* The timer of `connected`, which hears neither of a destroyed socket nor   *)
(* of its close: whoever waits for one waits for this.                       *)
ConnectTimesOut ==
    /\ opening # 0
    /\ Recover({}, Waiting, Destroyed(sock, opening), Without(opening), 0)
    /\ UNCHANGED <<served, daemon, stops, ran>>

(* The call's own deadline.  It keeps the connection. *)
Deadline(c) ==
    /\ call[c].pc = "sent"
    /\ call' = [call EXCEPT ![c] = Failed("slow")]
    /\ UNCHANGED <<sock, current, opening, nextId, frames, served, daemon, stops, ran>>

(* The daemon has closed its end: the socket can no longer be written, and   *)
(* a reply that has not been read by now never is.                           *)
Ends(s) ==
    /\ sock[s] = "open" /\ s \notin served
    /\ sock' = [sock EXCEPT ![s] = "ended"]
    /\ frames' = {f \in frames : ~(f.sock = s /\ f.at = "answered")}
    /\ UNCHANGED <<call, current, opening, nextId, served, daemon, stops, ran>>

(* The close event of any socket fails every call that is pending. *)
Closed(s) ==
    /\ sock[s] \in {"ended", "destroyed"}
    /\ Recover(Pending, {}, [sock EXCEPT ![s] = "closed"], Without(s), opening)
    /\ UNCHANGED <<served, daemon, stops, ran>>

(* A reply is matched by its id; one nobody waits for is dropped. *)
Receive(f) ==
    /\ f.at = "answered" /\ sock[f.sock] = "open"
    /\ frames' = frames \ {f}
    /\ call' = [c \in Calls |->
                  IF c \in Pending /\ call[c].id = f.id
                  THEN [Idle EXCEPT !.pc = "answered", !.got = f.who]
                  ELSE call[c]]
    /\ UNCHANGED <<sock, current, opening, nextId, served, daemon, stops, ran>>
-----------------------------------------------------------------------------
(* The daemon *)

Take(f) ==
    /\ f.at = "sent" /\ f.sock \in served
    /\ frames' = (frames \ {f}) \cup {[f EXCEPT !.at = "running"]}
    /\ UNCHANGED <<client, served, daemon, stops, ran>>

(* A method returns, and its reply is written while the socket is writable. *)
Run(f) ==
    /\ f.at = "running"
    /\ ran' = [ran EXCEPT ![f.who] = @ + 1]
    /\ frames' = (frames \ {f}) \cup
          {[f EXCEPT !.at = "answered"] :
             s \in {x \in {f.sock} : x \in served /\ sock[x] = "open"}}
    /\ UNCHANGED <<client, served, daemon, stops>>

(* RpcServer.close destroys every socket; what is running goes on. *)
DaemonCloses ==
    /\ daemon = "up" /\ stops < MaxStops
    /\ daemon' = "closing" /\ stops' = stops + 1
    /\ served' = {}
    /\ frames' = {f \in frames : f.at # "sent"}
    /\ UNCHANGED <<client, ran>>

DaemonExits ==
    /\ daemon = "closing"
    /\ daemon' = "down"
    /\ frames' = {f \in frames : f.at # "running"}
    /\ UNCHANGED <<client, served, stops, ran>>

DaemonStarts ==
    /\ daemon = "down"
    /\ daemon' = "up"
    /\ UNCHANGED <<client, frames, served, stops, ran>>
-----------------------------------------------------------------------------
Next ==
    \/ \E c \in Calls : Call(c) \/ Deadline(c)
    \/ Connected \/ Refused \/ ConnectTimesOut
    \/ \E s \in Sockets : Ends(s) \/ Closed(s)
    \/ \E f \in frames : Receive(f) \/ Take(f) \/ Run(f)
    \/ DaemonCloses \/ DaemonExits \/ DaemonStarts

Spec == Init /\ [][Next]_vars

(* Only the client's own timers run: the daemon may hang, or never come      *)
(* back.  A call has a bounded number of them, so when one fires for as long *)
(* as one is set, each of them does.                                         *)
Timers == ConnectTimesOut \/ \E c \in Calls : Deadline(c)

FairSpec == Spec /\ WF_vars(Timers)
-----------------------------------------------------------------------------
(* Properties *)

(* Types; a call waits exactly while a connection is being opened, the field *)
(* `socket` is a socket in use, and a pending call has an id.                *)
TypeOK ==
    /\ call \in [Calls -> Entry]
    /\ sock \in [Sockets -> {"unused", "connecting", "open", "ended", "destroyed", "closed"}]
    /\ current \in Sockets \cup {0} /\ opening \in Sockets \cup {0}
    /\ nextId \in Nat \ {0}
    /\ frames \subseteq Frame /\ served \subseteq Sockets
    /\ daemon \in {"up", "closing", "down"} /\ stops \in 0 .. MaxStops
    /\ ran \in [Calls -> Nat]
    /\ Waiting # {} <=> opening # 0
    /\ current # 0 => sock[current] \in {"connecting", "open", "ended"}
    /\ \A c \in Pending : call[c].id # 0

(* A write is run once at most, however often its connection, or another's,  *)
(* is cut and opened again (rpc-client.ts:22, 110).                          *)
WriteRunsOnce == \A c \in Calls \ Retryable : ran[c] <= 1

(* A write that failed before it was sent has not been run and will not be:  *)
(* "Nothing was sent, so repeating the call is safe" (remote-kernel.ts:47).  *)
UnsentNeverRuns ==
    \A c \in Calls \ Retryable : call[c].fate = "unsent" =>
        ran[c] = 0 /\ \A f \in frames : f.who # c

(* The answer of a call is its own: one that comes after its call's deadline *)
(* answers nobody (rpc-client.ts:137).                                       *)
AnswerIsOwn == \A c \in Calls : call[c].pc = "answered" => call[c].got = c /\ ran[c] > 0

(* Every call settles, whatever the daemon does: also a call that waits for  *)
(* a socket another call has destroyed.                                      *)
EveryCallSettles ==
    []<>(\A c \in Calls : call[c].pc \in {"idle", "answered", "failed"})

(* "Exactly one more attempt, on a connection built from scratch.  A second  *)
(* failure is the daemon being gone" (rpc-client.ts:96): who tries again     *)
(* waits for a socket that can still connect.                                *)
RetriesCanConnect ==
    \A c \in Waiting : call[c].again => sock[opening] = "connecting"
=============================================================================
