------------------------------- MODULE Access -------------------------------
(* Who may call a daemon over the network, and how often: connections that present a token,     *)
(* the lookup of tokens and its cache (PrincipalTokenService), the frames that wait for a       *)
(* verdict (RpcServer.admit), and the gate of every call: session, posture and quota            *)
(* (CallPipeline, PrincipalQuotaService).                                                       *)
(*                                                                                              *)
(* A step is what runs between two awaits: a lookup is asked, read in the store and filled into *)
(* the cache at three different times. What a call does, and its audit row, are left out.       *)
EXTENDS Integers, FiniteSets

CONSTANTS
    Tokens,       \* tokens that have been issued
    Conns,        \* connections, each made once
    Frames,       \* bound: frames the daemon is at, at once
    Principal,    \* the principal of each token
    Off,          \* the capabilities whose posture is `off`, of each principal
    Calls,        \* quota.calls of each principal
    Writes,       \* quota.writes of each principal
    Window,       \* quota.windowMs
    ReportWindow, \* DEFAULT_WINDOW_MS, which the usage report asks for
    Recheck,      \* TOKEN_RECHECK_MS
    MaxTime,      \* bound: the clock
    MaxFailures,  \* bound: lookups the store does not answer
    MaxFrames,    \* bound: frames that clients send after the handshake
    None

Principals == {Principal[t] : t \in Tokens}
Times == 0 .. MaxTime

\* What a call may ask for; only `write` has a ceiling of its own.
Capabilities == {"read", "write", "consolidate", "admin"}

ASSUME AccessAssumption ==
    /\ Calls \in [Principals -> Nat] /\ Writes \in [Principals -> Nat]
    /\ Window \in Nat /\ ReportWindow \in Nat /\ Recheck \in Nat \ {0}
    /\ MaxTime \in Nat /\ MaxFailures \in Nat /\ MaxFrames \in Nat
    /\ Off \in [Principals -> SUBSET Capabilities]
    /\ None \notin Tokens \cup Conns \cup Nat

VARIABLES
    now,
    revoked,   \* when each token was revoked
    cache,     \* what is remembered of a token
    conn,      \* what the daemon knows of a connection
    frame,     \* the frames it is at
    spent,     \* PrincipalQuotaService.calls: how many of each kind at each time
    ran,       \* history: the same, of which nothing is forgotten, as long as no report forgets
    forgot,    \* history: principals of whom a report dropped calls that still count
    failures, sent,
    troubled   \* history: connections that were refused for no fault of their token

vars == <<now, revoked, cache, conn, frame, spent, ran, forgot, failures, sent, troubled>>

NoFrame == [pc |-> "idle", conn |-> None, first |-> FALSE, asked |-> 0, hit |-> FALSE]
NoCalls == [t \in Times |-> [other |-> 0, write |-> 0]]

Init ==
    /\ now = 0
    /\ revoked = [t \in Tokens |-> None]
    /\ cache = [t \in Tokens |-> None]
    /\ conn = [c \in Conns |-> [state |-> "none", token |-> None, asked |-> 0]]
    /\ frame = [f \in Frames |-> NoFrame]
    /\ spent = [p \in Principals |-> NoCalls] /\ ran = [p \in Principals |-> NoCalls]
    /\ forgot = {} /\ failures = 0 /\ sent = 0 /\ troubled = {}

TokenOf(f) == conn[frame[f].conn].token
PrincipalOf(f) == Principal[TokenOf(f)]

\* A frame that comes takes a free slot; which one makes no difference.
TakesSlot(f) ==
    /\ \E g \in Frames : frame[g].pc = "idle"
    /\ f = CHOOSE g \in Frames : frame[g].pc = "idle"

\* Nor does it matter which connection is made first.
ComesNext(c) == c = CHOOSE d \in Conns : conn[d].state = "none"

Becomes(f, pc) == frame' = [frame EXCEPT ![f].pc = pc]

----------------------------------------------------------------------------
(* Tokens *)

Tick ==
    /\ now < MaxTime /\ now' = now + 1
    /\ UNCHANGED <<revoked, cache, conn, frame, spent, ran, forgot, failures, sent, troubled>>

\* By another process: the cache of the daemon does not hear of it.
Revoke(t) ==
    /\ revoked[t] = None
    /\ revoked' = [revoked EXCEPT ![t] = now]
    /\ UNCHANGED <<now, cache, conn, frame, spent, ran, forgot, failures, sent, troubled>>

Fresh(t) == cache[t] # None /\ now - cache[t].at < Recheck

\* authenticate: from memory, or by a lookup that starts now.
Asks(f, c, t, first) ==
    LET found == [pc |-> "answered", conn |-> c, first |-> first, asked |-> now, hit |-> FALSE]
    IN  frame' = [frame EXCEPT ![f] =
                     IF Fresh(t) THEN [found EXCEPT !.hit = cache[t].hit]
                     ELSE [found EXCEPT !.pc = "looking"]]

\* findActiveByHash
Look(f) ==
    /\ frame[f].pc = "looking"
    /\ frame' = [frame EXCEPT ![f].pc = "found", ![f].hit = revoked[TokenOf(f)] = None]
    /\ UNCHANGED <<now, revoked, cache, conn, spent, ran, forgot, failures, sent, troubled>>

(* slip: checked when the answer came *)
FilledLate(f) == cache' = [cache EXCEPT ![TokenOf(f)] = [hit |-> frame[f].hit, at |-> now]]
Filled(f) == cache' = [cache EXCEPT ![TokenOf(f)] = [hit |-> frame[f].hit, at |-> frame[f].asked]]

\* The verdict comes later than this: last_used_at is written in between, and may fail.
Fill(f) ==
    /\ frame[f].pc = "found"
    /\ Filled(f)
    /\ \/ Becomes(f, "answered") /\ UNCHANGED <<failures, troubled>>
       \/ /\ frame[f].hit /\ failures < MaxFailures
          /\ failures' = failures + 1
          /\ troubled' = troubled \cup {frame[f].conn}
          /\ frame' = [frame EXCEPT ![f].pc = "answered", ![f].hit = FALSE]
    /\ UNCHANGED <<now, revoked, conn, spent, ran, forgot, sent>>

(* slip: no answer is remembered as a refusal *)
FailureRemembered(f) ==
    cache' = [cache EXCEPT ![TokenOf(f)] = [hit |-> FALSE, at |-> frame[f].asked]]
NothingRemembered(f) == UNCHANGED cache

\* verify takes an error for a refusal.
LookupFails(f) ==
    /\ frame[f].pc = "looking" /\ failures < MaxFailures
    /\ failures' = failures + 1
    /\ troubled' = troubled \cup {frame[f].conn}
    /\ NothingRemembered(f)
    /\ Becomes(f, "answered")
    /\ UNCHANGED <<now, revoked, conn, spent, ran, forgot, sent>>

----------------------------------------------------------------------------
(* Connections *)

Refused(c) == conn' = [conn EXCEPT ![c].state = "refused"]

\* The first frame is initialize with a token; without one the connection is refused at once,
\* which is left out.
Handshake(f, c, t) ==
    /\ TakesSlot(f) /\ conn[c].state = "none" /\ ComesNext(c)
    /\ conn' = [conn EXCEPT ![c] = [state |-> "pending", token |-> t, asked |-> now]]
    /\ Asks(f, c, t, TRUE)
    /\ UNCHANGED <<now, revoked, cache, spent, ran, forgot, failures, sent, troubled>>

\* A frame that comes before the verdict on the first waits for it; a later one is verified itself.
Arrive(f, c) ==
    /\ TakesSlot(f) /\ sent < MaxFrames /\ sent' = sent + 1
    /\ \/ /\ conn[c].state = "pending"
          /\ frame' = [frame EXCEPT ![f] = [NoFrame EXCEPT !.pc = "waiting", !.conn = c,
                                                           !.asked = conn[c].asked]]
       \/ conn[c].state = "open" /\ Asks(f, c, conn[c].token, FALSE)
    /\ UNCHANGED <<now, revoked, cache, conn, spent, ran, forgot, failures, troubled>>

Enters(f) == frame' = [frame EXCEPT ![f] = [frame[f] EXCEPT !.pc = "session", !.asked = 0,
                                                            !.hit = FALSE]]

\* The handshake itself is no call of the pipeline. What was refused meanwhile stays refused,
\* but a frame that has its own verdict goes on.
Admitted(f) ==
    /\ frame[f].pc = "answered" /\ frame[f].hit
    /\ LET c == frame[f].conn
           state == IF conn[c].state = "refused" THEN "refused" ELSE "open"
       IN  conn' = [conn EXCEPT ![c] = [conn[c] EXCEPT !.state = state, !.asked = 0]]
    /\ IF frame[f].first THEN frame' = [frame EXCEPT ![f] = NoFrame]
       ELSE Enters(f)
    /\ UNCHANGED <<now, revoked, cache, spent, ran, forgot, failures, sent, troubled>>

TurnedAway(f) ==
    /\ frame[f].pc = "answered" /\ ~frame[f].hit
    /\ Refused(frame[f].conn)
    /\ frame' = [frame EXCEPT ![f] = NoFrame]
    /\ UNCHANGED <<now, revoked, cache, spent, ran, forgot, failures, sent, troubled>>

(* slip: those who wait are told of success only *)
LetIn(c) == conn[c].state = "open"
Decided(c) == conn[c].state # "pending"

\* The verdict on the first frame is that on the ones that waited for it.
VerdictIsIn(f) ==
    /\ frame[f].pc = "waiting" /\ Decided(frame[f].conn)
    /\ IF conn[frame[f].conn].state = "open" THEN Enters(f)
       ELSE frame' = [frame EXCEPT ![f] = NoFrame]
    /\ UNCHANGED <<now, revoked, cache, conn, spent, ran, forgot, failures, sent, troubled>>

----------------------------------------------------------------------------
(* The pipeline *)

Since(log, start) == [t \in Times |-> IF t > start THEN log[t] ELSE [other |-> 0, write |-> 0]]

(* slip: every principal has the window of the report *)
RecentByDefault(p) == Since(spent[p], now - ReportWindow)
Recent(p) == Since(spent[p], now - Window)

\* One entry for each of n[t] calls at every time t.
Entries(n) == UNION {{<<t, i>> : i \in 1 .. n[t]} : t \in Times}

WritesIn(log) == Cardinality(Entries([t \in Times |-> log[t].write]))
CallsIn(log) == Cardinality(Entries([t \in Times |-> log[t].other + log[t].write]))

Exceeded(p, kind) ==
    \/ CallsIn(Recent(p)) >= Calls[p]
    \/ kind = "write" /\ WritesIn(Recent(p)) >= Writes[p]

Logged(log, kind) ==
    IF kind = "write" THEN [log EXCEPT ![now].write = @ + 1] ELSE [log EXCEPT ![now].other = @ + 1]

\* What happens to a call once it is let through, and the audit row of one that is not, is left out.
Leaves(f) == frame' = [frame EXCEPT ![f] = NoFrame]

\* The session is unknown or another principal's, or the capability is `off`.
Denied(f) ==
    /\ frame[f].pc = "session"
    /\ Leaves(f)
    /\ UNCHANGED <<now, revoked, cache, conn, spent, ran, forgot, failures, sent, troubled>>

\* consume: what has left the window is dropped, and only a call that goes on is counted.
Consume(f, kind) ==
    LET p == PrincipalOf(f)
    IN  /\ frame[f].pc = "session" /\ kind \notin Off[p]
        /\ IF Exceeded(p, kind)
           THEN spent' = [spent EXCEPT ![p] = Recent(p)] /\ UNCHANGED ran
           ELSE /\ spent' = [spent EXCEPT ![p] = Logged(Recent(p), kind)]
                /\ ran' = IF p \in forgot THEN ran ELSE [ran EXCEPT ![p] = Logged(ran[p], kind)]
        /\ Leaves(f)
        /\ UNCHANGED <<now, revoked, cache, conn, forgot, failures, sent, troubled>>

\* usage, which `status` asks for: it drops what has left its own window, of every principal.
Report ==
    LET kept(p) == Since(spent[p], now - ReportWindow)
    IN  /\ spent' = [p \in Principals |-> kept(p)]
        /\ forgot' = forgot \cup {p \in Principals : Since(kept(p), now - Window) # Recent(p)}
        /\ ran' = [p \in Principals |-> IF p \in forgot' THEN NoCalls ELSE ran[p]]
        /\ UNCHANGED <<now, revoked, cache, conn, frame, failures, sent, troubled>>

----------------------------------------------------------------------------

Proceeds(f) ==
    \/ Look(f) \/ Fill(f) \/ LookupFails(f) \/ Admitted(f) \/ TurnedAway(f) \/ VerdictIsIn(f)
    \/ Denied(f) \/ \E kind \in Capabilities : Consume(f, kind)

Next ==
    \/ Tick \/ Report
    \/ \E t \in Tokens : Revoke(t)
    \/ \E f \in Frames, c \in Conns, t \in Tokens : Handshake(f, c, t)
    \/ \E f \in Frames, c \in Conns : Arrive(f, c)
    \/ \E f \in Frames : Proceeds(f)

Spec == Init /\ [][Next]_vars

\* The store answers or fails, and the daemon goes on with what it has been sent.
FairSpec == Spec /\ \A f \in Frames : WF_vars(Proceeds(f))

----------------------------------------------------------------------------
(* Properties *)

(* Every variable has its type. *)
TypeOK ==
    /\ now \in Times
    /\ revoked \in [Tokens -> Times \cup {None}]
    /\ cache \in [Tokens -> [hit : BOOLEAN, at : Times] \cup {None}]
    /\ conn \in [Conns -> [state : {"none", "pending", "open", "refused"},
                           token : Tokens \cup {None}, asked : Times]]
    /\ frame \in [Frames -> [pc : {"idle", "waiting", "looking", "found", "answered", "session"},
                             conn : Conns \cup {None}, first : BOOLEAN, asked : Times,
                             hit : BOOLEAN]]
    /\ spent \in [Principals -> [Times -> [other : Nat, write : Nat]]]
    /\ ran \in [Principals -> [Times -> [other : Nat, write : Nat]]]
    /\ forgot \subseteq Principals /\ failures \in 0 .. MaxFailures /\ sent \in 0 .. MaxFrames /\ troubled \subseteq Conns

(* A revocation reaches every connection within the recheck window ("so a revocation reaches a *)
(* held connection within that window", principal-token.service.ts:72): no frame is let in by  *)
(* an answer that was asked for a window or more after the token was revoked - though lookups  *)
(* overlap, and one that read before the revocation may fill the cache after one that read it. *)
RevocationReaches ==
    [][\A f \in Frames :
          frame[f].pc # "session" /\ frame'[f].pc = "session" /\ revoked[TokenOf(f)] # None
          => frame[f].asked < revoked[TokenOf(f)] + Recheck]_vars

(* No principal gets more through than its ceilings in any window, whatever is in flight at    *)
(* once (principal-quota.service.ts:37-63), unless a usage report with a shorter window has    *)
(* made the daemon forget calls of it that still counted (65-95).                              *)
QuotaHolds ==
    \A p \in Principals \ forgot :
        LET recent == Since(ran[p], now - Window)
        IN  CallsIn(recent) <= Calls[p] /\ WritesIn(recent) <= Writes[p]

(* A connection is refused for cause: its token was revoked, or the store did not answer for   *)
(* this very connection; what happened to another does not count (server.ts:308-390).          *)
RefusedForCause ==
    \A c \in Conns :
        conn[c].state = "refused" => c \in troubled \/ revoked[conn[c].token] # None

(* Every frame is answered or dropped in the end: none waits for a verdict that has been given *)
(* or will not be (server.ts:327-345).                                                         *)
EveryFrameEnds == \A f \in Frames : frame[f].pc # "idle" ~> frame[f].pc = "idle"
=============================================================================
