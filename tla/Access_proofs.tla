---------------------------- MODULE Access_proofs ----------------------------
(* Proofs about Access: what a verdict is worth when it is used, why a connection is refused, and *)
(* that quotas hold.                                                                              *)
EXTENDS Access, FiniteSetTheorems, FunctionTheorems, TLAPS

----------------------------------------------------------------------------
(* The inductive invariant *)

\* Nothing was asked, remembered or revoked in the future.
InThePast ==
    /\ \A t \in Tokens : revoked[t] # None => revoked[t] <= now
    /\ \A t \in Tokens : cache[t] # None => cache[t].at <= now
    /\ \A c \in Conns : conn[c].asked <= now
    /\ \A f \in Frames : frame[f].asked <= now

\* A frame came over a connection, and a connection presented a token.
Attached ==
    /\ \A c \in Conns : conn[c].state # "none" => conn[c].token \in Tokens
    /\ \A f \in Frames : frame[f].pc # "idle" =>
           frame[f].conn \in Conns /\ conn[frame[f].conn].state # "none"

\* The verdict a connection waits for is the one its first frame asked for, and those that came
\* meanwhile wait for.
Single(f) ==
    /\ frame[f].pc \in {"looking", "found", "answered"} /\ conn[frame[f].conn].state = "pending"
       => frame[f].first /\ frame[f].asked = conn[frame[f].conn].asked
    /\ frame[f].pc = "waiting" /\ conn[frame[f].conn].state = "pending"
       => frame[f].asked = conn[frame[f].conn].asked

OneVerdict == \A f \in Frames : Single(f)

Asked(f) == revoked[TokenOf(f)] # None => frame[f].asked < revoked[TokenOf(f)] + Recheck

\* What a frame was told, or waits to be told, was asked in time. A lookup finds nothing before it
\* reads; one that found the token read it, and was asked, before the token was revoked.
Prompt(f) ==
    /\ frame[f].pc = "looking" => ~frame[f].hit
    /\ frame[f].pc = "found" /\ frame[f].hit /\ revoked[TokenOf(f)] # None
       => frame[f].asked <= revoked[TokenOf(f)]
    /\ frame[f].pc = "answered" /\ frame[f].hit => Asked(f)
    /\ frame[f].pc = "waiting" /\ conn[frame[f].conn].state = "open" => Asked(f)

Remembered(t) ==
    /\ cache[t] # None /\ revoked[t] # None /\ cache[t].hit => cache[t].at <= revoked[t]
    /\ cache[t] # None /\ ~cache[t].hit => revoked[t] # None

InTime == /\ \A t \in Tokens : Remembered(t)
          /\ \A f \in Frames : Prompt(f)

\* A refusal that is on its way has its cause; what the store has read is its own.
Grounded(f) ==
    /\ frame[f].pc = "found" /\ ~frame[f].hit => revoked[TokenOf(f)] # None
    /\ frame[f].pc = "answered" /\ ~frame[f].hit =>
           frame[f].conn \in troubled \/ revoked[TokenOf(f)] # None

Caused == \A f \in Frames : Grounded(f)

Gate == InThePast /\ Attached /\ OneVerdict /\ InTime /\ Caused /\ RefusedForCause
GateInv == TypeOK /\ Gate

----------------------------------------------------------------------------
(* Types *)

\* The clock is a number that the bound allows.
LEMMA NowIsTime == ASSUME TypeOK PROVE now \in Nat /\ now \in Times /\ 0 \in Times
BY AccessAssumption DEF TypeOK, Times

\* What a log keeps of a window is a log.
LEMMA SinceTypes ==
    ASSUME NEW log \in [Times -> [other : Nat, write : Nat]], NEW start
    PROVE  Since(log, start) \in [Times -> [other : Nat, write : Nat]]
BY DEF Since

\* A log with one more call is a log.
LEMMA LoggedTypes ==
    ASSUME TypeOK, NEW log \in [Times -> [other : Nat, write : Nat]], NEW kind
    PROVE  Logged(log, kind) \in [Times -> [other : Nat, write : Nat]]
<1>1. now \in Times
  BY NowIsTime
<1>2. log[now].other + 1 \in Nat /\ log[now].write + 1 \in Nat
  BY <1>1
<1>3. [log EXCEPT ![now].write = @ + 1] \in [Times -> [other : Nat, write : Nat]]
  BY <1>1, <1>2
<1>4. [log EXCEPT ![now].other = @ + 1] \in [Times -> [other : Nat, write : Nat]]
  BY <1>1, <1>2
<1> QED
  BY <1>3, <1>4 DEF Logged

\* The empty log is one.
LEMMA NoCallsTypes == NoCalls \in [Times -> [other : Nat, write : Nat]]
BY DEF NoCalls

\* The types hold at the start.
LEMMA InitTypeOK == Init => TypeOK
<1> SUFFICES ASSUME Init PROVE TypeOK
  OBVIOUS
<1>1. 0 \in Times /\ 0 \in 0 .. MaxFailures /\ 0 \in 0 .. MaxFrames
  BY AccessAssumption DEF Times
<1>2. frame \in [Frames -> [pc : {"idle", "waiting", "looking", "found", "answered", "session"},
                            conn : Conns \cup {None}, first : BOOLEAN, asked : Times, hit : BOOLEAN]]
  BY <1>1 DEF Init, NoFrame
<1>3. conn \in [Conns -> [state : {"none", "pending", "open", "refused"},
                          token : Tokens \cup {None}, asked : Times]]
  BY <1>1 DEF Init
<1>4. /\ spent \in [Principals -> [Times -> [other : Nat, write : Nat]]]
      /\ ran \in [Principals -> [Times -> [other : Nat, write : Nat]]]
  BY NoCallsTypes DEF Init
<1> QED
  BY <1>1, <1>2, <1>3, <1>4 DEF Init, TypeOK

\* The sets of the variables that most steps change.
Rows == [pc : {"idle", "waiting", "looking", "found", "answered", "session"},
         conn : Conns \cup {None}, first : BOOLEAN, asked : Times, hit : BOOLEAN]
Ends == [state : {"none", "pending", "open", "refused"}, token : Tokens \cup {None}, asked : Times]

\* A frame of the right type may take any place.
LEMMA FrameTypes ==
    ASSUME TypeOK, NEW f \in Frames
    PROVE  /\ frame[f] \in Rows /\ NoFrame \in Rows
           /\ \A row \in Rows : [frame EXCEPT ![f] = row] \in [Frames -> Rows]
BY NowIsTime DEF TypeOK, Rows, NoFrame

\* A frame keeps its type when its program counter moves.
LEMMA BecomesTypes ==
    ASSUME TypeOK, NEW f \in Frames, NEW pc \in {"found", "answered"}, Becomes(f, pc)
    PROVE  frame' \in [Frames -> Rows]
BY DEF Becomes, TypeOK, Rows

\* So it does when it is let in.
LEMMA EntersTypes ==
    ASSUME TypeOK, NEW f \in Frames, Enters(f)
    PROVE  frame' \in [Frames -> Rows]
<1>1. [frame[f] EXCEPT !.pc = "session", !.asked = 0, !.hit = FALSE] \in Rows
  BY NowIsTime, FrameTypes DEF Rows
<1> QED
  BY <1>1, FrameTypes DEF Enters

\* A frame in use has a connection, and that one a token.
LEMMA OpenHasToken ==
    ASSUME Attached, NEW f \in Frames, frame[f].pc # "idle"
    PROVE  frame[f].conn \in Conns /\ TokenOf(f) \in Tokens
BY DEF Attached, TokenOf

\* A connection keeps its type when it is refused or admitted.
LEMMA EndTypes ==
    ASSUME TypeOK, NEW c \in Conns
    PROVE  /\ [conn EXCEPT ![c].state = "refused"] \in [Conns -> Ends]
           /\ \A s \in {"refused", "open"} :
                  [conn EXCEPT ![c] = [conn[c] EXCEPT !.state = s, !.asked = 0]] \in [Conns -> Ends]
<1>1. conn \in [Conns -> Ends] /\ conn[c] \in Ends
  BY DEF TypeOK, Ends
<1>2. [conn[c] EXCEPT !.state = "refused"] \in Ends
  BY <1>1 DEF Ends
<1>3. \A s \in {"refused", "open"} : [conn[c] EXCEPT !.state = s, !.asked = 0] \in Ends
  BY <1>1, NowIsTime DEF Ends
<1>4. [conn EXCEPT ![c].state = "refused"] = [conn EXCEPT ![c] = [conn[c] EXCEPT !.state = "refused"]]
  BY <1>1
<1> QED
  BY <1>1, <1>2, <1>3, <1>4

\* No step breaks the types. A connection without a token would: Attached is needed.
LEMMA TypeOKStep == TypeOK /\ Attached /\ [Next]_vars => TypeOK'
<1> SUFFICES ASSUME TypeOK, Attached, [Next]_vars PROVE TypeOK'
  OBVIOUS
<1>0. now \in Nat /\ now \in Times /\ 0 \in Times
  BY NowIsTime
<1>1. CASE Tick
  <2>1. now' \in Times
    BY <1>0, <1>1, AccessAssumption DEF Tick, Times
  <2> QED
    BY <1>1, <2>1 DEF Tick, TypeOK
<1>2. CASE Report
  <2>1. \A p \in Principals : Since(spent[p], now - ReportWindow) \in [Times -> [other : Nat, write : Nat]]
    BY SinceTypes DEF TypeOK
  <2>2. spent' \in [Principals -> [Times -> [other : Nat, write : Nat]]]
    BY <1>2, <2>1 DEF Report
  <2>3. ran' \in [Principals -> [Times -> [other : Nat, write : Nat]]]
    BY <1>2, NoCallsTypes DEF Report, TypeOK
  <2>4. forgot' \subseteq Principals
    BY <1>2 DEF Report, TypeOK
  <2> QED
    BY <1>2, <2>2, <2>3, <2>4 DEF Report, TypeOK
<1>3. ASSUME NEW t \in Tokens, Revoke(t) PROVE TypeOK'
  BY <1>0, <1>3 DEF Revoke, TypeOK
<1>4. ASSUME NEW f \in Frames, NEW c \in Conns, NEW t \in Tokens, Handshake(f, c, t) PROVE TypeOK'
  <2>1. conn' \in [Conns -> [state : {"none", "pending", "open", "refused"},
                             token : Tokens \cup {None}, asked : Times]]
    BY <1>0, <1>4 DEF Handshake, TypeOK
  <2>2. frame' \in [Frames -> Rows]
    BY <1>0, <1>4 DEF Handshake, Asks, Fresh, TypeOK, Rows
  <2> QED
    BY <1>4, <2>1, <2>2 DEF Handshake, TypeOK, Rows
<1>5. ASSUME NEW f \in Frames, NEW c \in Conns, Arrive(f, c) PROVE TypeOK'
  <2>1. frame' \in [Frames -> Rows]
    <3>1. CASE frame' = [frame EXCEPT ![f] = [NoFrame EXCEPT !.pc = "waiting", !.conn = c,
                                                             !.asked = conn[c].asked]]
      <4>1. [NoFrame EXCEPT !.pc = "waiting", !.conn = c, !.asked = conn[c].asked] \in Rows
        BY <1>0 DEF TypeOK, Rows, NoFrame
      <4> QED
        BY <3>1, <4>1, FrameTypes
    <3>2. CASE conn[c].state = "open" /\ Asks(f, c, conn[c].token, FALSE)
      <4>0. conn[c].token \in Tokens
        BY <1>5, <3>2 DEF Attached, Arrive, TypeOK
      <4>1. CASE Fresh(conn[c].token)
        <5>1. cache[conn[c].token].hit \in BOOLEAN
          BY <4>0, <4>1 DEF Fresh, TypeOK
        <5> QED
          BY <1>0, <3>2, <4>1, <5>1 DEF Asks, TypeOK, Rows
      <4>2. CASE ~Fresh(conn[c].token)
        BY <1>0, <3>2, <4>2 DEF Asks, TypeOK, Rows
      <4> QED
        BY <4>1, <4>2
    <3> QED
      BY <1>5, <3>1, <3>2 DEF Arrive
  <2>2. sent' \in 0 .. MaxFrames
    BY <1>5, AccessAssumption DEF Arrive, TypeOK
  <2> QED
    BY <1>5, <2>1, <2>2 DEF Arrive, TypeOK, Rows
<1>6. ASSUME NEW f \in Frames, Proceeds(f) PROVE TypeOK'
  <2>1. CASE Look(f)
    <3>1. [frame[f] EXCEPT !.pc = "found", !.hit = revoked[TokenOf(f)] = None] \in Rows
      BY FrameTypes DEF Rows
    <3>2. frame' = [frame EXCEPT ![f] = [frame[f] EXCEPT !.pc = "found",
                                                        !.hit = revoked[TokenOf(f)] = None]]
      BY <2>1 DEF Look, TypeOK
    <3> QED
      BY <2>1, <3>1, <3>2, FrameTypes DEF Look, TypeOK, Rows
  <2>2. CASE Fill(f)
    <3>1. cache' \in [Tokens -> [hit : BOOLEAN, at : Times] \cup {None}]
      BY <2>2 DEF Fill, Filled, TypeOK
    <3>2. /\ frame' \in [Frames -> Rows]
          /\ failures' \in 0 .. MaxFailures /\ troubled' \subseteq Conns
      <4>1. CASE Becomes(f, "answered") /\ UNCHANGED <<failures, troubled>>
        BY <4>1, BecomesTypes DEF TypeOK
      <4>2. CASE /\ failures < MaxFailures /\ failures' = failures + 1
                 /\ troubled' = troubled \cup {frame[f].conn}
                 /\ frame' = [frame EXCEPT ![f].pc = "answered", ![f].hit = FALSE]
        <5>1. [frame[f] EXCEPT !.pc = "answered", !.hit = FALSE] \in Rows
          BY FrameTypes DEF Rows
        <5>2. frame' = [frame EXCEPT ![f] = [frame[f] EXCEPT !.pc = "answered", !.hit = FALSE]]
          BY <4>2 DEF TypeOK
        <5>3. failures' \in 0 .. MaxFailures
          BY <4>2, AccessAssumption DEF TypeOK
        <5>4. frame[f].conn \in Conns
          BY <2>2 DEF Fill, Attached
        <5> QED
          BY <4>2, <5>1, <5>2, <5>3, <5>4, FrameTypes DEF TypeOK
      <4> QED
        BY <2>2, <4>1, <4>2 DEF Fill
    <3> QED
      BY <2>2, <3>1, <3>2 DEF Fill, TypeOK, Rows
  <2>3. CASE LookupFails(f)
    <3>1. failures' \in 0 .. MaxFailures
      BY <2>3, AccessAssumption DEF LookupFails, TypeOK
    <3>2. frame[f].conn \in Conns
      BY <2>3 DEF LookupFails, Attached
    <3>3. frame' \in [Frames -> Rows]
      BY <2>3, BecomesTypes DEF LookupFails
    <3> QED
      BY <2>3, <3>1, <3>2, <3>3 DEF LookupFails, NothingRemembered, TypeOK, Rows
  <2>4. CASE Admitted(f)
    <3>1. conn' \in [Conns -> Ends]
      BY <2>4, EndTypes DEF Admitted, Attached
    <3>2. frame' \in [Frames -> Rows]
      <4>1. CASE frame' = [frame EXCEPT ![f] = NoFrame]
        BY <4>1, FrameTypes
      <4>2. CASE Enters(f)
        BY <4>2, EntersTypes
      <4> QED
        BY <2>4, <4>1, <4>2 DEF Admitted
    <3> QED
      BY <2>4, <3>1, <3>2 DEF Admitted, TypeOK, Rows, Ends
  <2>5. CASE TurnedAway(f)
    <3>1. frame' \in [Frames -> Rows]
      BY <2>5, FrameTypes DEF TurnedAway
    <3>2. conn' \in [Conns -> Ends]
      BY <2>5, EndTypes DEF TurnedAway, Refused, Attached
    <3> QED
      BY <2>5, <3>1, <3>2 DEF TurnedAway, TypeOK, Rows, Ends
  <2>6. CASE VerdictIsIn(f)
    <3>1. frame' \in [Frames -> Rows]
      <4>1. CASE frame' = [frame EXCEPT ![f] = NoFrame]
        BY <4>1, FrameTypes
      <4>2. CASE Enters(f)
        BY <4>2, EntersTypes
      <4> QED
        BY <2>6, <4>1, <4>2 DEF VerdictIsIn
    <3> QED
      BY <2>6, <3>1 DEF VerdictIsIn, TypeOK, Rows
  <2>7. CASE Denied(f)
    BY <2>7, FrameTypes DEF Denied, Leaves, TypeOK, Rows
  <2>8. ASSUME NEW kind \in Capabilities, Consume(f, kind) PROVE TypeOK'
    <3> DEFINE p == PrincipalOf(f)
    <3>1. p \in Principals
      BY <2>8, OpenHasToken DEF Consume, PrincipalOf, Principals
    <3>2. Recent(p) \in [Times -> [other : Nat, write : Nat]]
      BY <3>1, SinceTypes DEF Recent, TypeOK
    <3>3. Logged(Recent(p), kind) \in [Times -> [other : Nat, write : Nat]]
      BY <3>2, LoggedTypes
    <3>4. Logged(ran[p], kind) \in [Times -> [other : Nat, write : Nat]]
      BY <3>1, LoggedTypes DEF TypeOK
    <3>5. frame' \in [Frames -> Rows]
      BY <2>8, FrameTypes DEF Consume, Leaves
    <3>6. /\ spent' \in [Principals -> [Times -> [other : Nat, write : Nat]]]
          /\ ran' \in [Principals -> [Times -> [other : Nat, write : Nat]]]
      <4> DEFINE log == [Times -> [other : Nat, write : Nat]]
      <4>1. spent \in [Principals -> log] /\ ran \in [Principals -> log]
        BY DEF TypeOK
      <4>2. /\ \/ spent' = [spent EXCEPT ![p] = Recent(p)]
               \/ spent' = [spent EXCEPT ![p] = Logged(Recent(p), kind)]
            /\ ran' = ran \/ ran' = [ran EXCEPT ![p] = Logged(ran[p], kind)]
        BY <2>8 DEF Consume
      <4>3. Recent(p) \in log /\ Logged(Recent(p), kind) \in log /\ Logged(ran[p], kind) \in log
        BY <3>2, <3>3, <3>4
      <4> HIDE DEF log, p
      <4>4. spent' \in [Principals -> log] /\ ran' \in [Principals -> log]
        BY <3>1, <4>1, <4>2, <4>3
      <4> QED
        BY <4>4 DEF log
    <3> QED
      BY <2>8, <3>5, <3>6 DEF Consume, TypeOK, Rows
  <2> QED
    BY <1>6, <2>1, <2>2, <2>3, <2>4, <2>5, <2>6, <2>7, <2>8 DEF Proceeds
<1> QED
  BY <1>1, <1>2, <1>3, <1>4, <1>5, <1>6 DEF Next, vars, TypeOK

----------------------------------------------------------------------------
(* The steps of the invariant *)

\* What is said of a frame stays true when it, its connection and the revocations stay.
LEMMA Unmoved ==
    ASSUME NEW f \in Frames, frame'[f] = frame[f],
           conn'[frame[f].conn] = conn[frame[f].conn],
           UNCHANGED revoked, troubled \subseteq troubled'
    PROVE  /\ Single(f) => Single(f)'
           /\ Prompt(f) => Prompt(f)'
           /\ Grounded(f) => Grounded(f)'
<1>1. TokenOf(f)' = TokenOf(f)
  BY DEF TokenOf
<1>2. Asked(f)' <=> Asked(f)
  BY <1>1 DEF Asked
<1> QED
  BY <1>1, <1>2 DEF Single, Prompt, Grounded

\* Time passes: what was in the past stays there.
LEMMA TickStep ==
    ASSUME GateInv, Tick
    PROVE  Gate'
<1>1. /\ now \in Nat /\ now' = now + 1
      /\ UNCHANGED <<revoked, cache, conn, frame, troubled>>
  BY NowIsTime DEF GateInv, Tick
<1>2. InThePast'
  BY <1>1 DEF GateInv, Gate, InThePast, TypeOK, Times
<1>3. Attached'
  BY <1>1 DEF GateInv, Gate, Attached
<1>4. \A f \in Frames : Single(f)' /\ Prompt(f)' /\ Grounded(f)'
  BY <1>1, Unmoved DEF GateInv, Gate, OneVerdict, InTime, Caused
<1>5. \A t \in Tokens : Remembered(t)'
  BY <1>1 DEF GateInv, Gate, InTime, Remembered
<1>6. RefusedForCause'
  BY <1>1 DEF GateInv, Gate, RefusedForCause
<1> QED
  BY <1>2, <1>3, <1>4, <1>5, <1>6 DEF Gate, OneVerdict, InTime, Caused

\* A token is revoked now: whatever was asked before is no later than that.
LEMMA RevokeStep ==
    ASSUME GateInv, NEW t \in Tokens, Revoke(t)
    PROVE  Gate'
<1>1. /\ revoked[t] = None /\ revoked' = [revoked EXCEPT ![t] = now]
      /\ UNCHANGED <<now, cache, conn, frame, troubled>>
      /\ now \in Nat
  BY NowIsTime DEF GateInv, Revoke
<1>2. InThePast'
  BY <1>1 DEF GateInv, Gate, InThePast, TypeOK
<1>3. Attached'
  BY <1>1 DEF GateInv, Gate, Attached
<1>4. now # None
  BY <1>1, AccessAssumption
<1>5. ASSUME NEW f \in Frames PROVE Single(f)' /\ Prompt(f)' /\ Grounded(f)'
  <2>1. TokenOf(f)' = TokenOf(f)
    BY <1>1 DEF TokenOf
  <2>2. frame[f].asked \in Nat /\ frame[f].asked <= now
    BY DEF GateInv, Gate, InThePast, TypeOK, Times
  <2>3. Asked(f) => Asked(f)'
    BY <1>1, <2>1, <2>2, AccessAssumption DEF Asked, GateInv, TypeOK
  <2>4. Single(f)'
    BY <1>1 DEF GateInv, Gate, OneVerdict, Single
  <2>5. Prompt(f)'
    BY <1>1, <2>1, <2>2, <2>3 DEF GateInv, Gate, InTime, Prompt, TypeOK
  <2>6. Grounded(f)'
    BY <1>1, <1>4, <2>1 DEF GateInv, Gate, Caused, Grounded, TypeOK
  <2> QED
    BY <2>4, <2>5, <2>6
<1>6. \A u \in Tokens : Remembered(u)'
  BY <1>1, <1>2, <1>4 DEF GateInv, Gate, InTime, InThePast, Remembered, TypeOK
<1>7. RefusedForCause'
  BY <1>1, <1>4 DEF GateInv, Gate, RefusedForCause, TypeOK
<1> QED
  BY <1>2, <1>3, <1>5, <1>6, <1>7 DEF Gate, OneVerdict, InTime, Caused

(* A step of one frame that leaves the connections alone, and revokes nothing. *)
LEMMA OneFrame ==
    ASSUME GateInv, NEW f \in Frames,
           UNCHANGED <<now, revoked, conn>>, troubled \subseteq troubled',
           \A g \in Frames \ {f} : frame'[g] = frame[g],
           UNCHANGED cache \/ \A t \in Tokens : Remembered(t)' /\ (cache'[t] # None => cache'[t].at <= now),
           frame'[f].asked <= now,
           frame'[f].pc # "idle" =>
               frame'[f].conn \in Conns /\ conn[frame'[f].conn].state # "none",
           Single(f)', Prompt(f)', Grounded(f)'
    PROVE  Gate'
<1>1. InThePast'
  BY DEF GateInv, Gate, InThePast
<1>2. Attached'
  BY DEF GateInv, Gate, Attached
<1>3. \A g \in Frames : Single(g)' /\ Prompt(g)' /\ Grounded(g)'
  BY Unmoved DEF GateInv, Gate, OneVerdict, InTime, Caused
<1>4. \A t \in Tokens : Remembered(t)'
  BY DEF GateInv, Gate, InTime, Remembered
<1>5. RefusedForCause'
  BY DEF GateInv, Gate, RefusedForCause
<1> QED
  BY <1>1, <1>2, <1>3, <1>4, <1>5 DEF Gate, OneVerdict, InTime, Caused

\* A frame that is dropped claims nothing.
LEMMA FrameEnds ==
    ASSUME GateInv, NEW f \in Frames, frame' = [frame EXCEPT ![f] = NoFrame],
           UNCHANGED <<now, revoked, cache, conn, troubled>>
    PROVE  Gate'
<1>1. frame'[f] = NoFrame /\ \A g \in Frames \ {f} : frame'[g] = frame[g]
  BY DEF GateInv, TypeOK
<1>2. 0 <= now
  BY NowIsTime DEF GateInv
<1>3. Single(f)' /\ Prompt(f)' /\ Grounded(f)'
  BY <1>1 DEF NoFrame, Single, Prompt, Grounded
<1> QED
  BY <1>1, <1>2, <1>3, OneFrame DEF NoFrame

\* A frame that was let in has used its verdict.
LEMMA FrameEnters ==
    ASSUME GateInv, NEW f \in Frames, frame[f].pc # "idle", Enters(f),
           UNCHANGED <<now, revoked, cache, conn, troubled>>
    PROVE  Gate'
<1>0. frame[f] \in Rows
  BY FrameTypes DEF GateInv
<1>1. /\ frame'[f] = [frame[f] EXCEPT !.pc = "session", !.asked = 0, !.hit = FALSE]
      /\ \A g \in Frames \ {f} : frame'[g] = frame[g]
  BY DEF GateInv, TypeOK, Enters
<1>2. frame'[f].pc = "session" /\ frame'[f].conn = frame[f].conn /\ frame'[f].asked = 0
  BY <1>0, <1>1 DEF Rows
<1>3. 0 <= now
  BY NowIsTime DEF GateInv
<1>4. Single(f)' /\ Prompt(f)' /\ Grounded(f)'
  BY <1>2 DEF Single, Prompt, Grounded
<1> QED
  BY <1>1, <1>2, <1>3, <1>4, OneFrame DEF GateInv, Gate, Attached

\* A token that is found has not been revoked yet.
LEMMA LookStep ==
    ASSUME GateInv, NEW f \in Frames, Look(f)
    PROVE  Gate'
<1>1. /\ frame'[f].pc = "found" /\ (frame'[f].hit <=> revoked[TokenOf(f)] = None)
      /\ frame'[f].conn = frame[f].conn /\ frame'[f].first = frame[f].first
      /\ frame'[f].asked = frame[f].asked
      /\ \A g \in Frames \ {f} : frame'[g] = frame[g]
  BY DEF Look, GateInv, TypeOK
<1>2. frame[f].pc = "looking" /\ UNCHANGED <<now, revoked, cache, conn, troubled>>
  BY DEF Look
<1>3. TokenOf(f)' = TokenOf(f)
  BY <1>1, <1>2 DEF TokenOf
<1>4. Single(f)'
  BY <1>1, <1>2 DEF GateInv, Gate, OneVerdict, Single
<1>5. Prompt(f)'
  BY <1>1, <1>2, <1>3 DEF Prompt
<1>6. Grounded(f)'
  BY <1>1, <1>2, <1>3 DEF Grounded
<1> QED
  BY <1>1, <1>2, <1>4, <1>5, <1>6, OneFrame DEF GateInv, Gate, InThePast, Attached

\* A lookup that fails refuses, and is the cause.
LEMMA LookupFailsStep ==
    ASSUME GateInv, NEW f \in Frames, LookupFails(f)
    PROVE  Gate'
<1>1. /\ frame'[f].pc = "answered" /\ frame'[f].hit = frame[f].hit
      /\ frame'[f].conn = frame[f].conn /\ frame'[f].first = frame[f].first
      /\ frame'[f].asked = frame[f].asked
      /\ \A g \in Frames \ {f} : frame'[g] = frame[g]
  BY DEF LookupFails, Becomes, GateInv, TypeOK
<1>2. /\ frame[f].pc = "looking" /\ troubled' = troubled \cup {frame[f].conn}
      /\ UNCHANGED <<now, revoked, cache, conn>>
  BY DEF LookupFails, NothingRemembered
<1>3. ~frame'[f].hit
  BY <1>1, <1>2 DEF GateInv, Gate, InTime, Prompt
<1>4. Single(f)'
  BY <1>1, <1>2 DEF GateInv, Gate, OneVerdict, Single
<1>5. Prompt(f)'
  BY <1>1, <1>3 DEF Prompt
<1>6. Grounded(f)'
  BY <1>1, <1>2 DEF Grounded
<1> QED
  BY <1>1, <1>2, <1>4, <1>5, <1>6, OneFrame DEF GateInv, Gate, InThePast, Attached

\* What was remembered and not touched is as good as it was.
LEMMA StillRemembered ==
    ASSUME NEW u \in Tokens, cache'[u] = cache[u], revoked'[u] = revoked[u], Remembered(u)
    PROVE  Remembered(u)'
BY DEF Remembered

\* What an entry must be to be remembered.
LEMMA RememberedNow ==
    ASSUME NEW u \in Tokens, revoked'[u] = revoked[u],
           cache'[u].hit /\ revoked[u] # None => cache'[u].at <= revoked[u],
           ~cache'[u].hit => revoked[u] # None
    PROVE  Remembered(u)'
BY DEF Remembered

\* The cache takes what the store said, at the time it was asked.
LEMMA FillStep ==
    ASSUME GateInv, NEW f \in Frames, Fill(f)
    PROVE  Gate'
<1>0. /\ frame[f] \in Rows /\ frame[f].pc = "found" /\ TokenOf(f) \in Tokens /\ frame[f].conn \in Conns
      /\ UNCHANGED <<now, revoked, conn>>
  BY FrameTypes, OpenHasToken DEF GateInv, Gate, Fill
<1> SUFFICES ASSUME NEW t \in Tokens, t = TokenOf(f) PROVE Gate'
  BY <1>0
<1>1. cache' = [cache EXCEPT ![t] = [hit |-> frame[f].hit, at |-> frame[f].asked]]
  BY DEF Fill, Filled
<1>2. /\ frame'[f].pc = "answered" /\ frame'[f].conn = frame[f].conn
      /\ frame'[f].first = frame[f].first /\ frame'[f].asked = frame[f].asked
      /\ \A g \in Frames \ {f} : frame'[g] = frame[g]
      /\ \/ (frame'[f].hit <=> frame[f].hit) /\ troubled' = troubled
         \/ ~frame'[f].hit /\ troubled' = troubled \cup {frame[f].conn}
  <2>1. CASE Becomes(f, "answered") /\ UNCHANGED <<failures, troubled>>
    <3>1. /\ frame'[f] = [frame[f] EXCEPT !.pc = "answered"]
          /\ \A g \in Frames \ {f} : frame'[g] = frame[g]
      BY <2>1 DEF Becomes, GateInv, TypeOK
    <3>2. /\ frame'[f].pc = "answered" /\ frame'[f].conn = frame[f].conn
          /\ frame'[f].first = frame[f].first /\ frame'[f].asked = frame[f].asked
          /\ frame'[f].hit = frame[f].hit
      BY <1>0, <3>1 DEF Rows
    <3> QED
      BY <2>1, <3>1, <3>2
  <2>2. CASE /\ troubled' = troubled \cup {frame[f].conn}
             /\ frame' = [frame EXCEPT ![f].pc = "answered", ![f].hit = FALSE]
    <3>1. /\ frame'[f] = [frame[f] EXCEPT !.pc = "answered", !.hit = FALSE]
          /\ \A g \in Frames \ {f} : frame'[g] = frame[g]
      BY <2>2 DEF GateInv, TypeOK
    <3>2. /\ frame'[f].pc = "answered" /\ frame'[f].conn = frame[f].conn
          /\ frame'[f].first = frame[f].first /\ frame'[f].asked = frame[f].asked
          /\ ~frame'[f].hit
      BY <1>0, <3>1 DEF Rows
    <3> QED
      BY <2>2, <3>1, <3>2
  <2> QED
    BY <2>1, <2>2 DEF Fill
<1>3. /\ frame[f].hit /\ revoked[t] # None => frame[f].asked <= revoked[t]
      /\ ~frame[f].hit => revoked[t] # None
      /\ frame[f].asked <= now
  BY <1>0 DEF GateInv, Gate, InTime, Caused, Prompt, Grounded, InThePast
<1>4. TokenOf(f)' = t
  BY <1>0, <1>2 DEF TokenOf
<1>5. \A u \in Tokens : Remembered(u)' /\ (cache'[u] # None => cache'[u].at <= now)
  <2>1. /\ cache'[t] = [hit |-> frame[f].hit, at |-> frame[f].asked]
        /\ \A u \in Tokens \ {t} : cache'[u] = cache[u]
    BY <1>0, <1>1 DEF GateInv, TypeOK
  <2>2. (cache'[t].hit <=> frame[f].hit) /\ cache'[t].at = frame[f].asked
    BY <2>1
  <2>3. Remembered(t)' /\ cache'[t].at <= now
    BY <1>0, <1>3, <2>2, RememberedNow
  <2>4. ASSUME NEW u \in Tokens \ {t}
        PROVE  Remembered(u)' /\ (cache'[u] # None => cache'[u].at <= now)
    <3>1. cache'[u] = cache[u] /\ revoked'[u] = revoked[u]
      BY <1>0, <2>1
    <3>2. Remembered(u) /\ (cache[u] # None => cache[u].at <= now)
      BY DEF GateInv, Gate, InTime, InThePast
    <3> QED
      BY <3>1, <3>2, StillRemembered
  <2> QED
    BY <2>3, <2>4
<1>6. Single(f)'
  BY <1>0, <1>2 DEF GateInv, Gate, OneVerdict, Single
<1>7. Prompt(f)'
  <2>1. frame'[f].hit => Asked(f)'
    <3>1. revoked[t] \in Nat \cup {None} /\ frame[f].asked \in Nat
      BY <1>0 DEF GateInv, TypeOK, Rows, Times
    <3> QED
      BY <1>0, <1>2, <1>3, <1>4, <3>1, AccessAssumption DEF Asked
  <2> QED
    BY <1>2, <2>1 DEF Prompt
<1>8. Grounded(f)'
  BY <1>0, <1>2, <1>3, <1>4 DEF Grounded
<1> QED
  BY <1>0, <1>2, <1>3, <1>5, <1>6, <1>7, <1>8, OneFrame DEF GateInv, Gate, Attached

\* What connection c is changes; whom it belongs to does not.
LEMMA OneConnection ==
    ASSUME GateInv, NEW c \in Conns, UNCHANGED <<now, revoked, cache, troubled>>,
           conn' \in [Conns -> Ends],
           \A d \in Conns \ {c} : conn'[d] = conn[d],
           conn[c].state # "none", conn'[c].token = conn[c].token,
           conn'[c].state \in {"open", "refused"},
           conn'[c].asked <= now,
           conn'[c].state = "refused" => c \in troubled \/ revoked[conn[c].token] # None,
           NEW f \in Frames, frame[f].pc # "idle",
           \A g \in Frames \ {f} : frame'[g] = frame[g],
           frame'[f] = NoFrame \/ Enters(f),
           \A g \in Frames : frame[g].conn = c /\ frame[g].pc = "waiting" /\ conn'[c].state = "open"
                             => Asked(g)
    PROVE  Gate'
<1>1. ASSUME NEW g \in Frames, frame'[g] = frame[g]
      PROVE  Single(g)' /\ Prompt(g)' /\ Grounded(g)'
  <2>1. CASE frame[g].conn # c /\ frame[g].conn \in Conns
    BY <1>1, <2>1, Unmoved DEF GateInv, Gate, OneVerdict, InTime, Caused
  <2>2. CASE frame[g].conn \notin Conns
    <3>1. frame[g].pc = "idle"
      BY <2>2 DEF GateInv, Gate, Attached
    <3> QED
      BY <1>1, <3>1 DEF Single, Prompt, Grounded
  <2>3. CASE frame[g].conn = c
    <3>1. TokenOf(g)' = TokenOf(g)
      BY <1>1, <2>3 DEF TokenOf
    <3>2. Asked(g)' <=> Asked(g)
      BY <1>1, <3>1 DEF Asked
    <3> QED
      BY <1>1, <2>3, <3>1, <3>2 DEF Single, Prompt, Grounded, GateInv, Gate, InTime, Caused
  <2> QED
    BY <2>1, <2>2, <2>3
<1>2. /\ frame'[f].pc \in {"idle", "session"} /\ frame'[f].asked = 0
      /\ frame'[f].pc = "session" => frame'[f].conn = frame[f].conn
  <2>1. CASE frame'[f] = NoFrame
    BY <2>1 DEF NoFrame
  <2>2. CASE Enters(f)
    <3>1. frame[f] \in Rows
      BY FrameTypes DEF GateInv
    <3>2. frame'[f] = [frame[f] EXCEPT !.pc = "session", !.asked = 0, !.hit = FALSE]
      BY <2>2 DEF Enters, GateInv, TypeOK
    <3> QED
      BY <3>1, <3>2 DEF Rows
  <2> QED
    BY <2>1, <2>2
<1>3. Single(f)' /\ Prompt(f)' /\ Grounded(f)'
  BY <1>2 DEF Single, Prompt, Grounded
<1>4. InThePast'
  <2>1. now \in Nat
    BY NowIsTime DEF GateInv
  <2>2. /\ \A t \in Tokens : revoked[t] # None => revoked[t] <= now
        /\ \A t \in Tokens : cache[t] # None => cache[t].at <= now
        /\ \A d \in Conns : conn[d].asked <= now
        /\ \A g \in Frames : frame[g].asked <= now
    BY DEF GateInv, Gate, InThePast
  <2>3. \A d \in Conns : conn'[d].asked <= now
    BY <2>2
  <2>4. \A g \in Frames : frame'[g].asked <= now
    BY <1>2, <2>1, <2>2
  <2>5. \A t \in Tokens : revoked'[t] # None => revoked'[t] <= now
    BY <2>2
  <2>6. \A t \in Tokens : cache'[t] # None => cache'[t].at <= now
    BY <2>2
  <2> QED
    BY <2>3, <2>4, <2>5, <2>6 DEF InThePast
<1>5. Attached'
  <2>1. \A d \in Conns : conn'[d].state # "none" => conn'[d].token \in Tokens
    BY DEF GateInv, Gate, Attached
  <2>2. \A g \in Frames : frame'[g].pc # "idle" =>
            frame'[g].conn \in Conns /\ conn[frame'[g].conn].state # "none"
    BY <1>2 DEF GateInv, Gate, Attached
  <2>3. \A d \in Conns : conn[d].state # "none" => conn'[d].state # "none"
    OBVIOUS
  <2> QED
    BY <2>1, <2>2, <2>3 DEF Attached
<1>6. RefusedForCause'
  BY DEF GateInv, Gate, RefusedForCause
<1>7. \A t \in Tokens : Remembered(t)'
  BY DEF GateInv, Gate, InTime, Remembered
<1> QED
  BY <1>1, <1>3, <1>4, <1>5, <1>6, <1>7 DEF Gate, OneVerdict, InTime, Caused

\* A verdict from memory was asked for within the window, and has its cause.
LEMMA AskedRow ==
    ASSUME GateInv, NEW f \in Frames, NEW c, NEW t \in Tokens, NEW first, Asks(f, c, t, first)
    PROVE  /\ \A g \in Frames \ {f} : frame'[g] = frame[g]
           /\ frame'[f].conn = c /\ frame'[f].first = first /\ frame'[f].asked = now
           /\ frame'[f].pc \in {"looking", "answered"}
           /\ frame'[f].pc = "looking" => ~frame'[f].hit
           /\ frame'[f].pc = "answered" /\ frame'[f].hit /\ revoked[t] # None
              => now < revoked[t] + Recheck
           /\ frame'[f].pc = "answered" /\ ~frame'[f].hit => revoked[t] # None
<1> DEFINE row == [pc |-> "answered", conn |-> c, first |-> first, asked |-> now, hit |-> FALSE]
<1>1. CASE Fresh(t)
  <2>1. frame' = [frame EXCEPT ![f] = [row EXCEPT !.hit = cache[t].hit]]
    BY <1>1 DEF Asks
  <2>2. /\ frame'[f] = [row EXCEPT !.hit = cache[t].hit]
        /\ \A g \in Frames \ {f} : frame'[g] = frame[g]
    BY <2>1 DEF GateInv, TypeOK
  <2>3. /\ frame'[f].conn = c /\ frame'[f].first = first /\ frame'[f].asked = now
        /\ frame'[f].pc = "answered" /\ frame'[f].hit = cache[t].hit
    BY <2>2
  <2>4. cache[t] # None /\ now - cache[t].at < Recheck
    BY <1>1 DEF Fresh
  <2>5. /\ cache[t].hit /\ revoked[t] # None => cache[t].at <= revoked[t]
        /\ ~cache[t].hit => revoked[t] # None
    BY <2>4 DEF GateInv, Gate, InTime, Remembered
  <2>6. cache[t].at \in Nat /\ revoked[t] \in Nat \cup {None} /\ now \in Nat /\ Recheck \in Nat
    BY <2>4, AccessAssumption DEF GateInv, TypeOK, Times
  <2>7. cache[t].hit /\ revoked[t] # None => now < revoked[t] + Recheck
    BY <2>4, <2>5, <2>6
  <2> HIDE DEF row
  <2> QED
    BY <2>2, <2>3, <2>5, <2>7
<1>2. CASE ~Fresh(t)
  <2>1. frame' = [frame EXCEPT ![f] = [row EXCEPT !.pc = "looking"]]
    BY <1>2 DEF Asks
  <2>2. /\ frame'[f] = [row EXCEPT !.pc = "looking"]
        /\ \A g \in Frames \ {f} : frame'[g] = frame[g]
    BY <2>1 DEF GateInv, TypeOK
  <2>3. /\ frame'[f].conn = c /\ frame'[f].first = first /\ frame'[f].asked = now
        /\ frame'[f].pc = "looking" /\ ~frame'[f].hit
    BY <2>2
  <2> QED
    BY <2>2, <2>3
<1> QED
  BY <1>1, <1>2

\* A connection that is made has no other frames, and waits for the verdict of this one.
LEMMA HandshakeStep ==
    ASSUME GateInv, NEW f \in Frames, NEW c \in Conns, NEW t \in Tokens, Handshake(f, c, t)
    PROVE  Gate'
<1>1. /\ conn[c].state = "none" /\ UNCHANGED <<now, revoked, cache, troubled>>
      /\ conn'[c].state = "pending" /\ conn'[c].token = t /\ conn'[c].asked = now
      /\ \A d \in Conns \ {c} : conn'[d] = conn[d]
  BY DEF Handshake, GateInv, TypeOK
<1>2. /\ \A g \in Frames \ {f} : frame'[g] = frame[g]
      /\ frame'[f].conn = c /\ frame'[f].first = TRUE /\ frame'[f].asked = now
      /\ frame'[f].pc \in {"looking", "answered"}
      /\ frame'[f].pc = "looking" => ~frame'[f].hit
      /\ frame'[f].pc = "answered" /\ frame'[f].hit /\ revoked[t] # None
         => now < revoked[t] + Recheck
      /\ frame'[f].pc = "answered" /\ ~frame'[f].hit => revoked[t] # None
  BY AskedRow DEF Handshake
<1>3. ASSUME NEW g \in Frames \ {f} PROVE Single(g)' /\ Prompt(g)' /\ Grounded(g)'
  <2>1. CASE frame[g].pc = "idle"
    BY <1>2, <2>1 DEF Single, Prompt, Grounded
  <2>2. CASE frame[g].pc # "idle"
    <3>1. frame[g].conn \in Conns \ {c}
      BY <1>1, <2>2 DEF GateInv, Gate, Attached
    <3>2. frame'[g] = frame[g] /\ conn'[frame[g].conn] = conn[frame[g].conn]
      BY <1>1, <1>2, <3>1
    <3>3. Single(g) /\ Prompt(g) /\ Grounded(g)
      BY DEF GateInv, Gate, OneVerdict, InTime, Caused
    <3> QED
      BY <1>1, <3>2, <3>3, Unmoved
  <2> QED
    BY <2>1, <2>2
<1>4. TokenOf(f)' = t
  BY <1>1, <1>2 DEF TokenOf
<1>5. Single(f)' /\ Prompt(f)' /\ Grounded(f)'
  BY <1>1, <1>2, <1>4 DEF Single, Prompt, Asked, Grounded
<1>6. InThePast'
  <2>1. now \in Nat
    BY NowIsTime DEF GateInv
  <2>2. /\ \A u \in Tokens : revoked'[u] # None => revoked'[u] <= now
        /\ \A u \in Tokens : cache'[u] # None => cache'[u].at <= now
    BY <1>1 DEF GateInv, Gate, InThePast
  <2>3. \A d \in Conns : conn'[d].asked <= now
    BY <1>1, <2>1 DEF GateInv, Gate, InThePast
  <2>4. \A g \in Frames : frame'[g].asked <= now
    BY <1>2, <2>1 DEF GateInv, Gate, InThePast
  <2> QED
    BY <1>1, <2>2, <2>3, <2>4 DEF InThePast
<1>7. Attached'
  <2>1. \A d \in Conns : conn'[d].state # "none" => conn'[d].token \in Tokens
    BY <1>1 DEF GateInv, Gate, Attached
  <2>2. ASSUME NEW g \in Frames, frame'[g].pc # "idle"
        PROVE  frame'[g].conn \in Conns /\ conn'[frame'[g].conn].state # "none"
    BY <1>1, <1>2, <2>2 DEF GateInv, Gate, Attached
  <2> QED
    BY <2>1, <2>2 DEF Attached
<1>8. RefusedForCause'
  BY <1>1 DEF GateInv, Gate, RefusedForCause
<1>9. \A u \in Tokens : Remembered(u)'
  BY <1>1 DEF GateInv, Gate, InTime, Remembered
<1> QED
  BY <1>3, <1>5, <1>6, <1>7, <1>8, <1>9 DEF Gate, OneVerdict, InTime, Caused

\* A frame waits for the verdict of its connection, or asks for its own.
LEMMA ArriveStep ==
    ASSUME GateInv, NEW f \in Frames, NEW c \in Conns, Arrive(f, c)
    PROVE  Gate'
<1>0. UNCHANGED <<now, revoked, cache, conn, troubled>>
  BY DEF Arrive
<1>1. CASE conn[c].state = "pending"
  <2>1. frame' = [frame EXCEPT ![f] = [NoFrame EXCEPT !.pc = "waiting", !.conn = c,
                                                      !.asked = conn[c].asked]]
    BY <1>1 DEF Arrive
  <2>2. /\ frame'[f] = [NoFrame EXCEPT !.pc = "waiting", !.conn = c, !.asked = conn[c].asked]
        /\ \A g \in Frames \ {f} : frame'[g] = frame[g]
    BY <2>1 DEF GateInv, TypeOK
  <2>3. frame'[f].pc = "waiting" /\ frame'[f].conn = c /\ frame'[f].asked = conn[c].asked
    BY <2>2 DEF NoFrame
  <2>4. Single(f)' /\ Prompt(f)' /\ Grounded(f)'
    BY <1>0, <1>1, <2>3 DEF Single, Prompt, Grounded
  <2>5. frame'[f].asked <= now
    BY <2>3 DEF GateInv, Gate, InThePast
  <2> QED
    BY <1>0, <1>1, <2>2, <2>3, <2>4, <2>5, OneFrame
<1>2. CASE conn[c].state = "open" /\ Asks(f, c, conn[c].token, FALSE)
  <2> SUFFICES ASSUME NEW t \in Tokens, t = conn[c].token PROVE Gate'
    BY <1>2 DEF GateInv, Gate, Attached
  <2>0. Asks(f, c, t, FALSE)
    BY <1>2
  <2>1. /\ \A g \in Frames \ {f} : frame'[g] = frame[g]
        /\ frame'[f].conn = c /\ frame'[f].first = FALSE /\ frame'[f].asked = now
        /\ frame'[f].pc \in {"looking", "answered"}
        /\ frame'[f].pc = "looking" => ~frame'[f].hit
        /\ frame'[f].pc = "answered" /\ frame'[f].hit /\ revoked[t] # None
           => now < revoked[t] + Recheck
        /\ frame'[f].pc = "answered" /\ ~frame'[f].hit => revoked[t] # None
    BY <2>0, AskedRow
  <2>2. TokenOf(f)' = t
    BY <1>0, <2>1 DEF TokenOf
  <2>3. Single(f)' /\ Prompt(f)' /\ Grounded(f)'
    BY <1>0, <1>2, <2>1, <2>2 DEF Single, Prompt, Asked, Grounded
  <2>4. now <= now
    BY NowIsTime DEF GateInv
  <2> QED
    BY <1>0, <1>2, <2>1, <2>3, <2>4, OneFrame
<1> QED
  BY <1>1, <1>2 DEF Arrive

\* The connection opens on a verdict asked in time, and those who wait for it share it.
LEMMA AdmittedStep ==
    ASSUME GateInv, NEW f \in Frames, Admitted(f)
    PROVE  Gate'
<1>0. frame[f].pc = "answered" /\ frame[f].hit /\ UNCHANGED <<now, revoked, cache, troubled>>
  BY DEF Admitted
<1>1. frame[f].conn \in Conns /\ conn[frame[f].conn].state # "none"
  BY <1>0 DEF GateInv, Gate, Attached
<1> SUFFICES ASSUME NEW c \in Conns, c = frame[f].conn PROVE Gate'
  BY <1>1
<1> DEFINE s == IF conn[c].state = "refused" THEN "refused" ELSE "open"
<1>2. conn' = [conn EXCEPT ![c] = [conn[c] EXCEPT !.state = s, !.asked = 0]]
  BY DEF Admitted
<1>3. conn' \in [Conns -> Ends]
  <2>1. conn \in [Conns -> Ends] /\ 0 \in Times /\ s \in {"refused", "open"}
    BY NowIsTime DEF GateInv, TypeOK, Ends
  <2> HIDE DEF s
  <2>2. PICK e : e = [conn[c] EXCEPT !.state = s, !.asked = 0]
    OBVIOUS
  <2>3. e \in Ends
    BY <2>1, <2>2 DEF Ends
  <2>4. conn' = [conn EXCEPT ![c] = e]
    BY <1>2, <2>2
  <2> QED
    BY <2>1, <2>3, <2>4
<1>4. conn'[c] = [conn[c] EXCEPT !.state = s, !.asked = 0] /\ \A d \in Conns \ {c} : conn'[d] = conn[d]
  BY <1>2 DEF GateInv, TypeOK
<1>5. /\ conn'[c].state = s /\ conn'[c].token = conn[c].token /\ conn'[c].asked = 0
  <2>1. conn[c] \in Ends
    BY DEF GateInv, TypeOK, Ends
  <2> HIDE DEF s
  <2> QED
    BY <1>4, <2>1 DEF Ends
<1>6. 0 <= now
  BY NowIsTime DEF GateInv
<1>7. conn'[c].state = "refused" => c \in troubled \/ revoked[conn[c].token] # None
  BY <1>5 DEF GateInv, Gate, RefusedForCause
<1>8. \A g \in Frames \ {f} : frame'[g] = frame[g]
  BY DEF Admitted, Enters, GateInv, TypeOK
<1>9. frame'[f] = NoFrame \/ Enters(f)
  BY DEF Admitted, GateInv, TypeOK
<1>10. ASSUME NEW g \in Frames, frame[g].conn = c, frame[g].pc = "waiting", conn'[c].state = "open"
       PROVE  Asked(g)
  <2>1. Asked(f) /\ Single(f) /\ Prompt(g) /\ Single(g)
    BY <1>0 DEF GateInv, Gate, InTime, OneVerdict, Prompt
  <2>2. CASE conn[c].state = "open"
    BY <1>10, <2>1, <2>2 DEF Prompt
  <2>3. CASE conn[c].state = "pending"
    <3>1. frame[g].asked = frame[f].asked /\ TokenOf(g) = TokenOf(f)
      BY <1>0, <1>10, <2>1, <2>3 DEF Single, TokenOf
    <3> QED
      BY <2>1, <3>1 DEF Asked
  <2>4. conn[c].state \in {"open", "pending"}
    BY <1>1, <1>5, <1>10 DEF GateInv, TypeOK
  <2> QED
    BY <2>2, <2>3, <2>4
<1>11. conn'[c].state \in {"open", "refused"} /\ conn'[c].asked <= now
  BY <1>5, <1>6
<1>12. frame[f].pc # "idle" /\ conn[c].state # "none"
  BY <1>0, <1>1
<1>13. conn'[c].token = conn[c].token /\ \A d \in Conns \ {c} : conn'[d] = conn[d]
  BY <1>4, <1>5
<1>14. \A g \in Frames : frame[g].conn = c /\ frame[g].pc = "waiting" /\ conn'[c].state = "open"
                         => Asked(g)
  BY <1>10
<1> QED
  BY <1>0, <1>3, <1>7, <1>8, <1>9, <1>11, <1>12, <1>13, <1>14, OneConnection

\* The connection is refused for the cause of the frame that was.
LEMMA TurnedAwayStep ==
    ASSUME GateInv, NEW f \in Frames, TurnedAway(f)
    PROVE  Gate'
<1>0. frame[f].pc = "answered" /\ ~frame[f].hit /\ UNCHANGED <<now, revoked, cache, troubled>>
  BY DEF TurnedAway
<1>1. frame[f].conn \in Conns /\ conn[frame[f].conn].state # "none"
  BY <1>0 DEF GateInv, Gate, Attached
<1> SUFFICES ASSUME NEW c \in Conns, c = frame[f].conn PROVE Gate'
  BY <1>1
<1>2. conn' = [conn EXCEPT ![c].state = "refused"]
  BY DEF TurnedAway, Refused
<1>3. conn' \in [Conns -> Ends]
  <2>1. conn \in [Conns -> Ends]
    BY DEF GateInv, TypeOK, Ends
  <2>2. PICK e : e = [conn[c] EXCEPT !.state = "refused"]
    OBVIOUS
  <2>3. e \in Ends
    BY <2>1, <2>2 DEF Ends
  <2>4. conn' = [conn EXCEPT ![c] = e]
    BY <1>2, <2>2
  <2> QED
    BY <2>1, <2>3, <2>4
<1>4. /\ \A d \in Conns \ {c} : conn'[d] = conn[d]
      /\ conn'[c].state = "refused" /\ conn'[c].token = conn[c].token
      /\ conn'[c].asked = conn[c].asked
  BY <1>2 DEF GateInv, TypeOK
<1>5. c \in troubled \/ revoked[conn[c].token] # None
  BY <1>0 DEF GateInv, Gate, Caused, Grounded, TokenOf
<1>6. conn'[c].asked <= now
  BY <1>4 DEF GateInv, Gate, InThePast
<1>7. frame'[f] = NoFrame /\ \A g \in Frames \ {f} : frame'[g] = frame[g]
  BY DEF TurnedAway, GateInv, TypeOK
<1>8. frame[f].pc # "idle" /\ conn[c].state # "none" /\ conn'[c].state \in {"open", "refused"}
  BY <1>0, <1>1, <1>4
<1>9. \A g \in Frames : frame[g].conn = c /\ frame[g].pc = "waiting" /\ conn'[c].state = "open"
                        => Asked(g)
  BY <1>4
<1> QED
  BY <1>0, <1>3, <1>4, <1>5, <1>6, <1>7, <1>8, <1>9, OneConnection

\* The usage report touches the ledger only.
LEMMA ReportStep ==
    ASSUME GateInv, Report
    PROVE  Gate'
<1>1. UNCHANGED <<now, revoked, cache, conn, frame, troubled>>
  BY DEF Report
<1>2. \A f \in Frames : Single(f)' /\ Prompt(f)' /\ Grounded(f)'
  BY <1>1, Unmoved DEF GateInv, Gate, OneVerdict, InTime, Caused
<1>3. InThePast' /\ Attached' /\ RefusedForCause'
  BY <1>1 DEF GateInv, Gate, InThePast, Attached, RefusedForCause
<1>4. \A t \in Tokens : Remembered(t)'
  BY <1>1 DEF GateInv, Gate, InTime, Remembered
<1> QED
  BY <1>2, <1>3, <1>4 DEF Gate, OneVerdict, InTime, Caused

\* Nothing has happened at the start.
LEMMA InitGate == Init => GateInv
<1> SUFFICES ASSUME Init PROVE GateInv
  OBVIOUS
<1>1. /\ now = 0
      /\ \A t \in Tokens : revoked[t] = None /\ cache[t] = None
      /\ \A c \in Conns : conn[c].state = "none" /\ conn[c].asked = 0
      /\ \A f \in Frames : frame[f].pc = "idle" /\ frame[f].asked = 0
  BY DEF Init, NoFrame
<1>2. InThePast /\ Attached /\ RefusedForCause
  BY <1>1 DEF InThePast, Attached, RefusedForCause
<1>3. \A f \in Frames : Single(f) /\ Prompt(f) /\ Grounded(f)
  BY <1>1 DEF Single, Prompt, Grounded
<1>4. ASSUME NEW t \in Tokens PROVE Remembered(t)
  <2>1. cache[t] = None
    BY <1>1
  <2> QED
    BY <2>1 DEF Remembered
<1> QED
  BY <1>2, <1>3, <1>4, InitTypeOK DEF GateInv, Gate, OneVerdict, InTime, Caused

\* Every step keeps the invariant.
LEMMA GateInvStep == GateInv /\ [Next]_vars => GateInv'
<1> SUFFICES ASSUME GateInv, [Next]_vars PROVE GateInv'
  OBVIOUS
<1>0. TypeOK'
  BY TypeOKStep DEF GateInv, Gate
<1>1. ASSUME NEW f \in Frames, Proceeds(f) PROVE Gate'
  <2>1. CASE Look(f)
    BY <2>1, LookStep
  <2>2. CASE Fill(f)
    BY <2>2, FillStep
  <2>3. CASE LookupFails(f)
    BY <2>3, LookupFailsStep
  <2>4. CASE Admitted(f)
    BY <2>4, AdmittedStep
  <2>5. CASE TurnedAway(f)
    BY <2>5, TurnedAwayStep
  <2>6. CASE VerdictIsIn(f)
    <3>1. frame[f].pc # "idle" /\ UNCHANGED <<now, revoked, cache, conn, troubled>>
      BY <2>6 DEF VerdictIsIn
    <3> QED
      BY <2>6, <3>1, FrameEnds, FrameEnters DEF VerdictIsIn
  <2>7. CASE Denied(f)
    BY <2>7, FrameEnds DEF Denied, Leaves
  <2>8. ASSUME NEW kind \in Capabilities, Consume(f, kind) PROVE Gate'
    BY <2>8, FrameEnds DEF Consume, Leaves
  <2> QED
    BY <1>1, <2>1, <2>2, <2>3, <2>4, <2>5, <2>6, <2>7, <2>8 DEF Proceeds
<1>2. CASE UNCHANGED vars
  <2>1. UNCHANGED <<now, revoked, cache, conn, frame, troubled>>
    BY <1>2 DEF vars
  <2>2. \A f \in Frames : Single(f)' /\ Prompt(f)' /\ Grounded(f)'
    BY <2>1, Unmoved DEF GateInv, Gate, OneVerdict, InTime, Caused
  <2>3. InThePast' /\ Attached' /\ RefusedForCause'
    BY <2>1 DEF GateInv, Gate, InThePast, Attached, RefusedForCause
  <2>4. \A t \in Tokens : Remembered(t)'
    BY <2>1 DEF GateInv, Gate, InTime, Remembered
  <2> QED
    BY <1>0, <2>2, <2>3, <2>4 DEF GateInv, Gate, OneVerdict, InTime, Caused
<1>3. CASE Next
  <2>1. Gate'
    BY <1>1, <1>3, TickStep, ReportStep, RevokeStep, HandshakeStep, ArriveStep DEF Next
  <2> QED
    BY <1>0, <2>1 DEF GateInv
<1> QED
  BY <1>2, <1>3

\* The invariant holds in every state.
LEMMA GateHolds == Spec => []GateInv
<1>1. Init => GateInv
  BY InitGate
<1>2. GateInv /\ [Next]_vars => GateInv'
  BY GateInvStep
<1> QED
  BY <1>1, <1>2, PTL DEF Spec

\* Only Admitted and VerdictIsIn let a frame in, and both use a verdict that was asked in time.
LEMMA LetInStep ==
    ASSUME GateInv, [Next]_vars, NEW f \in Frames,
           frame[f].pc # "session", frame'[f].pc = "session"
    PROVE  Asked(f)
<1>1. frame'[f] # frame[f]
  OBVIOUS
<1>2. ASSUME NEW g \in Frames, NEW c \in Conns, NEW t \in Tokens, Handshake(g, c, t) PROVE FALSE
  BY <1>1, <1>2, AskedRow DEF Handshake
<1>3. ASSUME NEW g \in Frames, NEW c \in Conns, Arrive(g, c) PROVE FALSE
  <2>1. CASE frame' = [frame EXCEPT ![g] = [NoFrame EXCEPT !.pc = "waiting", !.conn = c,
                                                           !.asked = conn[c].asked]]
    BY <1>1, <2>1 DEF NoFrame, GateInv, TypeOK
  <2>2. CASE conn[c].state = "open" /\ Asks(g, c, conn[c].token, FALSE)
    <3>1. conn[c].token \in Tokens
      BY <2>2 DEF GateInv, Gate, Attached
    <3> QED
      BY <1>1, <2>2, <3>1, AskedRow
  <2> QED
    BY <1>3, <2>1, <2>2 DEF Arrive
<1>4. ASSUME NEW g \in Frames, Proceeds(g) PROVE Asked(f)
  <2>1. CASE Look(g)
    BY <1>1, <2>1 DEF Look, GateInv, TypeOK
  <2>2. CASE Fill(g)
    BY <1>1, <2>2 DEF Fill, Becomes, GateInv, TypeOK
  <2>3. CASE LookupFails(g)
    BY <1>1, <2>3 DEF LookupFails, Becomes, GateInv, TypeOK
  <2>4. CASE Admitted(g)
    <3>1. g = f
      BY <1>1, <2>4 DEF Admitted, Enters, GateInv, TypeOK
    <3> QED
      BY <2>4, <3>1 DEF Admitted, GateInv, Gate, InTime, Prompt
  <2>5. CASE TurnedAway(g)
    BY <1>1, <2>5 DEF TurnedAway, NoFrame, GateInv, TypeOK
  <2>6. CASE VerdictIsIn(g)
    <3>1. g = f
      BY <1>1, <2>6 DEF VerdictIsIn, Enters, GateInv, TypeOK
    <3>2. conn[frame[f].conn].state = "open"
      BY <2>6, <3>1 DEF VerdictIsIn, NoFrame, GateInv, TypeOK
    <3> QED
      BY <2>6, <3>1, <3>2 DEF VerdictIsIn, GateInv, Gate, InTime, Prompt
  <2>7. CASE Denied(g)
    BY <1>1, <2>7 DEF Denied, Leaves, NoFrame, GateInv, TypeOK
  <2>8. ASSUME NEW kind \in Capabilities, Consume(g, kind) PROVE FALSE
    BY <1>1, <2>8 DEF Consume, Leaves, NoFrame, GateInv, TypeOK
  <2> QED
    BY <1>4, <2>1, <2>2, <2>3, <2>4, <2>5, <2>6, <2>7, <2>8 DEF Proceeds
<1> QED
  BY <1>1, <1>2, <1>3, <1>4 DEF Next, Tick, Report, Revoke, vars

----------------------------------------------------------------------------
(* Theorems *)

(* Every variable keeps its type, for any number of tokens, connections and frames. *)
THEOREM TypeCorrect == Spec => []TypeOK
<1>1. GateInv => TypeOK
  BY DEF GateInv
<1> QED
  BY <1>1, GateHolds, PTL

(* A revocation reaches every connection within the recheck window, whatever lookups overlap *)
(* (admit and verify in server.ts:308-390, authenticate in principal-token.service.ts:71-87). *)
THEOREM RevocationIsHeard == Spec => RevocationReaches
<1>1. GateInv /\ [Next]_vars =>
          [\A f \in Frames :
              frame[f].pc # "session" /\ frame'[f].pc = "session" /\ revoked[TokenOf(f)] # None
              => frame[f].asked < revoked[TokenOf(f)] + Recheck]_vars
  BY LetInStep DEF Asked
<1> QED
  BY <1>1, GateHolds, PTL DEF RevocationReaches, Spec

(* A connection is refused only because its own token was revoked, or the store did not answer *)
(* for this very connection (server.ts:308-390).                                               *)
THEOREM RefusalsHaveCause == Spec => []RefusedForCause
<1>1. GateInv => RefusedForCause
  BY DEF GateInv, Gate
<1> QED
  BY <1>1, GateHolds, PTL

----------------------------------------------------------------------------
(* Quotas *)

Log == [Times -> [other : Nat, write : Nat]]

\* Of what still counts the daemon remembers every call.
Tallied == \A p \in Principals \ forgot, t \in Times : t > now - Window => spent[p][t] = ran[p][t]

QuotaInv == Tallied /\ QuotaHolds

\* The entries can be counted.
LEMMA EntriesFinite ==
    ASSUME NEW n \in [Times -> Nat]
    PROVE  IsFiniteSet(Entries(n)) /\ Cardinality(Entries(n)) \in Nat
<1> DEFINE at == [t \in Times |-> {<<t, i>> : i \in 1 .. n[t]}]
           all == {at[t] : t \in Times}
<1>1. ASSUME NEW t \in Times PROVE IsFiniteSet(at[t])
  <2> DEFINE place == [i \in 1 .. n[t] |-> <<t, i>>]
  <2>1. IsFiniteSet(1 .. n[t])
    BY FS_Interval
  <2>2. place \in Surjection(1 .. n[t], at[t])
    BY DEF Surjection
  <2> HIDE DEF place
  <2> QED
    BY <2>1, <2>2, FS_Surjection
<1>2. IsFiniteSet(Times)
  BY AccessAssumption, FS_Interval DEF Times, AccessAssumption
<1>3. at \in Surjection(Times, all)
  BY DEF Surjection
<1>4. IsFiniteSet(all) /\ \A T \in all : IsFiniteSet(T)
  <2>1. \A T \in all : \E t \in Times : T = at[t]
    OBVIOUS
  <2> HIDE DEF at, all
  <2> QED
    BY <1>1, <1>2, <1>3, <2>1, FS_Surjection
<1>5. Entries(n) = UNION all
  BY DEF Entries
<1> HIDE DEF at, all
<1> QED
  BY <1>4, <1>5, FS_UNION, FS_CardinalityType

\* An entry is one of the n[t] at its time.
LEMMA EntryOf ==
    ASSUME NEW n \in [Times -> Nat], NEW e
    PROVE  e \in Entries(n) <=> \E t \in Times : \E i \in 1 .. n[t] : e = <<t, i>>
BY DEF Entries

\* Fewer at every time are fewer.
LEMMA FewerEntries ==
    ASSUME NEW n \in [Times -> Nat], NEW m \in [Times -> Nat], \A t \in Times : n[t] <= m[t]
    PROVE  Cardinality(Entries(n)) <= Cardinality(Entries(m))
<1>1. ASSUME NEW t \in Times, NEW i \in 1 .. n[t] PROVE i \in 1 .. m[t]
  <2>1. n[t] \in Nat /\ m[t] \in Nat /\ n[t] <= m[t]
    OBVIOUS
  <2> QED
    BY <2>1
<1>2. Entries(n) \in SUBSET Entries(m)
  BY <1>1, EntryOf
<1> QED
  BY <1>2, EntriesFinite, FS_Subset

\* One more at one time is one more at most.
LEMMA OneMoreEntry ==
    ASSUME NEW n \in [Times -> Nat], NEW m \in [Times -> Nat], NEW s \in Times,
           m[s] <= n[s] + 1, \A t \in Times \ {s} : m[t] <= n[t]
    PROVE  Cardinality(Entries(m)) <= Cardinality(Entries(n)) + 1
<1>1. ASSUME NEW t \in Times, NEW i \in 1 .. m[t]
      PROVE  (t = s /\ i = n[s] + 1) \/ i \in 1 .. n[t]
  <2>1. n[t] \in Nat /\ m[t] \in Nat /\ n[s] \in Nat /\ m[s] \in Nat
    OBVIOUS
  <2>2. CASE t = s
    BY <2>1, <2>2
  <2>3. CASE t # s
    <3>1. m[t] <= n[t]
      BY <2>3
    <3> QED
      BY <2>1, <3>1
  <2> QED
    BY <2>2, <2>3
<1> DEFINE new == <<s, n[s] + 1>>
<1>2. Entries(m) \subseteq Entries(n) \cup {new}
  <2>1. ASSUME NEW e \in Entries(m) PROVE e \in Entries(n) \cup {new}
    <3>1. PICK t \in Times : \E i \in 1 .. m[t] : e = <<t, i>>
      BY EntryOf
    <3>2. PICK i \in 1 .. m[t] : e = <<t, i>>
      BY <3>1
    <3> QED
      BY <1>1, <3>2, EntryOf
  <2> QED
    BY <2>1
<1> HIDE DEF new
<1>3. /\ IsFiniteSet(Entries(n) \cup {new})
      /\ Cardinality(Entries(n) \cup {new}) =
           IF new \in Entries(n) THEN Cardinality(Entries(n)) ELSE Cardinality(Entries(n)) + 1
  BY EntriesFinite, FS_AddElement
<1>4. Cardinality(Entries(m)) <= Cardinality(Entries(n) \cup {new})
  BY <1>2, <1>3, FS_Subset
<1>5. Cardinality(Entries(n)) \in Nat /\ Cardinality(Entries(m)) \in Nat
  BY EntriesFinite
<1> QED
  BY <1>3, <1>4, <1>5

WritesAt(log) == [t \in Times |-> log[t].write]
CallsAt(log) == [t \in Times |-> log[t].other + log[t].write]

LEMMA CountsOfLog ==
    ASSUME NEW log \in Log
    PROVE  /\ WritesAt(log) \in [Times -> Nat] /\ WritesIn(log) = Cardinality(Entries(WritesAt(log)))
           /\ CallsAt(log) \in [Times -> Nat] /\ CallsIn(log) = Cardinality(Entries(CallsAt(log)))
           /\ WritesIn(log) \in Nat /\ CallsIn(log) \in Nat
<1>1. \A t \in Times : log[t].other \in Nat /\ log[t].write \in Nat
  BY DEF Log
<1>2. WritesAt(log) \in [Times -> Nat] /\ CallsAt(log) \in [Times -> Nat]
  BY <1>1 DEF WritesAt, CallsAt
<1>3. WritesIn(log) = Cardinality(Entries(WritesAt(log)))
      /\ CallsIn(log) = Cardinality(Entries(CallsAt(log)))
  BY DEF WritesIn, CallsIn, WritesAt, CallsAt
<1> QED
  BY <1>2, <1>3, EntriesFinite

\* A window that starts later has no more calls in it.
LEMMA LaterWindow ==
    ASSUME NEW log \in Log, NEW a \in Int, NEW b \in Int, a <= b
    PROVE  /\ CallsIn(Since(log, b)) <= CallsIn(Since(log, a))
           /\ WritesIn(Since(log, b)) <= WritesIn(Since(log, a))
<1>1. Since(log, a) \in Log /\ Since(log, b) \in Log
  BY SinceTypes DEF Log
<1>2. ASSUME NEW t \in Times
      PROVE  /\ WritesAt(Since(log, b))[t] <= WritesAt(Since(log, a))[t]
             /\ CallsAt(Since(log, b))[t] <= CallsAt(Since(log, a))[t]
  <2>1. t \in Int /\ log[t].other \in Nat /\ log[t].write \in Nat
    BY AccessAssumption DEF Times, Log
  <2>2. /\ Since(log, a)[t] = IF t > a THEN log[t] ELSE [other |-> 0, write |-> 0]
        /\ Since(log, b)[t] = IF t > b THEN log[t] ELSE [other |-> 0, write |-> 0]
    BY DEF Since
  <2>3. /\ Since(log, b)[t].other <= Since(log, a)[t].other
        /\ Since(log, b)[t].write <= Since(log, a)[t].write
        /\ Since(log, b)[t].other + Since(log, b)[t].write
             <= Since(log, a)[t].other + Since(log, a)[t].write
    BY <2>1, <2>2
  <2> QED
    BY <2>3 DEF WritesAt, CallsAt
<1> QED
  BY <1>1, <1>2, CountsOfLog, FewerEntries

\* A call that is let through is one more.
LEMMA OneMoreCall ==
    ASSUME TypeOK, NEW log \in Log, NEW kind, NEW start \in Int
    PROVE  LET old == Since(log, start)
               new == Since(Logged(log, kind), start)
           IN  /\ CallsIn(new) <= CallsIn(old) + 1 /\ WritesIn(new) <= WritesIn(old) + 1
               /\ kind # "write" => WritesIn(new) <= WritesIn(old)
<1> DEFINE old == Since(log, start)
           new == Since(Logged(log, kind), start)
<1>1. now \in Times
  BY NowIsTime
<1>2. Logged(log, kind) \in Log /\ old \in Log /\ new \in Log
  BY LoggedTypes, SinceTypes DEF Log
<1>3. ASSUME NEW t \in Times \ {now} PROVE Logged(log, kind)[t] = log[t]
  BY <1>3 DEF Logged, Log
<1>4. /\ Logged(log, kind)[now].other <= log[now].other + 1
      /\ Logged(log, kind)[now].write <= log[now].write + 1
      /\ Logged(log, kind)[now].other + Logged(log, kind)[now].write
           <= log[now].other + log[now].write + 1
      /\ kind # "write" => Logged(log, kind)[now].write <= log[now].write
  <2>1. log[now].other \in Nat /\ log[now].write \in Nat
    BY <1>1 DEF Log
  <2>2. CASE kind = "write"
    <3>1. Logged(log, kind) = [log EXCEPT ![now].write = @ + 1]
      BY <2>2 DEF Logged
    <3>2. Logged(log, kind)[now].other = log[now].other
          /\ Logged(log, kind)[now].write = log[now].write + 1
      BY <1>1, <3>1 DEF Log
    <3> QED
      BY <2>1, <2>2, <3>2
  <2>3. CASE kind # "write"
    <3>1. Logged(log, kind) = [log EXCEPT ![now].other = @ + 1]
      BY <2>3 DEF Logged
    <3>2. Logged(log, kind)[now].other = log[now].other + 1
          /\ Logged(log, kind)[now].write = log[now].write
      BY <1>1, <3>1 DEF Log
    <3> QED
      BY <2>1, <3>2
  <2> QED
    BY <2>2, <2>3
<1>5. \A t \in Times : /\ old[t] = IF t > start THEN log[t] ELSE [other |-> 0, write |-> 0]
                       /\ new[t] = IF t > start THEN Logged(log, kind)[t]
                                   ELSE [other |-> 0, write |-> 0]
  BY DEF Since
<1>6. \A t \in Times \ {now} : new[t] = old[t]
  BY <1>3, <1>5
<1>7. /\ new[now].write <= old[now].write + 1
      /\ new[now].other + new[now].write <= old[now].other + old[now].write + 1
      /\ kind # "write" => new[now].write <= old[now].write
  BY <1>1, <1>4, <1>5
<1> HIDE DEF old, new
<1>8. \A t \in Times : old[t].other \in Nat /\ old[t].write \in Nat
  BY <1>2 DEF Log
<1>9. CallsIn(new) <= CallsIn(old) + 1
  <2>1. CallsAt(new)[now] <= CallsAt(old)[now] + 1
    BY <1>1, <1>7 DEF CallsAt
  <2>2. \A t \in Times \ {now} : CallsAt(new)[t] <= CallsAt(old)[t]
    BY <1>6, <1>8 DEF CallsAt
  <2> QED
    BY <1>1, <1>2, <2>1, <2>2, CountsOfLog, OneMoreEntry
<1>10. WritesIn(new) <= WritesIn(old) + 1
  <2>1. WritesAt(new)[now] <= WritesAt(old)[now] + 1
    BY <1>1, <1>7 DEF WritesAt
  <2>2. \A t \in Times \ {now} : WritesAt(new)[t] <= WritesAt(old)[t]
    BY <1>6, <1>8 DEF WritesAt
  <2> QED
    BY <1>1, <1>2, <2>1, <2>2, CountsOfLog, OneMoreEntry
<1>11. ASSUME kind # "write" PROVE WritesIn(new) <= WritesIn(old)
  <2>1. \A t \in Times : WritesAt(new)[t] <= WritesAt(old)[t]
    BY <1>6, <1>7, <1>8, <1>11 DEF WritesAt
  <2> QED
    BY <1>2, <2>1, CountsOfLog, FewerEntries
<1> QED
  BY <1>9, <1>10, <1>11 DEF old, new

\* The ledger and the history are logs.
LEMMA LedgerTypes ==
    ASSUME TypeOK
    PROVE  /\ now \in Nat /\ now - Window \in Int
           /\ \A p \in Principals : spent[p] \in Log /\ ran[p] \in Log
           /\ \A p \in Principals : Calls[p] \in Nat /\ Writes[p] \in Nat
<1>1. now \in Nat /\ Window \in Nat
  BY AccessAssumption, NowIsTime DEF Times
<1> QED
  BY <1>1, AccessAssumption DEF TypeOK, Log

\* Where both logs agree on what still counts, the window shows the same of both.
LEMMA SameWindow ==
    ASSUME NEW log \in Log, NEW other \in Log, NEW start \in Int,
           \A t \in Times : t > start => log[t] = other[t]
    PROVE  Since(log, start) = Since(other, start)
BY DEF Since

\* A call is counted before another is let through.
LEMMA ConsumeQuota ==
    ASSUME GateInv, QuotaInv, NEW f \in Frames, NEW kind \in Capabilities, Consume(f, kind)
    PROVE  QuotaInv'
<1> DEFINE p == PrincipalOf(f)
           start == now - Window
<1>1. p \in Principals
  <2>1. frame[f].pc = "session"
    BY DEF Consume
  <2>2. TokenOf(f) \in Tokens
    BY <2>1 DEF GateInv, Gate, Attached, TokenOf
  <2> QED
    BY <2>2 DEF PrincipalOf, Principals
<1>2. /\ TypeOK /\ now \in Nat /\ start \in Int /\ start' = start /\ forgot' = forgot
      /\ \A q \in Principals : spent[q] \in Log /\ ran[q] \in Log
      /\ \A q \in Principals : Calls[q] \in Nat /\ Writes[q] \in Nat
      /\ spent \in [Principals -> Log] /\ ran \in [Principals -> Log]
  BY LedgerTypes DEF GateInv, Consume, TypeOK, Log
<1>3. Recent(p) = Since(spent[p], start) /\ Recent(p) \in Log
  BY <1>1, <1>2, SinceTypes DEF Recent, Log
<1>4. ASSUME NEW t \in Times, t > start PROVE Recent(p)[t] = spent[p][t]
  BY <1>3, <1>4 DEF Since
<1>5. CASE Exceeded(p, kind)
  <2>1. spent' = [spent EXCEPT ![p] = Recent(p)] /\ ran' = ran
    BY <1>5 DEF Consume
  <2>2. spent'[p] = Recent(p) /\ \A q \in Principals \ {p} : spent'[q] = spent[q]
    BY <1>1, <1>2, <2>1
  <2>3. Tallied'
    BY <1>2, <1>4, <2>1, <2>2 DEF QuotaInv, Tallied
  <2>4. QuotaHolds'
    BY <1>2, <2>1 DEF QuotaInv, QuotaHolds
  <2> QED
    BY <2>3, <2>4 DEF QuotaInv
<1>6. CASE ~Exceeded(p, kind)
  <2>1. /\ spent' = [spent EXCEPT ![p] = Logged(Recent(p), kind)]
        /\ ran' = IF p \in forgot THEN ran ELSE [ran EXCEPT ![p] = Logged(ran[p], kind)]
    BY <1>6 DEF Consume
  <2>2. /\ spent'[p] = Logged(Recent(p), kind)
        /\ \A q \in Principals \ {p} : spent'[q] = spent[q] /\ ran'[q] = ran[q]
        /\ p \notin forgot => ran'[p] = Logged(ran[p], kind)
    BY <1>1, <1>2, <2>1
  <2>3. ASSUME NEW q \in Principals \ forgot', q # p
        PROVE  /\ \A t \in Times : t > start => spent'[q][t] = ran'[q][t]
               /\ CallsIn(Since(ran'[q], start)) <= Calls[q]
               /\ WritesIn(Since(ran'[q], start)) <= Writes[q]
    <3>1. spent'[q] = spent[q] /\ ran'[q] = ran[q] /\ q \in Principals \ forgot
      BY <1>2, <2>2, <2>3
    <3> QED
      BY <3>1 DEF QuotaInv, Tallied, QuotaHolds
  <2>4. ASSUME p \notin forgot'
        PROVE  /\ \A t \in Times : t > start => spent'[p][t] = ran'[p][t]
               /\ CallsIn(Since(ran'[p], start)) <= Calls[p]
               /\ WritesIn(Since(ran'[p], start)) <= Writes[p]
    <3>1. p \notin forgot
      BY <1>2, <2>4
    <3>2. \A t \in Times : t > start => spent[p][t] = ran[p][t]
      BY <1>1, <3>1 DEF QuotaInv, Tallied
    <3>3. Recent(p) = Since(ran[p], start)
      BY <1>1, <1>2, <1>3, <3>2, SameWindow
    <3>4. ASSUME NEW t \in Times, t > start PROVE spent'[p][t] = ran'[p][t]
      <4>1. Recent(p)[t] = ran[p][t]
        BY <1>4, <3>2, <3>4
      <4>2. now \in Times /\ ran[p] \in Log /\ Recent(p) \in Log
        BY <1>1, <1>2, <1>3, NowIsTime
      <4>3. Logged(Recent(p), kind)[t] = Logged(ran[p], kind)[t]
        BY <4>1, <4>2 DEF Logged, Log
      <4> QED
        BY <2>2, <3>1, <4>3
    <3>5. ran'[p] = Logged(ran[p], kind)
      BY <2>2, <3>1
    <3>6. /\ CallsIn(Since(ran'[p], start)) <= CallsIn(Recent(p)) + 1
          /\ WritesIn(Since(ran'[p], start)) <= WritesIn(Recent(p)) + 1
          /\ kind # "write" => WritesIn(Since(ran'[p], start)) <= WritesIn(Recent(p))
      BY <1>1, <1>2, <3>3, <3>5, OneMoreCall
    <3>7. CallsIn(Recent(p)) \in Nat /\ WritesIn(Recent(p)) \in Nat
      BY <1>3, CountsOfLog
    <3>8. CallsIn(Recent(p)) < Calls[p] /\ (kind = "write" => WritesIn(Recent(p)) < Writes[p])
      BY <1>1, <1>2, <1>6, <3>7 DEF Exceeded
    <3>9. WritesIn(Recent(p)) <= Writes[p]
      BY <1>1, <3>1, <3>3 DEF QuotaInv, QuotaHolds
    <3>10. /\ ran'[p] \in Log
           /\ CallsIn(Since(ran'[p], start)) \in Nat /\ WritesIn(Since(ran'[p], start)) \in Nat
      <4>1. Logged(ran[p], kind) \in Log
        BY <1>1, <1>2, LoggedTypes DEF Log
      <4>2. Since(ran'[p], start) \in Log
        BY <3>5, <4>1, SinceTypes DEF Log
      <4> QED
        BY <3>5, <4>1, <4>2, CountsOfLog
    <3> QED
      BY <1>1, <1>2, <3>4, <3>6, <3>7, <3>8, <3>9, <3>10
  <2>5. ASSUME NEW q \in Principals \ forgot'
        PROVE  /\ \A t \in Times : t > start => spent'[q][t] = ran'[q][t]
               /\ CallsIn(Since(ran'[q], start)) <= Calls[q]
               /\ WritesIn(Since(ran'[q], start)) <= Writes[q]
    BY <2>3, <2>4
  <2> QED
    BY <1>2, <2>5 DEF QuotaInv, Tallied, QuotaHolds
<1> QED
  BY <1>5, <1>6

\* The window moves on.
LEMMA TickQuota ==
    ASSUME GateInv, QuotaInv, Tick
    PROVE  QuotaInv'
<1>1. /\ TypeOK /\ now' = now + 1 /\ spent' = spent /\ ran' = ran /\ forgot' = forgot
  BY DEF Tick, GateInv
<1>2. /\ now \in Nat /\ Window \in Nat /\ now - Window \in Int /\ now' - Window \in Int
      /\ now - Window <= now' - Window
  BY <1>1, AccessAssumption, LedgerTypes
<1>3. ASSUME NEW p \in Principals \ forgot', NEW t \in Times, t > now' - Window
      PROVE  spent'[p][t] = ran'[p][t]
  <2>1. t > now - Window
    BY <1>2, <1>3, AccessAssumption DEF Times
  <2> QED
    BY <1>1, <2>1 DEF QuotaInv, Tallied
<1>4. ASSUME NEW p \in Principals \ forgot'
      PROVE  /\ CallsIn(Since(ran'[p], now' - Window)) <= Calls[p]
             /\ WritesIn(Since(ran'[p], now' - Window)) <= Writes[p]
  <2>1. ran[p] \in Log /\ Calls[p] \in Nat /\ Writes[p] \in Nat
    BY <1>1, LedgerTypes
  <2>2. /\ CallsIn(Since(ran[p], now - Window)) <= Calls[p]
        /\ WritesIn(Since(ran[p], now - Window)) <= Writes[p]
    BY <1>1 DEF QuotaInv, QuotaHolds
  <2>3. /\ CallsIn(Since(ran[p], now' - Window)) <= CallsIn(Since(ran[p], now - Window))
        /\ WritesIn(Since(ran[p], now' - Window)) <= WritesIn(Since(ran[p], now - Window))
    BY <1>2, <2>1, LaterWindow
  <2>4. Since(ran[p], now - Window) \in Log /\ Since(ran[p], now' - Window) \in Log
    BY <2>1, SinceTypes DEF Log
  <2>5. /\ CallsIn(Since(ran[p], now - Window)) \in Nat
        /\ WritesIn(Since(ran[p], now - Window)) \in Nat
        /\ CallsIn(Since(ran[p], now' - Window)) \in Nat
        /\ WritesIn(Since(ran[p], now' - Window)) \in Nat
    BY <2>4, CountsOfLog
  <2> QED
    BY <1>1, <2>1, <2>2, <2>3, <2>5
<1> QED
  BY <1>3, <1>4 DEF QuotaInv, Tallied, QuotaHolds

\* Of a principal a report has not forgotten it has kept all that counts.
LEMMA ReportQuota ==
    ASSUME GateInv, QuotaInv, Report
    PROVE  QuotaInv'
<1> DEFINE kept(p) == Since(spent[p], now - ReportWindow)
<1>1. /\ now' = now
      /\ spent' = [p \in Principals |-> kept(p)]
      /\ forgot' = forgot \cup {p \in Principals : Since(kept(p), now - Window) # Recent(p)}
      /\ ran' = [p \in Principals |-> IF p \in forgot' THEN NoCalls ELSE ran[p]]
  BY DEF Report
<1>2. ASSUME NEW p \in Principals \ forgot'
      PROVE  /\ p \notin forgot /\ spent'[p] = kept(p) /\ ran'[p] = ran[p]
             /\ Since(kept(p), now - Window) = Since(spent[p], now - Window)
  <2> HIDE DEF kept
  <2> QED
    BY <1>1, <1>2 DEF Recent
<1>3. ASSUME NEW p \in Principals \ forgot', NEW t \in Times, t > now - Window
      PROVE  spent'[p][t] = ran'[p][t]
  <2>1. Since(kept(p), now - Window)[t] = kept(p)[t]
        /\ Since(spent[p], now - Window)[t] = spent[p][t]
    BY <1>3 DEF Since
  <2> HIDE DEF kept
  <2> QED
    BY <1>2, <1>3, <2>1 DEF QuotaInv, Tallied
<1>4. ASSUME NEW p \in Principals \ forgot'
      PROVE  /\ CallsIn(Since(ran'[p], now - Window)) <= Calls[p]
             /\ WritesIn(Since(ran'[p], now - Window)) <= Writes[p]
  BY <1>2 DEF QuotaInv, QuotaHolds
<1> QED
  BY <1>1, <1>3, <1>4 DEF QuotaInv, Tallied, QuotaHolds

\* No call has been made at the start.
LEMMA InitQuota == Init => QuotaInv
<1> SUFFICES ASSUME Init PROVE QuotaInv
  OBVIOUS
<1>1. /\ TypeOK /\ now = 0
      /\ \A p \in Principals : spent[p] = NoCalls /\ ran[p] = NoCalls
  BY InitTypeOK DEF Init
<1>2. Since(NoCalls, now - Window) = NoCalls
  BY DEF Since, NoCalls
<1>3. CallsIn(NoCalls) = 0 /\ WritesIn(NoCalls) = 0
  <2>1. ASSUME NEW n \in [Times -> Nat], \A t \in Times : n[t] = 0
        PROVE  Cardinality(Entries(n)) = 0
    <3>1. \A e : e \notin Entries(n)
      BY <2>1, EntryOf
    <3> QED
      BY <3>1, FS_EmptySet
  <2>2. NoCalls \in Log /\ \A t \in Times : NoCalls[t].other = 0 /\ NoCalls[t].write = 0
    BY DEF NoCalls, Log
  <2>3. \A t \in Times : CallsAt(NoCalls)[t] = 0 /\ WritesAt(NoCalls)[t] = 0
    BY <2>2 DEF CallsAt, WritesAt
  <2> QED
    BY <2>1, <2>2, <2>3, CountsOfLog
<1>4. QuotaHolds
  BY <1>1, <1>2, <1>3, LedgerTypes DEF QuotaHolds
<1>5. Tallied
  BY <1>1 DEF Tallied
<1> QED
  BY <1>4, <1>5 DEF QuotaInv

\* What touches neither the clock nor the ledger keeps it.
LEMMA LedgerUntouched ==
    ASSUME QuotaInv, UNCHANGED <<now, spent, ran, forgot>>
    PROVE  QuotaInv'
BY DEF QuotaInv, Tallied, QuotaHolds

\* Every step keeps it.
LEMMA QuotaStep == GateInv /\ QuotaInv /\ [Next]_vars => QuotaInv'
<1> SUFFICES ASSUME GateInv, QuotaInv, [Next]_vars PROVE QuotaInv'
  OBVIOUS
<1>1. CASE UNCHANGED vars
  BY <1>1, LedgerUntouched DEF vars
<1>2. CASE \E t \in Tokens : Revoke(t)
  BY <1>2, LedgerUntouched DEF Revoke
<1>3. CASE \E f \in Frames, c \in Conns, t \in Tokens : Handshake(f, c, t)
  BY <1>3, LedgerUntouched DEF Handshake
<1>4. CASE \E f \in Frames, c \in Conns : Arrive(f, c)
  BY <1>4, LedgerUntouched DEF Arrive
<1>5. ASSUME NEW f \in Frames, Proceeds(f) PROVE QuotaInv'
  <2>1. CASE Look(f) \/ Fill(f) \/ LookupFails(f)
    BY <2>1, LedgerUntouched DEF Look, Fill, LookupFails
  <2>2. CASE Admitted(f) \/ TurnedAway(f) \/ VerdictIsIn(f) \/ Denied(f)
    BY <2>2, LedgerUntouched DEF Admitted, TurnedAway, VerdictIsIn, Denied
  <2>3. CASE \E kind \in Capabilities : Consume(f, kind)
    BY <2>3, ConsumeQuota
  <2> QED
    BY <1>5, <2>1, <2>2, <2>3 DEF Proceeds
<1> QED
  BY <1>1, <1>2, <1>3, <1>4, <1>5, TickQuota, ReportQuota DEF Next

(* No principal gets more through than its ceilings in any window, whatever is in flight at    *)
(* once, unless a report has made the daemon forget calls of it that still counted             *)
(* (PrincipalQuotaService.consume and usage).                                                  *)
THEOREM QuotaIsKept == Spec => []QuotaHolds
<1>1. Init => QuotaInv
  BY InitQuota
<1>2. GateInv /\ QuotaInv /\ [Next]_vars => QuotaInv'
  BY QuotaStep
<1>3. QuotaInv => QuotaHolds
  BY DEF QuotaInv
<1> QED
  BY <1>1, <1>2, <1>3, GateHolds, PTL DEF Spec

=============================================================================
