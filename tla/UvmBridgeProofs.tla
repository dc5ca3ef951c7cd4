--------------------------- MODULE UvmBridgeProofs ---------------------------
(***************************************************************************)
(* The one-place mailbox of uvm_bridge.c, for any number of clients, calls *)
(* and steps, and whatever times out, is interrupted, dies or is too long. *)
(***************************************************************************)
EXTENDS UvmBridge, SequenceTheorems, TLAPS

InHand == vpc \in {"perform", "answer"}

(***************************************************************************)
(* OneRequestInFlight is not inductive: posting a request keeps it only if *)
(* nothing of an earlier request is left when the server thread is not     *)
(* waiting.  A response may be left: posting drops it.                     *)
(***************************************************************************)
MailboxEmpty == spc # "wait" => ~req_valid /\ ~InHand

HInv == MailboxEmpty /\ OneRequestInFlight

USE DEF InHand

\* A step of a client leaves the server, the mailbox and the simulator alone.
LEMMA ClientHInv ==
  ASSUME HInv, UNCHANGED <<server, mailbox, simulator>>
  PROVE  HInv'
  BY DEF HInv, MailboxEmpty, OneRequestInFlight, server, mailbox, simulator

\* uvm_bridge.c: server_thread and handle_request.
LEMMA ServerHInv == ASSUME HInv, ServerStep PROVE HInv'
  <1>1. CASE Accept \/ ThreadExit \/ ClientGone
    BY <1>1 DEF Accept, ThreadExit, ClientGone, HInv, MailboxEmpty, OneRequestInFlight,
                mailbox, simulator
  <1>2. CASE PostRequest
    BY <1>2 DEF PostRequest, HInv, MailboxEmpty, OneRequestInFlight, simulator
  <1>3. CASE RejectRequest
    BY <1>3, ClientHInv DEF RejectRequest
  <1>4. CASE SendResponse
    BY <1>4 DEF SendResponse, HInv, MailboxEmpty, OneRequestInFlight, mailbox, simulator
  <1>5. CASE BrokenPipe
    BY <1>5 DEF BrokenPipe, HInv, MailboxEmpty, OneRequestInFlight, server, mailbox
  <1>6. QED
    BY <1>1, <1>2, <1>3, <1>4, <1>5 DEF ServerStep

\* py_bridge.sv: serve, with dpi_bridge_get_req and dpi_bridge_put_rsp.
LEMMA SimHInv == ASSUME HInv, SimStep PROVE HInv'
  <1>1. CASE GetReq
    BY <1>1 DEF GetReq, HInv, MailboxEmpty, OneRequestInFlight, server
  <1>2. CASE Perform
    BY <1>2 DEF Perform, HInv, MailboxEmpty, OneRequestInFlight, server, mailbox
  <1>3. CASE PutRsp
    BY <1>3 DEF PutRsp, HInv, MailboxEmpty, OneRequestInFlight, server
  <1>4. CASE BridgeStop \/ SimExit
    BY <1>4 DEF BridgeStop, SimExit, HInv, MailboxEmpty, OneRequestInFlight, server, mailbox
  <1>5. QED
    BY <1>1, <1>2, <1>3, <1>4 DEF SimStep

\* Every other step is a client's.
LEMMA OtherSteps ==
  ASSUME \/ Connect \/ ClientStep \/ ReadFails(TRUE) \/ Interrupt \/ Crash \/ Quiescent
         \/ UNCHANGED vars
  PROVE  UNCHANGED <<server, mailbox, simulator>>
  BY DEF Connect, ClientStep, ReadFails, Interrupt, Crash, Quiescent, vars, StartStep,
         StepCall, PrintDone, Disconnect, ShutdownReply, LogAck, StepReply, StepEnds,
         PrintLine, LogReply, LogAckReply

\* The mailbox invariant is inductive.
THEOREM HandshakeInvariance == Spec => []HInv
  <1>1. Init => HInv
    BY DEF Init, HInv, MailboxEmpty, OneRequestInFlight
  <1>2. HInv /\ [Next]_vars => HInv'
    BY ClientHInv, ServerHInv, SimHInv, OtherSteps DEF Next
  <1>3. QED
    BY <1>1, <1>2, PTL DEF Spec

\* uvm_bridge.c: "the bridge serves one request at a time under g_mutex".
THEOREM OneRequestInFlightHolds == Spec => []OneRequestInFlight
  <1>1. HInv => OneRequestInFlight
    BY DEF HInv
  <1>2. QED
    BY <1>1, HandshakeInvariance, PTL

-----------------------------------------------------------------------------
(* Streams of lines, as the sets of what they hold. *)

Elems(q) == {q[i] : i \in 1 .. Len(q)}

\* fgets and readline take the first line away and leave the others.
LEMMA ElemsTail ==
  ASSUME NEW S, NEW q \in Seq(S), q # <<>>
  PROVE  /\ Head(q) \in Elems(q) /\ Head(q) \in S
         /\ Tail(q) \in Seq(S) /\ Elems(Tail(q)) \subseteq Elems(q)
  BY HeadTailProperties DEF Elems

\* sendall and write add at the end.
LEMMA ElemsAppend ==
  ASSUME NEW S, NEW q \in Seq(S), NEW e \in S
  PROVE  Append(q, e) \in Seq(S) /\ Elems(Append(q, e)) = Elems(q) \cup {e}
  BY AppendProperties DEF Elems

\* The same for the one line of a request, and for the two parts of a long one.
LEMMA ElemsSentOne ==
  ASSUME NEW S, NEW q \in Seq(S), NEW d \in S
  PROVE  q \o <<d>> \in Seq(S) /\ Elems(q \o <<d>>) = Elems(q) \cup {d}
  <1>1. q \o <<d>> = Append(q, d)
    BY AppendIsConcat
  <1>2. Append(q, d) \in Seq(S) /\ Elems(Append(q, d)) = Elems(q) \cup {d}
    BY ElemsAppend
  <1>3. QED
    BY <1>1, <1>2, Zenon

\* The elements of a stream after two more lines.
LEMMA ElemsSentTwo ==
  ASSUME NEW S, NEW q \in Seq(S), NEW d \in S, NEW e \in S
  PROVE  q \o <<d, e>> \in Seq(S) /\ Elems(q \o <<d, e>>) = Elems(q) \cup {d, e}
  BY DEF Elems

-----------------------------------------------------------------------------
(* Type correctness.                                                       *)

\* A session may make two calls beyond MaxCalls, the shutdown request and the log
\* of its acknowledgement, one of each.
CallsLeft ==
    /\ call <= MaxCalls + 2 * session
    /\ pc \notin {"acklog", "off"} => call + 1 <= MaxCalls + 2 * session
    /\ pc \notin {"acklog", "off", "shutdown", "acked"} => call + 2 <= MaxCalls + 2 * session

\* TypeOK is not inductive: a counter stays in its range only because a session
\* shuts down once and a step fails once.
TInv ==
    /\ TypeOK
    /\ pc # "off" => session >= 1
    /\ spc \in {"fgets", "wait"} => conn >= 1
    /\ id <= call
    /\ CallsLeft
    /\ pc \in {"body", "cmd", "bodylog"} => failed < steps

\* What the types say about the numbers of a running client.
LEMMA Typed ==
  ASSUME TInv
  PROVE  /\ MaxCalls \in Nat /\ MaxSteps \in Nat /\ MaxSessions \in Nat /\ MaxSessions >= 1
         /\ call \in Nat /\ id \in Nat /\ id <= call /\ session \in Nat /\ session <= MaxSessions
         /\ steps \in Nat /\ steps <= MaxSteps /\ failed \in Nat /\ failed <= steps
         /\ failed \in Verdicts
         /\ pc # "off" => session \in Sessions
  <1>1. /\ MaxCalls \in Nat /\ MaxSteps \in Nat /\ MaxSessions \in Nat /\ MaxSessions >= 1
    BY BridgeAssumption
  <1>2. /\ call \in Nat /\ id \in Nat /\ id <= call
    BY <1>1 DEF TInv, TypeOK, Calls
  <1>3. /\ session \in Nat /\ session <= MaxSessions /\ (pc # "off" => session \in Sessions)
    BY <1>1 DEF TInv, TypeOK, Sessions
  <1>4. steps \in Nat /\ steps <= MaxSteps /\ failed \in Nat /\ failed <= steps /\ failed \in Verdicts
    BY <1>1 DEF TInv, TypeOK, Verdicts
  <1>5. QED
    BY <1>1, <1>2, <1>3, <1>4

\* A process that has counted fewer calls than its bound sends well-typed lines.
LEMMA SentTyped ==
  ASSUME TInv, pc # "off", call < MaxCalls + 2 * session,
         NEW op \in {"cmd", "log", "shutdown"}, NEW data \in Verdicts, NEW long \in BOOLEAN,
         NEW waits, NEW fails, Transact(op, data, long, waits, fails)
  PROVE  /\ call + 1 \in Calls /\ id + 1 \in Calls
         /\ c2s' \in [Sessions -> Seq(Lines)]
  <1>1. /\ call \in Nat /\ id \in Nat /\ id <= call /\ session \in Sessions /\ failed \in Verdicts
        /\ MaxCalls \in Nat /\ MaxSessions \in Nat /\ session <= MaxSessions
    BY Typed
  <1>2. call + 1 \in Calls /\ id + 1 \in Calls
    BY <1>1 DEF Calls, Sessions
  <1> DEFINE whole == [op |-> op, id |-> id + 1, call |-> call + 1, data |-> data, truth |-> failed]
             front == [whole EXCEPT !.id = -1]
             back == [whole EXCEPT !.op = "unknown"]
  <1>3. whole \in Lines /\ front \in Lines /\ back \in Lines
    BY <1>1, <1>2 DEF Lines
  <1>4. LinesOf(op, data, long) = IF long THEN <<front, back>> ELSE <<whole>>
    BY DEF LinesOf
  <1> HIDE DEF whole, front, back
  <1>5. c2s \in [Sessions -> Seq(Lines)] /\ c2s[session] \in Seq(Lines)
    BY <1>1 DEF TInv, TypeOK
  <1>6. c2s[session] \o LinesOf(op, data, long) \in Seq(Lines)
    BY <1>3, <1>4, <1>5, ElemsSentOne, ElemsSentTwo
  <1>7. c2s' \in [Sessions -> Seq(Lines)]
    BY <1>1, <1>5, <1>6 DEF Transact
  <1>8. QED
    BY <1>2, <1>7

\* A readline takes one reply from the stream.
LEMMA ReadTyped ==
  ASSUME TInv, pc # "off", NEW good, Readline(good)
  PROVE  s2c' \in [Sessions -> Seq(Replies)]
  <1>1. session \in Sessions /\ s2c \in [Sessions -> Seq(Replies)]
    BY Typed DEF TInv, TypeOK
  <1>2. Tail(s2c[session]) \in Seq(Replies)
    BY <1>1, ElemsTail DEF Readline
  <1>3. QED
    BY <1>1, <1>2 DEF Readline

USE DEF Awaiting

Places == {"off", "print", "ready", "body", "cmd", "log", "bodylog", "quit", "shutdown",
           "acked", "acklog"}

\* The part of TInv about the client's own counters.
ClientTyped ==
    /\ pc \in Places /\ session \in Nat /\ id \in Nat /\ call \in Nat
    /\ steps \in Nat /\ failed \in Nat /\ conn \in Nat
    /\ session <= MaxSessions /\ steps <= MaxSteps /\ failed <= steps /\ conn <= session
    /\ pc # "off" => session >= 1
    /\ id <= call
    /\ CallsLeft
    /\ pc \in {"body", "cmd", "bodylog"} => failed < steps

\* TInv, as the steps of a client use it.
LEMMA TInvClient == ASSUME TInv
  PROVE  ClientTyped /\ call \in Calls /\ returned \in Calls /\ broken \in BOOLEAN
  <1>1. conn \in Nat /\ conn <= session
    BY Typed DEF TInv, TypeOK
  <1>2. pc \in Places /\ broken \in BOOLEAN
    BY DEF TInv, TypeOK, Places
  <1>3. QED
    BY <1>1, <1>2, Typed DEF TInv, TypeOK, ClientTyped

\* The steps of a client.
LEMMA ClientTInv ==
  ASSUME TInv, UNCHANGED <<server, mailbox, simulator>>, ClientTyped', returned' \in Calls,
         broken' \in BOOLEAN,
         c2s' \in [Sessions -> Seq(Lines)], s2c' \in [Sessions -> Seq(Replies)]
  PROVE  TInv'
  <1>1. /\ call' \in Nat /\ id' \in Nat /\ id' <= call' /\ session' \in Nat /\ session' <= MaxSessions
        /\ call' <= MaxCalls + 2 * session' /\ MaxCalls \in Nat /\ MaxSessions \in Nat
    BY BridgeAssumption DEF ClientTyped, CallsLeft
  <1>range. \A c, i, n \in Nat : i <= c /\ n <= MaxSessions /\ c <= MaxCalls + 2 * n
                                 => c \in Calls /\ i \in Calls
    BY <1>1 DEF Calls
  <1>2. call' \in Calls /\ id' \in Calls
    BY <1>1, <1>range
  <1>3. session' \in 0 .. MaxSessions /\ steps' \in 0 .. MaxSteps /\ failed' \in 0 .. steps'
        /\ conn' \in 0 .. session'
    BY BridgeAssumption DEF ClientTyped
  <1>4. QED
    BY <1>2, <1>3 DEF TInv, TypeOK, ClientTyped, Places, server, mailbox, simulator

\* The steps that neither send nor receive.
LEMMA QuietTInv ==
  ASSUME TInv,
         \/ Connect \/ StartStep \/ PrintDone \/ Interrupt \/ Crash
         \/ StepEnds(TRUE) \/ StepEnds(FALSE) \/ ReadFails(TRUE) \/ ReadFails(FALSE)
  PROVE  TInv'
  <1>1. UNCHANGED <<c2s, s2c, server, mailbox, simulator>>
    BY DEF Connect, StartStep, PrintDone, Interrupt, Crash, StepEnds, ReadFails
  <1>2. ClientTyped /\ returned \in Calls /\ MaxCalls \in Nat /\ MaxSteps \in Nat /\ MaxSessions \in Nat
    BY TInvClient, BridgeAssumption
  <1>3. ClientTyped'
    <2>1. CASE Connect
      BY <2>1, <1>2 DEF Connect, ClientTyped, Places, CallsLeft, server
    <2>2. CASE StartStep
      BY <2>2, <1>2 DEF StartStep, ClientTyped, Places, CallsLeft, server
    <2>3. CASE PrintDone
      BY <2>3, <1>2 DEF PrintDone, ClientTyped, Places, CallsLeft, server
    <2>4. CASE Interrupt
      BY <2>4, <1>2 DEF Interrupt, ClientTyped, Places, CallsLeft, server
    <2>5. CASE Crash
      BY <2>5, <1>2 DEF Crash, ClientTyped, Places, CallsLeft, server
    <2>6. ASSUME NEW b \in BOOLEAN, StepEnds(b) PROVE ClientTyped'
      BY <2>6, <1>2 DEF StepEnds, ClientTyped, Places, CallsLeft, server
    <2>7. ASSUME NEW b \in BOOLEAN, ReadFails(b) PROVE ClientTyped'
      BY <2>7, <1>2 DEF ReadFails, AfterFailure, ClientTyped, Places, CallsLeft, server
    <2>8. QED
      BY <2>1, <2>2, <2>3, <2>4, <2>5, <2>6, <2>7
  <1>4. returned' \in Calls
    BY <1>2 DEF Connect, StartStep, PrintDone, Interrupt, Crash, StepEnds, ReadFails
  <1>5. broken' \in BOOLEAN
    BY TInvClient DEF Connect, StartStep, PrintDone, Interrupt, Crash, StepEnds, ReadFails
  <1>6. QED
    BY <1>1, <1>3, <1>4, <1>5, ClientTInv DEF TInv, TypeOK

\* The steps that read a line.
LEMMA ReadTInv ==
  ASSUME TInv, NEW b \in BOOLEAN, StepReply(b) \/ LogReply(b) \/ ShutdownReply \/ LogAckReply(b)
  PROVE  TInv'
  <1>1. UNCHANGED <<c2s, server, mailbox, simulator>>
    BY DEF StepReply, LogReply, ShutdownReply, LogAckReply
  <1>2. ClientTyped /\ call \in Calls /\ returned \in Calls
    BY TInvClient
  <1>3. \E good : Readline(good)
    BY DEF StepReply, LogReply, ShutdownReply, LogAckReply
  <1>4. s2c' \in [Sessions -> Seq(Replies)]
    BY <1>3, ReadTyped DEF StepReply, LogReply, ShutdownReply, LogAckReply
  <1>5. ClientTyped'
    <2>1. CASE StepReply(b)
      BY <2>1, <1>2 DEF StepReply, ClientTyped, Places, CallsLeft, server
    <2>2. CASE LogReply(b)
      BY <2>2, <1>2 DEF LogReply, ClientTyped, Places, CallsLeft, server
    <2>3. CASE ShutdownReply \/ LogAckReply(b)
      BY <2>3, <1>2 DEF ShutdownReply, LogAckReply, ClientTyped, Places, CallsLeft, server
    <2>4. QED
      BY <2>1, <2>2, <2>3
  <1>6. returned' \in Calls /\ broken' \in BOOLEAN
    BY <1>2, TInvClient DEF StepReply, LogReply, ShutdownReply, LogAckReply
  <1>7. QED
    BY <1>1, <1>4, <1>5, <1>6, ClientTInv DEF TInv, TypeOK

\* The steps that send a request.
LEMMA SendTInv ==
  ASSUME TInv, NEW b \in BOOLEAN, StepCall \/ PrintLine(b) \/ Disconnect \/ LogAck
  PROVE  TInv'
  <1>1. UNCHANGED <<session, broken, steps, returned, s2c, server, mailbox, simulator>>
    BY DEF StepCall, PrintLine, Disconnect, LogAck
  <1>2. /\ ClientTyped /\ returned \in Calls /\ MaxCalls \in Nat /\ 0 \in Verdicts
        /\ failed \in Verdicts
    BY TInvClient, BridgeAssumption, Typed DEF Verdicts
  <1>issuing. pc \notin {"off", "acklog"}
    BY DEF StepCall, PrintLine, Disconnect, LogAck
  <1>3. pc # "off" /\ call < MaxCalls + 2 * session
    BY <1>2, <1>issuing DEF ClientTyped, CallsLeft
  <1>4. \E op \in {"cmd", "log", "shutdown"}, data \in Verdicts, long \in BOOLEAN :
            \E waits, fails : Transact(op, data, long, waits, fails)
    <2>1. CASE StepCall
      BY <1>2, <2>1, Transact("cmd", 0, FALSE, "cmd", "print") DEF StepCall
    <2>2. CASE PrintLine(b)
      BY <1>2, <2>2, Zenon DEF PrintLine
    <2>3. CASE Disconnect
      <3>1. (IF pc = "ready" THEN failed ELSE 0) \in Verdicts
        BY <1>2
      <3>2. QED
        BY <3>1, <2>3, Zenon DEF Disconnect
    <2>4. CASE LogAck
      BY <1>2, <2>4, Transact("log", 0, FALSE, "acklog", "off") DEF LogAck
    <2>5. QED
      BY <2>1, <2>2, <2>3, <2>4
  <1>5. /\ call + 1 \in Calls /\ id + 1 \in Calls /\ c2s' \in [Sessions -> Seq(Lines)]
        /\ call' = call + 1 /\ id' = id + 1
    BY <1>3, <1>4, SentTyped DEF Transact
  <1>6. ClientTyped'
    <2>1. CASE StepCall
      BY <2>1, <1>1, <1>2, <1>5 DEF StepCall, Transact, ClientTyped, Places, CallsLeft, server
    <2>2. CASE PrintLine(b)
      BY <2>2, <1>1, <1>2, <1>5 DEF PrintLine, Transact, ClientTyped, Places, CallsLeft, server
    <2>3. CASE Disconnect
      BY <2>3, <1>1, <1>2, <1>5 DEF Disconnect, Transact, ClientTyped, Places, CallsLeft, server
    <2>4. CASE LogAck
      BY <2>4, <1>1, <1>2, <1>5 DEF LogAck, Transact, ClientTyped, Places, CallsLeft, server
    <2>5. QED
      BY <2>1, <2>2, <2>3, <2>4
  <1>7. returned' \in Calls /\ broken' \in BOOLEAN
    BY <1>1, <1>2, TInvClient
  <1>8. QED
    BY <1>1, <1>5, <1>6, <1>7, ClientTInv DEF TInv, TypeOK

\* The steps of the server thread.
LEMMA ServerTInv == ASSUME TInv, ServerStep PROVE TInv'
  <1>1. CASE Accept \/ ThreadExit \/ ClientGone
    <2>1. conn \in Nat /\ session \in Nat /\ conn \in 0 .. session
      BY TInvClient DEF ClientTyped
    <2>2. conn' \in 0 .. session /\ (spc' \in {"fgets", "wait"} => conn' >= 1)
      BY <1>1, <2>1 DEF Accept, ThreadExit, ClientGone, TInv
    <2>3. spc' \in {"accept", "fgets", "wait", "exit"}
      BY <1>1 DEF Accept, ThreadExit, ClientGone
    <2>4. UNCHANGED <<client, c2s, s2c, line, mailbox, simulator>>
      BY <1>1 DEF Accept, ThreadExit, ClientGone
    <2>5. QED
      BY <2>2, <2>3, <2>4 DEF TInv, TypeOK, CallsLeft, client, mailbox, simulator
  <1>2. conn >= 1 => conn \in Sessions /\ c2s[conn] \in Seq(Lines) /\ s2c[conn] \in Seq(Replies)
    <2>1. conn >= 1 => conn \in Sessions
      BY TInvClient, BridgeAssumption DEF ClientTyped, Sessions
    <2>2. QED
      BY <2>1 DEF TInv, TypeOK
  <1>3. CASE PostRequest
    <2>1. Head(c2s[conn]) \in Lines /\ Tail(c2s[conn]) \in Seq(Lines)
      BY <1>2, <1>3, ElemsTail DEF PostRequest, TInv
    <2>2. c2s' \in [Sessions -> Seq(Lines)]
      BY <1>2, <1>3, <2>1 DEF PostRequest, TInv, TypeOK
    <2>3. TypeOK'
      BY <1>3, <2>1, <2>2 DEF PostRequest, TInv, TypeOK, client, simulator
    <2>4. QED
      BY <1>3, <2>3 DEF PostRequest, TInv, CallsLeft, client
  <1>4. CASE RejectRequest
    <2> DEFINE l == Head(c2s[conn])
               r == [id |-> l.id, ok |-> FALSE, call |-> l.call]
    <2>1. l \in Lines /\ Tail(c2s[conn]) \in Seq(Lines)
      BY <1>2, <1>4, ElemsTail DEF RejectRequest, TInv
    <2>2. r \in Replies
      BY <2>1 DEF Lines, Replies
    <2>3. Append(s2c[conn], r) \in Seq(Replies)
      BY <1>2, <1>4, <2>2, ElemsAppend DEF RejectRequest, TInv
    <2>4. c2s' \in [Sessions -> Seq(Lines)] /\ s2c' \in [Sessions -> Seq(Replies)]
      BY <1>2, <1>4, <2>1, <2>3 DEF RejectRequest, Send, TInv, TypeOK
    <2>5. QED
      BY <1>4, <2>4 DEF RejectRequest, TInv, TypeOK, CallsLeft, client, server, mailbox, simulator
  <1>5. CASE SendResponse
    <2> DEFINE r == [id |-> line.id, ok |-> TRUE, call |-> rsp]
    <2>1. r \in Replies
      BY DEF Lines, Replies, TInv, TypeOK
    <2>2. Append(s2c[conn], r) \in Seq(Replies)
      BY <1>2, <1>5, <2>1, ElemsAppend DEF SendResponse, TInv
    <2>3. s2c' \in [Sessions -> Seq(Replies)]
      BY <1>2, <1>5, <2>2 DEF SendResponse, Send, TInv, TypeOK
    <2>4. QED
      BY <1>5, <2>3 DEF SendResponse, TInv, TypeOK, CallsLeft, client, mailbox, simulator
  <1>6. CASE BrokenPipe
    BY <1>6 DEF BrokenPipe, TInv, TypeOK, CallsLeft, client, server, mailbox
  <1>7. QED
    BY <1>1, <1>3, <1>4, <1>5, <1>6 DEF ServerStep

\* The steps of the simulator.
LEMMA SimTInv == ASSUME TInv, SimStep PROVE TInv'
  <1>1. vreq.call \in Calls /\ vreq.data \in Verdicts /\ vreq.truth \in Verdicts
    BY DEF TInv, TypeOK, Lines
  <1>2. Append(performed, vreq.call) \in Seq(Calls)
    BY <1>1, ElemsAppend DEF TInv, TypeOK
  <1>3. UNCHANGED <<client, c2s, s2c, server>>
    BY DEF SimStep, GetReq, Perform, PutRsp, BridgeStop, SimExit
  <1>4. TypeOK' => TInv'
    BY <1>3 DEF TInv, CallsLeft, client, server
  <1>5. TypeOK
    BY DEF TInv
  <1>6. CASE Perform
    BY <1>1, <1>2, <1>3, <1>4, <1>5, <1>6 DEF Perform, TypeOK, client, server, mailbox
  <1>7. CASE GetReq
    BY <1>3, <1>4, <1>5, <1>7 DEF GetReq, TypeOK, client, server
  <1>8. CASE PutRsp
    BY <1>1, <1>3, <1>4, <1>5, <1>8 DEF PutRsp, TypeOK, client, server
  <1>9. CASE BridgeStop
    BY <1>3, <1>4, <1>5, <1>9 DEF BridgeStop, TypeOK, client, server, mailbox
  <1>10. CASE SimExit
    BY <1>3, <1>4, <1>5, <1>10 DEF SimExit, TypeOK, client, server, mailbox
  <1>11. QED
    BY <1>6, <1>7, <1>8, <1>9, <1>10 DEF SimStep

\* TInv is inductive.
LEMMA NextTInv == ASSUME TInv, [Next]_vars PROVE TInv'
  <1>1. CASE UNCHANGED vars
    BY <1>1 DEF vars, client, server, mailbox, simulator, TInv, TypeOK, CallsLeft
  <1>2. CASE Next
    BY <1>1, <1>2, QuietTInv, ReadTInv, SendTInv, ServerTInv, SimTInv
       DEF Next, ClientStep, Quiescent
  <1>3. QED
    BY <1>1, <1>2

\* The initial state.
LEMMA InitTInv == ASSUME Init PROVE TInv
  <1>1. NoLine \in Lines /\ 0 \in Calls /\ 0 \in Verdicts
    BY BridgeAssumption DEF NoLine, Lines, Calls, Verdicts
  <1>2. <<>> \in Seq(Lines) /\ <<>> \in Seq(Replies) /\ <<>> \in Seq(Calls)
    OBVIOUS
  <1>3. NotTold \in [data : Verdicts, truth : {-1} \cup Verdicts]
    BY <1>1 DEF NotTold
  <1>4. c2s \in [Sessions -> Seq(Lines)] /\ s2c \in [Sessions -> Seq(Replies)]
    BY <1>2 DEF Init
  <1>range. /\ session \in 0 .. MaxSessions /\ id \in Calls /\ call \in Calls /\ returned \in Calls
            /\ steps \in 0 .. MaxSteps /\ failed \in 0 .. steps /\ conn \in 0 .. session /\ rsp \in Calls
    BY <1>1, BridgeAssumption DEF Init
  <1>5. TypeOK
    BY <1>1, <1>2, <1>3, <1>4, <1>range DEF Init, TypeOK
  <1>6. QED
    BY <1>5, BridgeAssumption DEF Init, TInv, CallsLeft

\* The type invariant holds in every state, for every bound on calls, steps and
\* sessions: no counter leaves its range and every stream holds whole lines.
THEOREM TypeCorrect == Spec => []TypeOK
  <1>1. TInv => TypeOK
    BY DEF TInv
  <1>2. QED
    BY <1>1, InitTInv, NextTInv, PTL DEF Spec
=============================================================================
