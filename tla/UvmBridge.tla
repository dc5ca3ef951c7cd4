------------------------------ MODULE UvmBridge ------------------------------
(***************************************************************************)
(* The channel between a Python debug session and the UVM simulation:      *)
(*   - the client process: DebugSession steps calling UVMTransport, its    *)
(*     output forwarded as log requests, the verdict sent at shutdown;     *)
(*   - one Unix-socket connection per client, two streams of lines;        *)
(*   - uvm_bridge.c's server thread and its one-place mailbox, which it    *)
(*     shares under g_mutex with the simulator;                            *)
(*   - python_bridge::serve, the simulator's command loop.                 *)
(* A request line is abstracted to its op class, and carries the number of *)
(* the call it belongs to, which no code sees.                             *)
(***************************************************************************)
EXTENDS Integers, Sequences

CONSTANTS
    MaxCalls,    \* bound: calls after which the clients only shut down
    MaxSteps,    \* bound: steps of a session
    MaxSessions, \* bound: client processes, one after another
    StopOnError, \* DebugSession.stop_on_error
    Timeouts,    \* a readline may time out
    Crashes,     \* a client process may die without disconnecting
    Interrupts,  \* a client may be interrupted (Ctrl-C, or "q" at the prompt)
    LongLines,   \* the clients whose log lines may exceed RECV_BUF_SZ
    DebugLevel   \* --log-level DEBUG: the shutdown ack is itself logged

ASSUME BridgeAssumption ==
    /\ MaxCalls \in Nat /\ MaxSteps \in Nat /\ MaxSessions \in Nat \ {0}
    /\ {StopOnError, Timeouts, Crashes, Interrupts, DebugLevel} \subseteq BOOLEAN
    /\ LongLines \subseteq Nat

VARIABLES
    pc,        \* where the client is
    session,   \* number of the current client process, 0 before the first
    id,        \* UVMTransport._id_counter
    call,      \* calls issued so far, by all clients
    broken,    \* a read timed out: the reader refuses every later read
    steps, failed,  \* steps run, steps failed
    returned,  \* the last call that returned normally
    c2s, s2c,  \* the two streams of every connection
    spc, conn, line,             \* server thread, its connection and request
    req_valid, req,              \* the mailbox, request side
    rsp_valid, rsp,              \* the mailbox, response side
    vpc, vreq,                   \* serve, and the request it works on
    g_shutdown,
    performed,                   \* the calls the simulator has performed, in order
    told                         \* the verdict the simulator was told

client == <<pc, session, id, call, broken, steps, failed, returned>>
server == <<spc, conn, line>>
mailbox == <<req_valid, req, rsp_valid, rsp>>
simulator == <<vpc, vreq, g_shutdown, performed, told>>
vars == <<client, c2s, s2c, server, mailbox, simulator>>

Sessions == 1 .. MaxSessions
Calls == 0 .. MaxCalls + 2 * MaxSessions
Verdicts == 0 .. MaxSteps

\* "cmd" stands for read, write, reset, dtmcs, dmi_scan, jtag_scan, tms_walk
\* and sim_time, which the server treats alike; "unknown" for every other op.
\* data is the verdict of a shutdown, truth what it should be.
Lines == [op : {"cmd", "log", "shutdown", "unknown"}, id : {-1} \cup Calls,
          call : Calls, data : Verdicts, truth : Verdicts]

Replies == [id : {-1} \cup Calls, ok : BOOLEAN, call : Calls]

NoLine == [op |-> "unknown", id |-> -1, call |-> 0, data |-> 0, truth |-> 0]
NotTold == [data |-> 0, truth |-> -1]

\* The client waits in readline.
Awaiting == pc \in {"cmd", "log", "bodylog", "shutdown", "acklog"}

Exited == vpc = "exited"

\* The server's end of the client's connection is closed.
HungUp == Exited \/ (spc = "exit" /\ conn < session)

-----------------------------------------------------------------------------
Init ==
    /\ pc = "off" /\ session = 0 /\ id = 0 /\ call = 0 /\ broken = FALSE
    /\ steps = 0 /\ failed = 0 /\ returned = 0
    /\ c2s = [s \in Sessions |-> <<>>]
    /\ s2c = [s \in Sessions |-> <<>>]
    /\ spc = "accept" /\ conn = 0 /\ line = NoLine
    /\ req_valid = FALSE /\ req = NoLine /\ rsp_valid = FALSE /\ rsp = 0
    /\ vpc = "poll" /\ vreq = NoLine /\ g_shutdown = FALSE
    /\ performed = <<>> /\ told = NotTold

(***************************************************************************)
(* The client.                                                             *)
(***************************************************************************)

\* connect: the listening socket must still be there.
Connect ==
    /\ pc = "off" /\ session < MaxSessions /\ ~g_shutdown /\ ~Exited
    /\ session' = session + 1
    /\ pc' = "print" /\ id' = 0 /\ broken' = FALSE /\ steps' = 0 /\ failed' = 0
    /\ UNCHANGED <<call, returned, c2s, s2c, server, mailbox, simulator>>

\* The lines the server reads for one request.  fgets cuts a log request longer
\* than its buffer in two: the first part has lost the id, the second the op.
LinesOf(op, data, long) ==
    LET whole == [op |-> op, id |-> id + 1, call |-> call + 1,
                  data |-> data, truth |-> failed]
    IN  IF long THEN <<[whole EXCEPT !.id = -1], [whole EXCEPT !.op = "unknown"]>>
                ELSE <<whole>>

\* sendall, then readline.  A reader that has timed out raises at once, after the
\* request is sent; with the simulator gone sendall itself raises.
Transact(op, data, long, waits, fails) ==
    /\ id' = id + 1
    /\ call' = call + 1
    /\ c2s' = IF Exited THEN c2s
              ELSE [c2s EXCEPT ![session] = @ \o LinesOf(op, data, long)]
    /\ pc' = IF broken \/ Exited THEN fails ELSE waits

\* readline returns a line: it is the reply when its id is the request's.
Matches(r) == r.id = id

Readline(good) ==
    /\ s2c[session] # <<>>
    /\ LET r == Head(s2c[session]) IN good <=> (Matches(r) /\ r.ok)
    /\ s2c' = [s2c EXCEPT ![session] = Tail(@)]

\* readline returns "": the peer has closed and nothing is left to read.
ReadEof == s2c[session] = <<>> /\ HungUp

StartStep ==
    /\ pc = "ready" /\ steps < MaxSteps /\ ~(StopOnError /\ failed > 0)
    /\ steps' = steps + 1
    /\ pc' = "body"
    /\ UNCHANGED <<session, id, call, broken, failed, returned, c2s, s2c,
                   server, mailbox, simulator>>

\* A transport call inside a step; a TransportError ends the step as failed.
StepCall ==
    /\ pc = "body" /\ call < MaxCalls
    /\ Transact("cmd", 0, FALSE, "cmd", "print")
    /\ failed' = IF pc' = "print" THEN failed + 1 ELSE failed
    /\ UNCHANGED <<session, broken, steps, returned, s2c, server, mailbox, simulator>>

StepReply(good) ==
    /\ pc = "cmd"
    /\ Readline(good)
    /\ pc' = IF good THEN "body" ELSE "print"
    /\ returned' = IF good THEN call ELSE returned
    /\ failed' = IF good THEN failed ELSE failed + 1
    /\ UNCHANGED <<session, id, call, broken, steps, c2s, server, mailbox, simulator>>

\* The step's own checks decide; its output lines follow.
StepEnds(ok) ==
    /\ pc = "body"
    /\ pc' = "print"
    /\ failed' = IF ok THEN failed ELSE failed + 1
    /\ UNCHANGED <<session, id, call, broken, steps, returned, c2s, s2c,
                   server, mailbox, simulator>>

\* A line of output after a step, or a log record from inside it.  emit_log
\* swallows every exception: the step, or the printing, goes on.
PrintLine(long) ==
    /\ pc \in {"print", "body"} /\ call < MaxCalls /\ (long => session \in LongLines)
    /\ Transact("log", 0, long, IF pc = "body" THEN "bodylog" ELSE "log", pc)
    /\ UNCHANGED <<session, broken, steps, failed, returned, s2c, server, mailbox, simulator>>

LogReply(good) ==
    /\ pc \in {"log", "bodylog"}
    /\ Readline(good)
    /\ pc' = IF pc = "bodylog" THEN "body" ELSE "print"
    /\ returned' = IF good THEN call ELSE returned
    /\ UNCHANGED <<session, id, call, broken, steps, failed, c2s, server, mailbox, simulator>>

PrintDone ==
    /\ pc = "print"
    /\ pc' = "ready"
    /\ UNCHANGED <<session, id, call, broken, steps, failed, returned, c2s, s2c,
                   server, mailbox, simulator>>

\* A KeyboardInterrupt is no Exception: it leaves the session, the call in
\* flight included, and set_session_result is never reached.
Interrupt ==
    /\ Interrupts /\ pc \in {"ready", "body", "print", "cmd", "log", "bodylog"}
    /\ pc' = "quit"
    /\ UNCHANGED <<session, id, call, broken, steps, failed, returned, c2s, s2c,
                   server, mailbox, simulator>>

\* cmd_run after session.run(), or the way out of an interrupt, then disconnect:
\* the shutdown request carries the verdict, 0 when none was set.
Disconnect ==
    /\ pc \in {"ready", "quit"}
    /\ Transact("shutdown", IF pc = "ready" THEN failed ELSE 0, FALSE, "shutdown",
                IF DebugLevel THEN "acked" ELSE "off")
    /\ UNCHANGED <<session, broken, steps, failed, returned, s2c, server, mailbox, simulator>>

\* _send_shutdown takes whatever line comes first for its ack; nothing is checked.
ShutdownReply ==
    /\ pc = "shutdown"
    /\ Readline(Matches(Head(s2c[session])) /\ Head(s2c[session]).ok)
    /\ pc' = IF DebugLevel THEN "acked" ELSE "off"
    /\ UNCHANGED <<session, id, call, broken, steps, failed, returned, c2s,
                   server, mailbox, simulator>>

\* The debug record about the shutdown is forwarded like any other one: a log
\* request on a connection whose server has nobody left to print it.
LogAck ==
    /\ pc = "acked"
    /\ Transact("log", 0, FALSE, "acklog", "off")
    /\ UNCHANGED <<session, broken, steps, failed, returned, s2c, server, mailbox, simulator>>

LogAckReply(good) ==
    /\ pc = "acklog"
    /\ Readline(good)
    /\ pc' = "off"
    /\ UNCHANGED <<session, id, call, broken, steps, failed, returned, c2s,
                   server, mailbox, simulator>>

\* Where a failed readline leaves the client.
AfterFailure ==
    IF pc \in {"cmd", "log"} THEN "print"
    ELSE IF pc = "bodylog" THEN "body"
    ELSE IF pc = "shutdown" /\ DebugLevel THEN "acked" ELSE "off"

\* Mutant of ReadFails: the reader can be used again after a timeout.
TimeoutForgotten(timeout) ==
    /\ Awaiting
    /\ IF timeout THEN Timeouts /\ s2c[session] = <<>> /\ ~HungUp ELSE ReadEof
    /\ failed' = IF pc = "cmd" THEN failed + 1 ELSE failed
    /\ pc' = IF pc = "shutdown" /\ ~timeout THEN "off" ELSE AfterFailure
    /\ UNCHANGED <<broken, session, id, call, steps, returned, c2s, s2c, server, mailbox,
                   simulator>>

ReadFails(timeout) ==
    /\ Awaiting
    /\ IF timeout THEN Timeouts /\ s2c[session] = <<>> /\ ~HungUp ELSE ReadEof
    /\ broken' = (broken \/ timeout)
    /\ failed' = IF pc = "cmd" THEN failed + 1 ELSE failed
    \* an EOF at shutdown is no exception: there is nothing to log
    /\ pc' = IF pc = "shutdown" /\ ~timeout THEN "off" ELSE AfterFailure
    /\ UNCHANGED <<session, id, call, steps, returned, c2s, s2c, server, mailbox, simulator>>

\* The client process is killed: the kernel closes its end.
Crash ==
    /\ Crashes /\ pc # "off"
    /\ pc' = "off"
    /\ UNCHANGED <<session, id, call, broken, steps, failed, returned, c2s, s2c,
                   server, mailbox, simulator>>

(***************************************************************************)
(* The server thread of uvm_bridge.c.                                      *)
(***************************************************************************)
Accept ==
    /\ ~Exited /\ spc = "accept" /\ ~g_shutdown /\ conn < session
    /\ conn' = conn + 1
    /\ spc' = "fgets"
    /\ UNCHANGED <<client, c2s, s2c, line, mailbox, simulator>>

ThreadExit ==
    /\ ~Exited /\ spc = "accept" /\ g_shutdown
    /\ spc' = "exit"
    /\ UNCHANGED <<client, c2s, s2c, conn, line, mailbox, simulator>>

ClientOpen(s) == s = session /\ pc # "off"

\* fgets returns NULL once the client has closed and every line was read.
ClientGone ==
    /\ ~Exited /\ spc = "fgets" /\ c2s[conn] = <<>> /\ ~ClientOpen(conn)
    /\ spc' = "accept"
    /\ UNCHANGED <<client, c2s, s2c, conn, line, mailbox, simulator>>

\* Mutant of PostRequest: the last response is not dropped.
PostKeepsResponse ==
    /\ ~Exited /\ spc = "fgets" /\ c2s[conn] # <<>>
    /\ Head(c2s[conn]).op # "unknown"
    /\ c2s' = [c2s EXCEPT ![conn] = Tail(@)]
    /\ line' = Head(c2s[conn])
    /\ req' = Head(c2s[conn])
    /\ req_valid' = TRUE
    /\ spc' = "wait"
    /\ UNCHANGED <<client, s2c, conn, rsp_valid, rsp, simulator>>

\* handle_request up to its wait: post the request, drop the last response.
PostRequest ==
    /\ ~Exited /\ spc = "fgets" /\ c2s[conn] # <<>>
    /\ Head(c2s[conn]).op # "unknown"
    /\ c2s' = [c2s EXCEPT ![conn] = Tail(@)]
    /\ line' = Head(c2s[conn])
    /\ req' = Head(c2s[conn])
    /\ req_valid' = TRUE
    /\ rsp_valid' = FALSE
    /\ spc' = "wait"
    /\ UNCHANGED <<client, s2c, conn, rsp, simulator>>

\* send_response: a write to a closed connection is reported and dropped, in a
\* simulator that ignores SIGPIPE (see BrokenPipe).
Send(r) == s2c' = IF ClientOpen(conn) THEN [s2c EXCEPT ![conn] = Append(@, r)] ELSE s2c

RejectRequest ==
    /\ ~Exited /\ spc = "fgets" /\ c2s[conn] # <<>>
    /\ Head(c2s[conn]).op = "unknown"
    /\ c2s' = [c2s EXCEPT ![conn] = Tail(@)]
    /\ LET l == Head(c2s[conn]) IN Send([id |-> l.id, ok |-> FALSE, call |-> l.call])
    /\ UNCHANGED <<client, server, mailbox, simulator>>

\* The wait ends: the response goes out under the id of the request read.
SendResponse ==
    /\ ~Exited /\ spc = "wait" /\ rsp_valid
    /\ Send([id |-> line.id, ok |-> TRUE, call |-> rsp])
    /\ spc' = "fgets"
    /\ UNCHANGED <<client, c2s, conn, line, mailbox, simulator>>

\* The same write in a simulator that does not: uvm_bridge.c installs no handler,
\* and the signal ends the process, the reply unsent.
BrokenPipe ==
    /\ ~Exited /\ ~ClientOpen(conn)
    /\ \/ spc = "wait" /\ rsp_valid
       \/ spc = "fgets" /\ c2s[conn] # <<>> /\ Head(c2s[conn]).op = "unknown"
    /\ vpc' = "exited"
    /\ UNCHANGED <<client, c2s, s2c, server, mailbox, vreq, g_shutdown, performed, told>>

(***************************************************************************)
(* The simulator: python_bridge::serve and the DPI functions it calls.     *)
(***************************************************************************)
\* Mutant of GetReq: the request is left in the mailbox.
GetReqKeeps ==
    /\ vpc = "poll" /\ req_valid
    /\ vreq' = req
    /\ vpc' = "perform"
    /\ UNCHANGED <<client, c2s, s2c, server, req_valid, req, rsp_valid, rsp, g_shutdown,
                   performed, told>>

GetReq ==
    /\ vpc = "poll" /\ req_valid
    /\ vreq' = req
    /\ req_valid' = FALSE
    /\ vpc' = "perform"
    /\ UNCHANGED <<client, c2s, s2c, server, req, rsp_valid, rsp, g_shutdown, performed, told>>

\* The sequence of the op runs, the log line is printed, the verdict is reported.
Perform ==
    /\ vpc = "perform"
    /\ performed' = Append(performed, vreq.call)
    /\ told' = IF vreq.op = "shutdown" THEN [data |-> vreq.data, truth |-> vreq.truth] ELSE told
    /\ vpc' = "answer"
    /\ UNCHANGED <<client, c2s, s2c, server, mailbox, vreq, g_shutdown>>

\* Mutants of PutRsp: a log record is printed and never answered; shutdown is
\* dispatched to the dtmcs arm, as it was while both had opcode 4.
LogUnanswered ==
    /\ vpc = "answer"
    /\ rsp' = vreq.call
    /\ rsp_valid' = (vreq.op # "log")
    /\ vpc' = IF vreq.op = "shutdown" THEN "stop" ELSE "poll"
    /\ UNCHANGED <<client, c2s, s2c, server, req_valid, req, vreq, g_shutdown, performed, told>>

ShutdownRunsDtmcs ==
    /\ vpc = "answer"
    /\ rsp' = vreq.call
    /\ rsp_valid' = TRUE
    /\ vpc' = "poll"
    /\ UNCHANGED <<client, c2s, s2c, server, req_valid, req, vreq, g_shutdown, performed, told>>

PutRsp ==
    /\ vpc = "answer"
    /\ rsp' = vreq.call
    /\ rsp_valid' = TRUE
    /\ vpc' = IF vreq.op = "shutdown" THEN "stop" ELSE "poll"
    /\ UNCHANGED <<client, c2s, s2c, server, req_valid, req, vreq, g_shutdown, performed, told>>

\* uvm_bridge_stop, and serve returns.
BridgeStop ==
    /\ vpc = "stop"
    /\ g_shutdown' = TRUE
    /\ vpc' = "returned"
    /\ UNCHANGED <<client, c2s, s2c, server, mailbox, vreq, performed, told>>

\* The objection is dropped and the simulation ends, its threads with it.
SimExit ==
    /\ vpc = "returned"
    /\ vpc' = "exited"
    /\ UNCHANGED <<client, c2s, s2c, server, mailbox, vreq, g_shutdown, performed, told>>

-----------------------------------------------------------------------------
\* What a client process does by itself once it runs.
ClientStep ==
    \/ StartStep \/ StepCall \/ PrintDone \/ Disconnect \/ ShutdownReply \/ LogAck
    \/ \E b \in BOOLEAN : \/ StepReply(b) \/ StepEnds(b) \/ PrintLine(b)
                          \/ LogReply(b) \/ LogAckReply(b)
    \/ ReadFails(FALSE)

ServerStep ==
    \/ Accept \/ ThreadExit \/ ClientGone
    \/ PostRequest \/ RejectRequest \/ SendResponse \/ BrokenPipe

SimStep == GetReq \/ Perform \/ PutRsp \/ BridgeStop \/ SimExit

\* No client is left: the simulation is over, or polls for a request forever.
Quiescent == pc = "off" /\ vpc \in {"poll", "exited"} /\ UNCHANGED vars

Next ==
    \/ Connect \/ ClientStep \/ ReadFails(TRUE) \/ Interrupt \/ Crash
    \/ ServerStep \/ SimStep \/ Quiescent

Spec == Init /\ [][Next]_vars

\* The three processes are scheduled; a scenario's step comes to an end.  Nothing
\* is assumed of timeouts, interrupts, crashes or of clients to come.
FairSpec == Spec /\ WF_vars(ClientStep) /\ WF_vars(ServerStep) /\ WF_vars(SimStep)

-----------------------------------------------------------------------------
TypeOK ==
    /\ pc \in {"off", "print", "ready", "body", "cmd", "log", "bodylog", "quit",
               "shutdown", "acked", "acklog"}
    /\ session \in 0 .. MaxSessions /\ id \in Calls /\ call \in Calls /\ returned \in Calls
    /\ broken \in BOOLEAN /\ steps \in 0 .. MaxSteps /\ failed \in 0 .. steps
    /\ c2s \in [Sessions -> Seq(Lines)] /\ s2c \in [Sessions -> Seq(Replies)]
    /\ spc \in {"accept", "fgets", "wait", "exit"} /\ conn \in 0 .. session /\ line \in Lines
    /\ req_valid \in BOOLEAN /\ req \in Lines /\ rsp_valid \in BOOLEAN /\ rsp \in Calls
    /\ vpc \in {"poll", "perform", "answer", "stop", "returned", "exited"} /\ vreq \in Lines
    /\ g_shutdown \in BOOLEAN /\ performed \in Seq(Calls)
    /\ told \in [data : Verdicts, truth : {-1} \cup Verdicts]

\* uvm_bridge.c's mailbox holds one request in one place: while the server thread
\* waits, its request is posted, in the simulator's hands or answered, exactly one
\* of them - or the simulator has left serve for good.
OneRequestInFlight ==
    spc = "wait" =>
        LET inHand == vpc \in {"perform", "answer"}
        IN  /\ req_valid => req = line /\ ~inHand /\ ~rsp_valid
            /\ inHand => vreq = line /\ ~req_valid /\ ~rsp_valid
            /\ rsp_valid => rsp = line.call /\ ~req_valid
            /\ req_valid \/ inHand \/ rsp_valid

\* handle_request: a reply that says ok under the client's current id answers the
\* call the client is waiting for, and the simulator has performed that call.
ReplyAnswersItsCall ==
    Awaiting =>
        \A i \in 1 .. Len(s2c[session]) :
            LET r == s2c[session][i]
            IN  Matches(r) /\ r.ok => r.call = call /\ \E j \in DOMAIN performed : performed[j] = call

\* _transact, emit_log: the first line a step's call reads is the reply to its
\* own request; no call fails for what an earlier one, or a log line, left behind.
StreamInStep ==
    pc = "cmd" /\ s2c[session] # <<>> => Matches(Head(s2c[session]))

\* The same for every client whose own log lines fit the buffer, whatever the
\* lines, timeouts and crashes of the clients before it left in the server.
ShortLinesInStep == session \notin LongLines => StreamInStep

\* uvm_bridge.c, of the shutdown data: "so a failing session cannot end in a
\* simulation that reports no errors" - the verdict told is the number of steps
\* that failed.
VerdictAgrees == told.truth >= 0 => told.data = told.truth

\* api/transport.py: the bridge is a DebugTransport.
Contract == INSTANCE TransportContract WITH issued <- call, pending <- Awaiting

ImplementsContract == Contract!TSpec

\* Every call of a client comes to an end, by a reply or by the end of the
\* simulation, without its timeout: nobody waits for somebody who waits.
CallReturns == Awaiting ~> ~Awaiting

ShutdownSent == \E s \in Sessions : \E i \in 1 .. Len(c2s[s]) : c2s[s][i].op = "shutdown"

\* _send_shutdown: "so UVM drops its objection and simulation ends", also when
\* the client has timed out or died by the time its request is read.
ShutdownEndsSimulation == ShutdownSent ~> Exited
=============================================================================
