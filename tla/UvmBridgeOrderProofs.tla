------------------------ MODULE UvmBridgeOrderProofs -------------------------
(***************************************************************************)
(* What the socket bridge promises its clients: the simulator performs the *)
(* calls of all clients once and in order, and a reply answers the call it *)
(* is read by - so the bridge is a DebugTransport - for any number of      *)
(* clients, calls and steps, and whatever times out, is interrupted, dies  *)
(* or is too long.                                                         *)
(***************************************************************************)
EXTENDS UvmBridgeProofs

-----------------------------------------------------------------------------
(* Four kinds of client step, by what they do to the channel.              *)

\* A request is sent, or raises because the simulator is gone.
Sends(op, data, long) ==
    /\ pc # "off" /\ ~Awaiting
    /\ op = "shutdown" => pc \in {"ready", "quit"} /\ data = IF pc = "ready" THEN failed ELSE 0
    /\ id' = id + 1 /\ call' = call + 1
    /\ c2s' = IF Exited THEN c2s
              ELSE [c2s EXCEPT ![session] = @ \o LinesOf(op, data, long)]
    /\ UNCHANGED <<session, returned, s2c, server, mailbox, simulator>>

\* A reply is read.
Reads ==
    /\ Awaiting /\ ~Awaiting'
    /\ s2c[session] # <<>>
    /\ s2c' = [s2c EXCEPT ![session] = Tail(@)]
    /\ \/ returned' = returned
       \/ Head(s2c[session]).id = id /\ Head(s2c[session]).ok /\ returned' = call
    /\ UNCHANGED <<session, id, call, c2s, server, mailbox, simulator>>

\* The channel is left alone.
Quiet ==
    /\ pc = "off" => pc' = "off"
    /\ Awaiting' => Awaiting
    /\ UNCHANGED <<session, id, call, returned, c2s, s2c, server, mailbox, simulator>>

Ops == {"cmd", "log", "shutdown"}

USE DEF Ops, Awaiting, InHand

\* StepCall, PrintLine, Disconnect and LogAck send.
LEMMA SendingSteps ==
  ASSUME TInv, NEW b \in BOOLEAN, StepCall \/ PrintLine(b) \/ Disconnect \/ LogAck
  PROVE  \E op \in Ops, data \in Verdicts, long \in BOOLEAN : Sends(op, data, long)
  <1>1. 0 \in Verdicts /\ failed \in Verdicts
    BY Typed, BridgeAssumption DEF Verdicts
  <1>2. CASE StepCall
    <2>1. Sends("cmd", 0, FALSE)
      BY <1>2 DEF StepCall, Transact, Sends
    <2>2. QED
      BY <1>1, <2>1
  <1>3. CASE PrintLine(b)
    <2>1. Sends("log", 0, b)
      BY <1>3 DEF PrintLine, Transact, Sends
    <2>2. QED
      BY <1>1, <2>1
  <1>4. CASE Disconnect
    <2> DEFINE v == IF pc = "ready" THEN failed ELSE 0
    <2>1. Sends("shutdown", v, FALSE)
      BY <1>4 DEF Disconnect, Transact, Sends
    <2>2. v \in Verdicts
      BY <1>1
    <2>3. QED
      BY <2>1, <2>2
  <1>5. CASE LogAck
    <2>1. Sends("log", 0, FALSE)
      BY <1>5 DEF LogAck, Transact, Sends
    <2>2. QED
      BY <1>1, <2>1
  <1>6. QED
    BY <1>2, <1>3, <1>4, <1>5

\* StepReply, LogReply, ShutdownReply and LogAckReply read one reply.
LEMMA ReadingSteps ==
  ASSUME NEW b \in BOOLEAN, StepReply(b) \/ LogReply(b) \/ ShutdownReply \/ LogAckReply(b)
  PROVE  Reads
  <1>1. CASE StepReply(b)
    BY <1>1 DEF StepReply, Readline, Matches, Reads
  <1>2. CASE LogReply(b)
    BY <1>2 DEF LogReply, Readline, Matches, Reads
  <1>3. CASE ShutdownReply
    BY <1>3 DEF ShutdownReply, Readline, Matches, Reads
  <1>4. CASE LogAckReply(b)
    BY <1>4 DEF LogAckReply, Readline, Matches, Reads
  <1>5. QED
    BY <1>1, <1>2, <1>3, <1>4

\* The steps of a client that touch neither stream.
LEMMA QuietSteps ==
  ASSUME NEW b \in BOOLEAN,
         \/ StartStep \/ PrintDone \/ Interrupt \/ Crash \/ StepEnds(b) \/ ReadFails(b)
         \/ UNCHANGED vars
  PROVE  Quiet
  <1>1. CASE StartStep \/ PrintDone \/ Interrupt \/ Crash \/ StepEnds(b)
    BY <1>1 DEF StartStep, PrintDone, Interrupt, Crash, StepEnds, Quiet
  <1>2. CASE ReadFails(b)
    BY <1>2 DEF ReadFails, AfterFailure, Quiet
  <1>3. CASE UNCHANGED vars
    BY <1>3 DEF vars, client, Quiet
  <1>4. QED
    BY <1>1, <1>2, <1>3

\* Every step is of one of these kinds, or the server's, or the simulator's.
LEMMA StepKinds ==
  ASSUME TInv, [Next]_vars
  PROVE  \/ Connect \/ Reads \/ Quiet \/ ServerStep \/ SimStep
         \/ \E op \in Ops, data \in Verdicts, long \in BOOLEAN : Sends(op, data, long)
  <1>1. CASE ClientStep
    BY <1>1, SendingSteps, ReadingSteps, QuietSteps DEF ClientStep
  <1>2. CASE ReadFails(TRUE) \/ Interrupt \/ Crash \/ Quiescent \/ UNCHANGED vars
    BY <1>2, QuietSteps DEF Quiescent
  <1>3. QED
    BY <1>1, <1>2 DEF Next

-----------------------------------------------------------------------------
(* The streams.  A line that goes unanswered is out of the order: the      *)
(* second part of a long one, which the server rejects.                    *)

InOrder(q) ==
    \A i, j \in 1 .. Len(q) : i < j /\ q[j].op # "unknown" => q[i].call < q[j].call

\* Reading a line leaves the rest in order.
LEMMA OrderTail ==
  ASSUME NEW S, NEW q \in Seq(S), q # <<>>, InOrder(q)
  PROVE  /\ InOrder(Tail(q))
         /\ \A l \in Elems(Tail(q)) : l.op # "unknown" => Head(q).call < l.call
  <1>1. Len(q) \in Nat \ {0} /\ Len(Tail(q)) = Len(q) - 1 /\ Head(q) = q[1]
    BY HeadTailProperties
  <1>2. \A i \in 1 .. Len(Tail(q)) : i + 1 \in 2 .. Len(q) /\ Tail(q)[i] = q[i + 1]
    BY <1>1, HeadTailProperties
  <1>3. InOrder(Tail(q))
    BY <1>1, <1>2 DEF InOrder
  <1>4. \A l \in Elems(Tail(q)) : l.op # "unknown" => Head(q).call < l.call
    BY <1>1, <1>2 DEF InOrder, Elems
  <1>5. QED
    BY <1>3, <1>4

\* A line sent last, of a later call, keeps the stream in order.
LEMMA OrderSentOne ==
  ASSUME NEW S, NEW q \in Seq(S), NEW d \in S, InOrder(q), \A l \in Elems(q) : l.call < d.call
  PROVE  InOrder(q \o <<d>>)
  BY DEF InOrder, Elems

\* So do the two pieces fgets makes of an over-long line.
LEMMA OrderSentTwo ==
  ASSUME NEW S, NEW q \in Seq(S), NEW d \in S, NEW e \in S, InOrder(q),
         \A l \in Elems(q) : l.call < d.call, e.op = "unknown"
  PROVE  InOrder(q \o <<d, e>>)
  BY DEF InOrder, Elems

\* What the streams hold has its type.
LEMMA StreamTypes ==
  ASSUME TInv, NEW s \in Sessions
  PROVE  /\ c2s[s] \in Seq(Lines) /\ s2c[s] \in Seq(Replies)
         /\ \A l \in Elems(c2s[s]) : l \in Lines
         /\ \A r \in Elems(s2c[s]) : r \in Replies
  <1>1. c2s[s] \in Seq(Lines) /\ s2c[s] \in Seq(Replies)
    BY DEF TInv, TypeOK
  <1>2. QED
    BY <1>1 DEF Elems

\* The numbers a request line carries.
LEMMA LineNumbers ==
  ASSUME NEW l \in Lines
  PROVE  l.call \in Nat /\ l.id \in Int
  BY BridgeAssumption DEF Lines, Calls

\* The numbers a reply carries.
LEMMA ReplyNumbers ==
  ASSUME NEW r \in Replies
  PROVE  r.call \in Nat /\ r.id \in Int
  BY BridgeAssumption DEF Replies, Calls

\* What sending leaves in the streams: the old lines and those of the new call.
LEMMA SentLines ==
  ASSUME TInv, NEW op \in Ops, NEW data \in Verdicts, NEW long \in BOOLEAN, Sends(op, data, long)
  PROVE  /\ session \in Sessions
         /\ \A s \in Sessions : s # session => c2s'[s] = c2s[s]
         /\ \A l \in Elems(c2s'[session]) :
               \/ l \in Elems(c2s[session])
               \/ /\ l.call = call + 1 /\ l.id \in {-1, id + 1} /\ l.op \in {op, "unknown"}
                  /\ l.data = data /\ l.truth = failed
         /\ InOrder(c2s[session]) /\ (\A l \in Elems(c2s[session]) : l.call <= call)
               => InOrder(c2s'[session])
  <1>1. /\ session \in Sessions /\ c2s \in [Sessions -> Seq(Lines)] /\ c2s[session] \in Seq(Lines)
        /\ call \in Nat
    BY Typed DEF Sends, TInv, TypeOK
  <1> DEFINE whole == [op |-> op, id |-> id + 1, call |-> call + 1, data |-> data, truth |-> failed]
             front == [whole EXCEPT !.id = -1]
             back == [whole EXCEPT !.op = "unknown"]
             S == Lines \cup {whole, front, back}
             new(l) == /\ l.call = call + 1 /\ l.id \in {-1, id + 1} /\ l.op \in {op, "unknown"}
                       /\ l.data = data /\ l.truth = failed
  <1>2. new(whole) /\ new(front) /\ new(back) /\ back.op = "unknown"
    OBVIOUS
  <1>3. LinesOf(op, data, long) = IF long THEN <<front, back>> ELSE <<whole>>
    BY DEF LinesOf
  <1>4. whole.call = call + 1 /\ front.call = call + 1
    OBVIOUS
  <1> HIDE DEF whole, front, back
  <1>5. c2s[session] \in Seq(S) /\ whole \in S /\ front \in S /\ back \in S
    BY <1>1
  <1> HIDE DEF S
  <1>6. ASSUME \A l \in Elems(c2s[session]) : l.call <= call
        PROVE  \A l \in Elems(c2s[session]) : l.call < whole.call /\ l.call < front.call
    <2>1. \A l \in Elems(c2s[session]) : l.call \in Nat
      BY <1>1, StreamTypes, LineNumbers
    <2>2. QED
      BY <1>1, <1>4, <1>6, <2>1
  <1>7. CASE Exited
    BY <1>1, <1>7 DEF Sends
  <1>8. CASE ~Exited /\ long
    <2>1. c2s'[session] = c2s[session] \o <<front, back>>
      BY <1>1, <1>3, <1>8 DEF Sends
    <2>2. Elems(c2s'[session]) = Elems(c2s[session]) \cup {front, back}
      BY <1>5, <2>1, ElemsSentTwo
    <2>3. InOrder(c2s[session]) /\ (\A l \in Elems(c2s[session]) : l.call <= call)
               => InOrder(c2s'[session])
      BY <1>2, <1>5, <1>6, <2>1, OrderSentTwo
    <2>4. \A s \in Sessions : s # session => c2s'[s] = c2s[s]
      BY <1>1, <1>8 DEF Sends
    <2>5. QED
      BY <1>1, <1>2, <2>2, <2>3, <2>4
  <1>9. CASE ~Exited /\ ~long
    <2>1. c2s'[session] = c2s[session] \o <<whole>>
      BY <1>1, <1>3, <1>9 DEF Sends
    <2>2. Elems(c2s'[session]) = Elems(c2s[session]) \cup {whole}
      BY <1>5, <2>1, ElemsSentOne
    <2>3. InOrder(c2s[session]) /\ (\A l \in Elems(c2s[session]) : l.call <= call)
               => InOrder(c2s'[session])
      BY <1>5, <1>6, <2>1, OrderSentOne
    <2>4. \A s \in Sessions : s # session => c2s'[s] = c2s[s]
      BY <1>1, <1>9 DEF Sends
    <2>5. QED
      BY <1>1, <1>2, <2>2, <2>3, <2>4
  <1>10. QED
    BY <1>7, <1>8, <1>9

\* What fgets leaves in the streams.
LEMMA TakenLine ==
  ASSUME TInv, spc = "fgets", c2s[conn] # <<>>, c2s' = [c2s EXCEPT ![conn] = Tail(@)]
  PROVE  /\ conn \in Sessions
         /\ Head(c2s[conn]) \in Elems(c2s[conn]) /\ Head(c2s[conn]) \in Lines
         /\ c2s'[conn] = Tail(c2s[conn])
         /\ \A s \in Sessions : s # conn => c2s'[s] = c2s[s]
         /\ \A s \in Sessions : Elems(c2s'[s]) \subseteq Elems(c2s[s])
         /\ InOrder(c2s[conn]) =>
               /\ InOrder(c2s'[conn])
               /\ \A l \in Elems(c2s'[conn]) : l.op # "unknown" => Head(c2s[conn]).call < l.call
  <1>1. conn \in Sessions
    BY TInvClient, BridgeAssumption DEF ClientTyped, Sessions, TInv
  <1>2. c2s \in [Sessions -> Seq(Lines)] /\ c2s[conn] \in Seq(Lines)
    BY <1>1 DEF TInv, TypeOK
  <1>3. c2s'[conn] = Tail(c2s[conn]) /\ \A s \in Sessions : s # conn => c2s'[s] = c2s[s]
    BY <1>1, <1>2
  <1>4. \A s \in Sessions : Elems(c2s'[s]) \subseteq Elems(c2s[s])
    BY <1>2, <1>3, ElemsTail
  <1>5. QED
    BY <1>1, <1>2, <1>3, <1>4, ElemsTail, OrderTail

-----------------------------------------------------------------------------
(* The order of the calls.                                                 *)

Done(n) == \E j \in DOMAIN performed : performed[j] = n
AllDoneBefore(n) == \A j \in DOMAIN performed : performed[j] < n

\* Only connections the server has yet to read, or is reading, hold lines.
Behind ==
    /\ \A s \in Sessions : s > session => c2s[s] = <<>> /\ s2c[s] = <<>>
    /\ \A s \in Sessions : s < conn => c2s[s] = <<>>
    /\ spc \in {"accept", "exit"} =>
          /\ pc # "off" => conn < session
          /\ conn \in Sessions => c2s[conn] = <<>>

\* Whatever is on its way was issued.
Numbered ==
    /\ \A s \in Sessions : \A l \in Elems(c2s[s]) : l.call \in 1 .. call
    /\ spc = "wait" => line.call \in 1 .. call
    /\ \A j \in DOMAIN performed : performed[j] \in 1 .. call

\* The lines still to be read come in the order of their calls, after the request
\* being served and after everything performed.
Ordered ==
    /\ \A s \in Sessions : InOrder(c2s[s])
    /\ \A s, t \in Sessions : s < t =>
          \A l \in Elems(c2s[s]), m \in Elems(c2s[t]) : m.op # "unknown" => l.call < m.call
    /\ \A s \in Sessions : \A l \in Elems(c2s[s]) : l.op # "unknown" =>
          AllDoneBefore(l.call) /\ (spc = "wait" => line.call < l.call)

\* The request being served is performed once, between GetReq and PutRsp.
Progress ==
    spc = "wait" =>
        /\ req_valid \/ vpc = "perform" => AllDoneBefore(line.call)
        /\ rsp_valid \/ vpc = "answer" => Done(line.call)

\* Within a session, ids and calls are counted alike.
InStep(x) == x.id = -1 \/ x.id - id = x.call - call

Tagged ==
    session \in Sessions =>
        /\ \A l \in Elems(c2s[session]) : InStep(l)
        /\ spc = "wait" /\ conn = session => InStep(line)
        /\ \A r \in Elems(s2c[session]) : r.ok => InStep(r) /\ Done(r.call)

OInv == Behind /\ Numbered /\ Ordered /\ Progress /\ Tagged

\* Nothing moves.
LEMMA QuietOInv == ASSUME OInv, Quiet PROVE OInv'
  BY DEF Quiet, OInv, Behind, Numbered, Ordered, Progress, Tagged, InStep, Done, AllDoneBefore,
         server, mailbox, simulator

\* A new connection has two empty streams, behind all others.
LEMMA ConnectOInv == ASSUME TInv, OInv, Connect PROVE OInv'
  <1>1. session \in Nat /\ conn \in Nat /\ conn <= session /\ session' = session + 1
    BY TInvClient DEF ClientTyped, Connect
  <1>2. UNCHANGED <<call, c2s, s2c, server, mailbox, simulator>>
    BY DEF Connect
  <1>3. Behind'
    BY <1>1, <1>2 DEF OInv, Behind, server, Sessions
  <1>4. Numbered' /\ Ordered' /\ Progress'
    BY <1>2 DEF OInv, Numbered, Ordered, Progress, Done, AllDoneBefore, server, mailbox, simulator
  <1>5. Tagged'
    <2>1. session' \in Sessions => c2s'[session'] = <<>> /\ s2c'[session'] = <<>>
      BY <1>1, <1>2 DEF OInv, Behind, Sessions
    <2>2. Elems(<<>>) = {}
      BY DEF Elems
    <2>3. conn' # session'
      BY <1>1, <1>2 DEF server
    <2>4. QED
      BY <2>1, <2>2, <2>3 DEF Tagged
  <1>6. QED
    BY <1>3, <1>4, <1>5 DEF OInv

\* A reply read is no longer in the stream.
LEMMA ReadsOInv == ASSUME TInv, OInv, Reads PROVE OInv'
  <1>1. session \in Sessions /\ s2c[session] \in Seq(Replies) /\ session \in Nat
    BY Typed DEF Reads, TInv, TypeOK
  <1>2. UNCHANGED <<session, id, call, c2s, server, mailbox, simulator>>
    BY DEF Reads
  <1>3. s2c'[session] = Tail(s2c[session]) /\ \A s \in Sessions : s # session => s2c'[s] = s2c[s]
    BY <1>1 DEF Reads, TInv, TypeOK
  <1>4. Elems(s2c'[session]) \subseteq Elems(s2c[session])
    BY <1>1, <1>3, ElemsTail DEF Reads
  <1>5. Behind'
    BY <1>1, <1>2, <1>3 DEF OInv, Behind, server, Sessions, Reads
  <1>6. Numbered' /\ Ordered' /\ Progress'
    BY <1>2 DEF OInv, Numbered, Ordered, Progress, Done, AllDoneBefore, server, mailbox, simulator
  <1>7. Tagged'
    BY <1>2, <1>4 DEF OInv, Tagged, InStep, Done, server, simulator
  <1>8. QED
    BY <1>5, <1>6, <1>7 DEF OInv

\* A request gets the next number, and so the last place in the order.
LEMMA SendsOInv ==
  ASSUME TInv, OInv,
         NEW op \in Ops, NEW data \in Verdicts, NEW long \in BOOLEAN, Sends(op, data, long)
  PROVE  OInv'
  <1>1. /\ session \in Sessions /\ session \in Nat /\ conn \in Nat /\ conn <= session
        /\ call \in Nat /\ id \in Nat
    BY Typed, TInvClient DEF Sends, ClientTyped
  <1>2. /\ UNCHANGED <<session, s2c, server, mailbox, simulator>>
        /\ call' = call + 1 /\ id' = id + 1 /\ pc # "off"
    BY DEF Sends
  <1>3. /\ \A s \in Sessions : s # session => c2s'[s] = c2s[s]
        /\ \A l \in Elems(c2s'[session]) :
               \/ l \in Elems(c2s[session])
               \/ l.call = call + 1 /\ l.id \in {-1, id + 1}
    BY SentLines
  <1>4. InOrder(c2s'[session])
    <2>1. \A l \in Elems(c2s[session]) : l.call <= call
      BY <1>1 DEF OInv, Numbered
    <2>2. InOrder(c2s[session])
      BY <1>1 DEF OInv, Ordered
    <2>3. QED
      BY <2>1, <2>2, SentLines
  <1>5. Behind'
    BY <1>1, <1>2, <1>3 DEF OInv, Behind, server
  <1>6. Numbered'
    BY <1>1, <1>2, <1>3 DEF OInv, Numbered, server, simulator
  <1>7. Ordered'
    <2>1. \A s \in Sessions : InOrder(c2s'[s])
      BY <1>3, <1>4 DEF OInv, Ordered
    <2>2. ASSUME NEW s \in Sessions, NEW t \in Sessions, s < t,
                 NEW l \in Elems(c2s'[s]), NEW m \in Elems(c2s'[t]), m.op # "unknown"
          PROVE  l.call < m.call
      <3>1. s # session
        <4>1. s = session => c2s'[t] = <<>>
          BY <1>1, <1>3, <2>2 DEF OInv, Behind
        <4>2. QED
          BY <4>1, <2>2 DEF Elems
      <3>2. l \in Elems(c2s[s]) /\ l.call \in 1 .. call
        BY <1>3, <2>2, <3>1 DEF OInv, Numbered
      <3>3. m \in Elems(c2s[t]) \/ m.call = call + 1
        BY <1>3, <2>2
      <3>4. QED
        BY <1>1, <2>2, <3>2, <3>3 DEF OInv, Ordered
    <2>3. ASSUME NEW s \in Sessions, NEW l \in Elems(c2s'[s]), l.op # "unknown"
          PROVE  AllDoneBefore(l.call) /\ (spc = "wait" => line.call < l.call)
      <3>1. l \in Elems(c2s[s]) \/ l.call = call + 1
        BY <1>3, <2>3
      <3>2. CASE l \in Elems(c2s[s])
        BY <2>3, <3>2 DEF OInv, Ordered
      <3>3. CASE l.call = call + 1
        BY <1>1, <3>3 DEF OInv, Numbered, AllDoneBefore
      <3>4. QED
        BY <3>1, <3>2, <3>3
    <2>4. QED
      BY <1>2, <2>1, <2>2, <2>3 DEF Ordered, AllDoneBefore, server, simulator
  <1>8. Progress'
    BY <1>2 DEF OInv, Progress, Done, AllDoneBefore, server, mailbox, simulator
  <1>9. Tagged'
    <2>1. ASSUME NEW x, x.call \in Int, x.id \in Int, InStep(x) PROVE InStep(x)'
      BY <1>1, <1>2, <2>1 DEF InStep
    <2>2. ASSUME NEW l \in Elems(c2s'[session]) PROVE InStep(l)'
      <3>1. CASE l \in Elems(c2s[session])
        <4>1. l.call \in Nat /\ l.id \in Int
          BY <1>1, <3>1, StreamTypes, LineNumbers
        <4>2. InStep(l)
          BY <1>1, <3>1 DEF OInv, Tagged
        <4>3. QED
          BY <1>1, <1>2, <4>1, <4>2 DEF InStep
      <3>2. CASE l.call = call + 1 /\ l.id \in {-1, id + 1}
        BY <1>1, <1>2, <3>2 DEF InStep
      <3>3. QED
        BY <1>3, <2>2, <3>1, <3>2
    <2>3. spc = "wait" /\ conn = session => line.id = -1 \/ line.id - id' = line.call - call'
      <3>1. line.call \in Nat /\ line.id \in Int
        BY LineNumbers DEF TInv, TypeOK
      <3>2. QED
        BY <1>1, <1>2, <3>1 DEF OInv, Tagged, InStep, server
    <2>4. ASSUME NEW r \in Elems(s2c[session]), r.ok PROVE InStep(r)' /\ Done(r.call)
      BY <1>1, <2>1, <2>4, StreamTypes, ReplyNumbers DEF OInv, Tagged
    <2>5. QED
      BY <1>1, <1>2, <2>2, <2>3, <2>4 DEF Tagged, Done, server, simulator, InStep
  <1>10. QED
    BY <1>5, <1>6, <1>7, <1>8, <1>9 DEF OInv

\* server_thread: accept, and the way out of the inner loop.
LEMMA AcceptOInv ==
  ASSUME TInv, OInv, Accept \/ ThreadExit \/ ClientGone
  PROVE  OInv'
  <1>1. session \in Nat /\ conn \in Nat /\ conn <= session
    BY TInvClient DEF ClientTyped
  <1>2. /\ UNCHANGED <<client, c2s, s2c, mailbox, simulator>>
        /\ spc' # "wait" /\ spc # "wait"
    BY DEF Accept, ThreadExit, ClientGone
  <1>3. Behind'
    <2>1. CASE Accept
      BY <1>1, <2>1 DEF Accept, OInv, Behind, client, Sessions
    <2>2. CASE ThreadExit
      BY <1>1, <2>2 DEF ThreadExit, OInv, Behind, client
    <2>3. CASE ClientGone
      BY <1>1, <2>3 DEF ClientGone, ClientOpen, OInv, Behind, client
    <2>4. QED
      BY <2>1, <2>2, <2>3
  <1>4. Numbered' /\ Ordered' /\ Progress' /\ Tagged'
    BY <1>2 DEF OInv, Numbered, Ordered, Progress, Tagged, InStep, Done, AllDoneBefore, client,
                mailbox, simulator
  <1>5. QED
    BY <1>3, <1>4 DEF OInv

\* send_response to a closed connection, in a simulator the signal ends.
LEMMA BrokenPipeOInv == ASSUME OInv, BrokenPipe PROVE OInv'
  <1>1. UNCHANGED <<client, c2s, s2c, server, mailbox, vreq, performed>> /\ vpc' = "exited"
    BY DEF BrokenPipe
  <1>2. Behind' /\ Numbered' /\ Ordered' /\ Tagged'
    BY <1>1 DEF OInv, Behind, Numbered, Ordered, Tagged, InStep, Done, AllDoneBefore, client, server
  <1>3. Progress'
    BY <1>1 DEF OInv, Progress, Done, AllDoneBefore, server, mailbox
  <1>4. QED
    BY <1>2, <1>3 DEF OInv

\* The first line of the connection being read comes before all others.
LEMMA FirstLine ==
  ASSUME TInv, OInv, spc = "fgets", c2s[conn] # <<>>, c2s' = [c2s EXCEPT ![conn] = Tail(@)]
  PROVE  /\ \A s \in Sessions : \A l \in Elems(c2s'[s]) :
                l.op # "unknown" => Head(c2s[conn]).call < l.call
         /\ \A s \in Sessions : InOrder(c2s'[s])
         /\ \A s \in Sessions : c2s[s] = <<>> => c2s'[s] = <<>>
  <1>1. conn \in Sessions /\ conn \in Nat
    BY TakenLine DEF Sessions
  <1>2. \A s \in Sessions : InOrder(c2s'[s])
    BY <1>1, TakenLine DEF OInv, Ordered
  <1>3. ASSUME NEW s \in Sessions, NEW l \in Elems(c2s'[s]), l.op # "unknown"
        PROVE  Head(c2s[conn]).call < l.call
    <2>1. CASE s = conn
      BY <1>1, <1>3, <2>1, TakenLine DEF OInv, Ordered
    <2>2. CASE s < conn
      <3>1. s # conn
        BY <1>1, <2>2
      <3>2. c2s[s] = <<>>
        BY <1>3, <2>2 DEF OInv, Behind
      <3>3. c2s'[s] = <<>>
        BY <3>1, <3>2, TakenLine
      <3>4. Elems(<<>>) = {}
        BY DEF Elems
      <3>5. QED
        BY <1>3, <3>3, <3>4
    <2>3. CASE conn < s
      <3>1. l \in Elems(c2s[s]) /\ Head(c2s[conn]) \in Elems(c2s[conn])
        BY <1>3, TakenLine
      <3>2. QED
        BY <1>1, <1>3, <2>3, <3>1 DEF OInv, Ordered
    <2>4. QED
      BY <1>1, <2>1, <2>2, <2>3 DEF Sessions
  <1>4. \A s \in Sessions : c2s[s] = <<>> => c2s'[s] = <<>>
    BY <1>1, TakenLine
  <1>5. QED
    BY <1>2, <1>3, <1>4

\* handle_request: the first line of the stream becomes the request being served.
LEMMA PostOInv == ASSUME TInv, HInv, OInv, PostRequest PROVE OInv'
  <1> DEFINE h == Head(c2s[conn])
  <1>1. /\ spc = "fgets" /\ c2s[conn] # <<>> /\ c2s' = [c2s EXCEPT ![conn] = Tail(@)]
        /\ h.op # "unknown" /\ line' = h /\ spc' = "wait" /\ rsp_valid' = FALSE
        /\ UNCHANGED <<client, s2c, conn, simulator>>
    BY DEF PostRequest
  <1>2. /\ conn \in Sessions /\ h \in Elems(c2s[conn])
        /\ \A s \in Sessions : Elems(c2s'[s]) \subseteq Elems(c2s[s])
    BY <1>1, TakenLine
  <1>3. /\ \A s \in Sessions : \A l \in Elems(c2s'[s]) : l.op # "unknown" => h.call < l.call
        /\ \A s \in Sessions : InOrder(c2s'[s])
        /\ \A s \in Sessions : c2s[s] = <<>> => c2s'[s] = <<>>
    BY <1>1, FirstLine
  <1>4. vpc \notin {"perform", "answer"}
    BY <1>1 DEF HInv, MailboxEmpty
  <1> HIDE DEF h
  <1>5. Behind'
    BY <1>1, <1>3 DEF OInv, Behind, client
  <1>6. Numbered'
    BY <1>1, <1>2 DEF OInv, Numbered, client, simulator
  <1>7. Ordered'
    BY <1>1, <1>2, <1>3 DEF OInv, Ordered, AllDoneBefore, simulator
  <1>8. Progress'
    <2>1. AllDoneBefore(h.call)
      BY <1>1, <1>2 DEF OInv, Ordered
    <2>2. QED
      BY <1>1, <1>4, <2>1 DEF Progress, AllDoneBefore, simulator
  <1>9. Tagged'
    BY <1>1, <1>2 DEF OInv, Tagged, InStep, Done, client, simulator
  <1>10. QED
    BY <1>5, <1>6, <1>7, <1>8, <1>9 DEF OInv

\* What send_response leaves in the streams.
LEMMA SentReply ==
  ASSUME TInv, spc \in {"fgets", "wait"}, NEW r \in Replies, Send(r)
  PROVE  /\ \A s \in Sessions : s # session => s2c'[s] = s2c[s]
         /\ session \in Sessions => Elems(s2c'[session]) \subseteq Elems(s2c[session]) \cup {r}
         /\ conn # session => s2c' = s2c
  <1>1. conn \in Sessions /\ s2c \in [Sessions -> Seq(Replies)] /\ s2c[conn] \in Seq(Replies)
    <2>1. conn \in Sessions
      BY TInvClient, BridgeAssumption DEF ClientTyped, Sessions, TInv
    <2>2. QED
      BY <2>1 DEF TInv, TypeOK
  <1>2. CASE ~ClientOpen(conn)
    BY <1>2 DEF Send
  <1>3. CASE ClientOpen(conn)
    <2>1. conn = session /\ s2c' = [s2c EXCEPT ![conn] = Append(@, r)]
      BY <1>3 DEF Send, ClientOpen
    <2>2. s2c'[session] = Append(s2c[session], r)
          /\ \A s \in Sessions : s # session => s2c'[s] = s2c[s]
      BY <1>1, <2>1
    <2>3. Elems(s2c'[session]) = Elems(s2c[session]) \cup {r}
      BY <1>1, <2>1, <2>2, ElemsAppend
    <2>4. QED
      BY <2>1, <2>2, <2>3
  <1>4. QED
    BY <1>2, <1>3

\* handle_request: the rest of an over-long line is answered with an error.
LEMMA RejectOInv == ASSUME TInv, OInv, RejectRequest PROVE OInv'
  <1> DEFINE h == Head(c2s[conn])
             r == [id |-> h.id, ok |-> FALSE, call |-> h.call]
  <1>1. /\ spc = "fgets" /\ c2s[conn] # <<>> /\ c2s' = [c2s EXCEPT ![conn] = Tail(@)]
        /\ Send(r) /\ UNCHANGED <<client, server, mailbox, simulator>>
    BY DEF RejectRequest
  <1>2. h \in Lines /\ \A s \in Sessions : Elems(c2s'[s]) \subseteq Elems(c2s[s])
    BY <1>1, TakenLine
  <1>3. r \in Replies
    BY <1>2 DEF Lines, Replies
  <1>4. /\ \A s \in Sessions : s # session => s2c'[s] = s2c[s]
        /\ session \in Sessions => Elems(s2c'[session]) \subseteq Elems(s2c[session]) \cup {r}
    BY <1>1, <1>3, SentReply
  <1>5. /\ \A s \in Sessions : InOrder(c2s'[s])
        /\ \A s \in Sessions : c2s[s] = <<>> => c2s'[s] = <<>>
    BY <1>1, FirstLine
  <1>6. ~r.ok
    OBVIOUS
  <1> HIDE DEF h, r
  <1>7. Behind'
    <2>1. session \in Nat
      BY Typed
    <2>2. QED
      BY <1>1, <1>4, <1>5, <2>1 DEF OInv, Behind, client, server, Sessions
  <1>8. Numbered' /\ Progress'
    BY <1>1, <1>2 DEF OInv, Numbered, Progress, Done, AllDoneBefore, client, server, mailbox, simulator
  <1>9. Ordered'
    BY <1>1, <1>2, <1>5 DEF OInv, Ordered, AllDoneBefore, server, simulator
  <1>10. Tagged'
    BY <1>1, <1>2, <1>4, <1>6 DEF OInv, Tagged, InStep, Done, client, server, simulator
  <1>11. QED
    BY <1>7, <1>8, <1>9, <1>10 DEF OInv

\* The response of the mailbox is sent to the connection being served.
LEMMA ResponseOInv == ASSUME TInv, HInv, OInv, SendResponse PROVE OInv'
  <1> DEFINE r == [id |-> line.id, ok |-> TRUE, call |-> rsp]
  <1>1. /\ spc = "wait" /\ spc' = "fgets" /\ rsp_valid /\ Send(r)
        /\ UNCHANGED <<client, c2s, conn, line, mailbox, simulator>>
    BY DEF SendResponse
  <1>2. r \in Replies
    BY DEF TInv, TypeOK, Lines, Replies
  <1>3. rsp = line.call /\ Done(line.call)
    BY <1>1 DEF HInv, OneRequestInFlight, OInv, Progress
  <1>4. /\ \A s \in Sessions : s # session => s2c'[s] = s2c[s]
        /\ session \in Sessions => Elems(s2c'[session]) \subseteq Elems(s2c[session]) \cup {r}
        /\ conn # session => s2c' = s2c
    BY <1>1, <1>2, SentReply
  <1>5. r.id = line.id /\ r.call = line.call
    BY <1>3
  <1> HIDE DEF r
  <1>6. Behind'
    <2>1. session \in Nat
      BY Typed
    <2>2. QED
      BY <1>1, <1>4, <2>1 DEF OInv, Behind, client, Sessions
  <1>7. Numbered' /\ Progress' /\ Ordered'
    BY <1>1 DEF OInv, Numbered, Progress, Ordered, AllDoneBefore, client, simulator
  <1>8. Tagged'
    BY <1>1, <1>3, <1>4, <1>5 DEF OInv, Tagged, InStep, Done, client, simulator
  <1>9. QED
    BY <1>6, <1>7, <1>8 DEF OInv

\* py_bridge.serve: the request in the mailbox is taken, performed and answered.
LEMMA SimOInv == ASSUME TInv, HInv, OInv, SimStep PROVE OInv'
  <1>1. UNCHANGED <<client, c2s, s2c, server>>
    BY DEF SimStep, GetReq, Perform, PutRsp, BridgeStop, SimExit
  <1>2. CASE Perform
    <2>1. /\ spc = "wait" /\ vreq = line /\ ~req_valid /\ ~rsp_valid /\ AllDoneBefore(line.call)
          /\ line.call \in 1 .. call
      BY <1>2 DEF Perform, HInv, MailboxEmpty, OneRequestInFlight, OInv, Progress, Numbered
    <2>2. /\ performed \in Seq(Calls) /\ line.call \in Calls
          /\ performed' = Append(performed, line.call)
      BY <1>2, <2>1 DEF Perform, TInv, TypeOK, Lines
    <2>3. /\ \A j \in DOMAIN performed' : \/ j \in DOMAIN performed /\ performed'[j] = performed[j]
                                          \/ performed'[j] = line.call
          /\ \A j \in DOMAIN performed : j \in DOMAIN performed' /\ performed'[j] = performed[j]
          /\ \E j \in DOMAIN performed' : performed'[j] = line.call
      BY <2>2, AppendProperties
    <2>4. vpc' = "answer" /\ UNCHANGED <<req_valid, rsp_valid>>
      BY <1>2 DEF Perform, mailbox
    <2>5. Behind'
      BY <1>1 DEF OInv, Behind, client, server
    <2>6. Numbered'
      BY <1>1, <2>1, <2>3 DEF OInv, Numbered, client, server
    <2>7. Ordered'
      BY <1>1, <2>1, <2>3 DEF OInv, Ordered, AllDoneBefore, server
    <2>8. Progress'
      BY <1>1, <2>1, <2>3, <2>4 DEF Progress, Done, server
    <2>9. Tagged'
      BY <1>1, <2>3 DEF OInv, Tagged, InStep, Done, client, server
    <2>10. QED
      BY <2>5, <2>6, <2>7, <2>8, <2>9 DEF OInv
  <1>3. ASSUME GetReq \/ PutRsp \/ BridgeStop \/ SimExit
        PROVE  OInv'
    <2>1. performed' = performed
      BY <1>3 DEF GetReq, PutRsp, BridgeStop, SimExit
    <2>2. Behind' /\ Numbered' /\ Ordered' /\ Tagged'
      BY <1>1, <2>1 DEF OInv, Behind, Numbered, Ordered, Tagged, InStep, Done, AllDoneBefore, client,
                        server
    <2>3. Progress'
      <3>1. CASE GetReq
        BY <2>1, <3>1 DEF GetReq, HInv, OneRequestInFlight, OInv, Progress, Done, AllDoneBefore, server
      <3>2. CASE PutRsp
        BY <2>1, <3>2 DEF PutRsp, HInv, OneRequestInFlight, OInv, Progress, Done, AllDoneBefore, server
      <3>3. CASE BridgeStop \/ SimExit
        BY <2>1, <3>3 DEF BridgeStop, SimExit, OInv, Progress, Done, AllDoneBefore, server, mailbox
      <3>4. QED
        BY <1>3, <3>1, <3>2, <3>3
    <2>4. QED
      BY <2>2, <2>3 DEF OInv
  <1>4. QED
    BY <1>2, <1>3 DEF SimStep

\* One case for each kind of step.
LEMMA NextOInv == ASSUME TInv, HInv, OInv, [Next]_vars PROVE OInv'
  <1>1. CASE ServerStep
    BY <1>1, AcceptOInv, PostOInv, RejectOInv, ResponseOInv, BrokenPipeOInv DEF ServerStep
  <1>2. QED
    BY <1>1, StepKinds, QuietOInv, ConnectOInv, ReadsOInv, SendsOInv, SimOInv

\* At the start all streams are empty and nothing has been issued.
LEMMA InitOInv == ASSUME Init PROVE OInv
  <1>1. \A s \in Sessions : c2s[s] = <<>> /\ s2c[s] = <<>>
    BY DEF Init
  <1>2. Elems(<<>>) = {} /\ InOrder(<<>>)
    BY DEF Elems, InOrder
  <1>3. Behind /\ Numbered /\ Progress /\ Tagged
    BY <1>1, <1>2 DEF Init, Behind, Numbered, Progress, Tagged, Sessions
  <1>4. Ordered
    BY <1>1, <1>2 DEF Init, Ordered
  <1>5. QED
    BY <1>3, <1>4 DEF OInv

BInv == TInv /\ HInv /\ OInv

\* The type, mailbox and order invariants together are inductive.
THEOREM BridgeInvariance == Spec => []BInv
  <1>1. Init => BInv
    <2>1. Init => HInv
      BY DEF Init, HInv, MailboxEmpty, OneRequestInFlight
    <2>2. QED
      BY <2>1, InitTInv, InitOInv DEF BInv
  <1>2. BInv /\ [Next]_vars => BInv'
    <2>1. HInv /\ [Next]_vars => HInv'
      BY ClientHInv, ServerHInv, SimHInv, OtherSteps DEF Next
    <2>2. QED
      BY <2>1, NextTInv, NextOInv DEF BInv
  <1>3. QED
    BY <1>1, <1>2, PTL DEF Spec

\* A reply that says ok under the client's id answers the client's call, which
\* the simulator has performed.
LEMMA RepliesAnswer == ASSUME BInv PROVE ReplyAnswersItsCall
  <1> SUFFICES ASSUME Awaiting, NEW i \in 1 .. Len(s2c[session]),
                      s2c[session][i].id = id, s2c[session][i].ok
               PROVE  s2c[session][i].call = call /\ Done(call)
    BY DEF ReplyAnswersItsCall, Matches, Done
  <1> DEFINE r == s2c[session][i]
  <1>1. session \in Sessions /\ id \in Nat /\ call \in Nat
    BY Typed DEF BInv
  <1>2. r \in Elems(s2c[session])
    BY DEF Elems
  <1>3. r.call \in Nat /\ r.id \in Int
    BY <1>1, <1>2, StreamTypes, ReplyNumbers DEF BInv
  <1>4. InStep(r) /\ Done(r.call)
    BY <1>1, <1>2 DEF BInv, OInv, Tagged
  <1>5. r.call = call
    BY <1>1, <1>3, <1>4 DEF InStep
  <1>6. QED
    BY <1>4, <1>5

\* uvm_bridge.c handle_request and uvm_transport.py _transact: what a call gets
\* back is the answer to that call, whatever was lost, late or cut in two before.
THEOREM ReplyAnswersItsCallHolds == Spec => []ReplyAnswersItsCall
  <1>1. BInv => ReplyAnswersItsCall
    BY RepliesAnswer
  <1>2. QED
    BY <1>1, BridgeInvariance, PTL

-----------------------------------------------------------------------------
(* The bridge is a DebugTransport.                                         *)

\* Every step of the bridge is a step of the contract, or leaves it alone.
LEMMA StepContract ==
  ASSUME BInv, [Next]_vars
  PROVE  [Contract!TNext]_Contract!tvars
  <1>1. TInv /\ HInv /\ OInv
    BY DEF BInv
  <1>2. CASE Connect
    BY <1>2 DEF Connect, Contract!tvars, simulator
  <1>3. CASE Quiet
    <2>1. UNCHANGED <<call, performed, returned>>
      BY <1>3 DEF Quiet, simulator
    <2>2. CASE Awaiting' = Awaiting
      BY <2>1, <2>2 DEF Contract!tvars
    <2>3. CASE Awaiting' # Awaiting
      <3>1. Contract!Raise
        BY <1>3, <2>1, <2>3 DEF Quiet, Contract!Raise
      <3>2. QED
        BY <3>1 DEF Contract!TNext
    <2>4. QED
      BY <2>2, <2>3
  <1>4. CASE Reads
    <2>1. UNCHANGED <<call, performed>> /\ Awaiting /\ ~Awaiting'
      BY <1>4 DEF Reads, simulator
    <2>2. CASE returned' = returned
      <3>1. Contract!Raise
        BY <2>1, <2>2 DEF Contract!Raise
      <3>2. QED
        BY <3>1 DEF Contract!TNext
    <2>3. CASE Head(s2c[session]).id = id /\ Head(s2c[session]).ok /\ returned' = call
      <3>1. session \in Sessions
        BY <1>1, <2>1, Typed
      <3>2. s2c[session] \in Seq(Replies) /\ s2c[session] # <<>>
        BY <1>1, <1>4, <3>1, StreamTypes DEF Reads
      <3>3. 1 \in 1 .. Len(s2c[session]) /\ Head(s2c[session]) = s2c[session][1]
        BY <3>2
      <3>4. \E j \in DOMAIN performed : performed[j] = call
        BY <2>1, <2>3, <3>3, RepliesAnswer DEF ReplyAnswersItsCall, Matches
      <3>5. Contract!Return
        BY <2>1, <2>3, <3>4 DEF Contract!Return
      <3>6. QED
        BY <3>5 DEF Contract!TNext
    <2>4. QED
      BY <1>4, <2>2, <2>3 DEF Reads
  <1>5. ASSUME NEW op \in Ops, NEW data \in Verdicts, NEW long \in BOOLEAN, Sends(op, data, long)
        PROVE  Contract!TNext
    <2>1. call' = call + 1 /\ UNCHANGED <<performed, returned>> /\ ~Awaiting
      BY <1>5 DEF Sends, simulator
    <2>2. CASE Awaiting'
      BY <2>1, <2>2 DEF Contract!Issue, Contract!TNext
    <2>3. CASE ~Awaiting'
      BY <2>1, <2>3 DEF Contract!IssueAndRaise, Contract!TNext
    <2>4. QED
      BY <2>2, <2>3
  <1>6. CASE ServerStep
    BY <1>6 DEF ServerStep, Accept, ThreadExit, ClientGone, PostRequest, RejectRequest, SendResponse,
                BrokenPipe, client, simulator, Contract!tvars
  <1>7. CASE SimStep
    <2>1. CASE Perform
      <3>1. vreq = line /\ AllDoneBefore(line.call) /\ line.call \in 1 .. call
        BY <1>1, <2>1 DEF Perform, HInv, MailboxEmpty, OneRequestInFlight, OInv, Progress, Numbered
      <3>2. Contract!Perform(line.call)
        BY <2>1, <3>1 DEF Perform, Contract!Perform, AllDoneBefore, client
      <3>3. QED
        BY <3>1, <3>2 DEF Contract!TNext
    <2>2. CASE GetReq \/ PutRsp \/ BridgeStop \/ SimExit
      BY <2>2 DEF GetReq, PutRsp, BridgeStop, SimExit, client, Contract!tvars
    <2>3. QED
      BY <1>7, <2>1, <2>2 DEF SimStep
  <1>8. QED
    BY <1>1, <1>2, <1>3, <1>4, <1>5, <1>6, <1>7, StepKinds

\* api/transport.py, for UVMTransport over uvm_bridge.c and python_bridge: calls
\* are issued one at a time, the simulator performs each at most once and in the
\* order of issue, and a call returns normally only when it was performed.
THEOREM BridgeImplementsContract == Spec => ImplementsContract
  <1>1. Init => Contract!TInit
    BY DEF Init, Contract!TInit
  <1>2. BInv /\ [Next]_vars => [Contract!TNext]_Contract!tvars
    BY StepContract
  <1>3. QED
    BY <1>1, <1>2, BridgeInvariance, PTL DEF Spec, ImplementsContract, Contract!TSpec

-----------------------------------------------------------------------------
(* A session in step: unless a line is too long or a reply is late, there  *)
(* is at most one request between the client and the server.               *)

Serving == spc = "wait" /\ conn = session

Idle == c2s[session] = <<>> /\ s2c[session] = <<>> /\ ~Serving

\* The one request is unread, being served, or answered.
OneOut ==
    \/ /\ \E l \in Lines : c2s[session] = <<l>> /\ l.id = id
       /\ s2c[session] = <<>> /\ ~Serving
    \/ c2s[session] = <<>> /\ s2c[session] = <<>> /\ Serving /\ line.id = id
    \/ /\ \E r \in Replies : s2c[session] = <<r>> /\ r.id = id
       /\ c2s[session] = <<>> /\ ~Serving

Clear == s2c[session] = <<>> /\ (HungUp \/ Idle)
Outstanding == OneOut \/ (s2c[session] = <<>> /\ HungUp)

Between == {"print", "ready", "body"}
Waiting == {"cmd", "log", "bodylog"}

SInv ==
    /\ broken => pc # "cmd"
    /\ ~broken /\ pc \in Between => Clear
    /\ ~broken /\ pc \in Waiting => Outstanding

USE DEF Between, Waiting

\* Streams of one line.
LEMMA OneLine ==
  ASSUME NEW S, NEW e \in S
  PROVE  /\ <<>> \o <<e>> = <<e>> /\ Append(<<>>, e) = <<e>>
         /\ Head(<<e>>) = e /\ Tail(<<e>>) = <<>> /\ <<e>> # <<>>
  OBVIOUS

\* The steps of a client that neither send nor receive.
LEMMA QuietSInv ==
  ASSUME SInv, NEW b \in BOOLEAN,
         \/ StartStep \/ PrintDone \/ Interrupt \/ Crash \/ StepEnds(b) \/ ReadFails(b)
         \/ UNCHANGED vars
  PROVE  SInv'
  <1>1. UNCHANGED <<session, id, c2s, s2c, server, simulator>>
    BY DEF StartStep, PrintDone, Interrupt, Crash, StepEnds, ReadFails, vars, client
  <1>2. (Clear <=> Clear') /\ (Outstanding <=> Outstanding')
    BY <1>1 DEF Clear, Outstanding, Idle, OneOut, Serving, HungUp, Exited, server, simulator
  <1>3. CASE StartStep \/ PrintDone \/ Interrupt \/ Crash \/ StepEnds(b)
    BY <1>2, <1>3 DEF StartStep, PrintDone, Interrupt, Crash, StepEnds, SInv
  <1>4. CASE ReadFails(b) /\ b
    BY <1>4 DEF ReadFails, AfterFailure, SInv
  <1>5. CASE ReadFails(b) /\ ~b
    <2>1. s2c[session] = <<>> /\ HungUp
      BY <1>5 DEF ReadFails, ReadEof
    <2>2. pc' \in {"print", "body", "acked", "off"}
      BY <1>5 DEF ReadFails, AfterFailure
    <2>3. Clear'
      BY <1>2, <2>1 DEF Clear
    <2>4. QED
      BY <2>2, <2>3 DEF SInv
  <1>6. CASE UNCHANGED vars
    BY <1>2, <1>6 DEF vars, client, SInv
  <1>7. QED
    BY <1>3, <1>4, <1>5, <1>6

\* A new connection has nothing outstanding.
LEMMA ConnectSInv == ASSUME BInv, Connect PROVE SInv'
  <1>1. session \in Nat /\ conn \in Nat /\ conn <= session /\ session' = session + 1
    BY TInvClient DEF BInv, ClientTyped, Connect
  <1>2. session' \in Sessions
    BY <1>1, BridgeAssumption DEF Connect, Sessions
  <1>3. c2s'[session'] = <<>> /\ s2c'[session'] = <<>> /\ conn' # session'
    BY <1>1, <1>2 DEF Connect, BInv, OInv, Behind, server
  <1>4. QED
    BY <1>3 DEF Connect, SInv, Clear, Idle, Serving

\* A call of a step, or a log line that is not too long.
LEMMA SendSInv ==
  ASSUME session \notin LongLines, BInv, SInv, NEW b \in BOOLEAN, StepCall \/ PrintLine(b)
  PROVE  SInv'
  <1>1. PICK op \in {"cmd", "log"}, waits \in Waiting, fails \in Between :
            Transact(op, 0, FALSE, waits, fails)
    <2>1. CASE StepCall
      BY <2>1 DEF StepCall
    <2>2. CASE PrintLine(b)
      <3>1. b = FALSE /\ pc \in Between /\ (IF pc = "body" THEN "bodylog" ELSE "log") \in Waiting
        BY <2>2 DEF PrintLine
      <3>2. Transact("log", 0, FALSE, IF pc = "body" THEN "bodylog" ELSE "log", pc)
        BY <2>2, <3>1 DEF PrintLine
      <3>3. QED
        BY <3>1, <3>2, Zenon
    <2>3. QED
      BY <2>1, <2>2
  <1>2. pc \in Between /\ UNCHANGED <<session, broken, s2c, server, simulator>>
    BY DEF StepCall, PrintLine
  <1>3. CASE broken
    BY <1>1, <1>2, <1>3 DEF Transact, SInv
  <1>4. CASE ~broken /\ HungUp
    <2>1. s2c'[session'] = <<>> /\ HungUp'
      BY <1>2, <1>4 DEF SInv, Clear, HungUp, Exited, server, simulator
    <2>2. QED
      BY <1>1, <1>2, <1>4, <2>1 DEF Transact, SInv, Clear, Outstanding
  <1>5. CASE ~broken /\ ~HungUp
    <2> DEFINE l == [op |-> op, id |-> id + 1, call |-> call + 1, data |-> 0, truth |-> failed]
    <2>1. Idle /\ ~Exited
      BY <1>2, <1>5 DEF SInv, Clear, HungUp
    <2>2. session \in Sessions /\ c2s \in [Sessions -> Seq(Lines)]
      BY <1>2, Typed DEF BInv, TInv, TypeOK
    <2>3. TInv' /\ failed \in Verdicts
      BY SendTInv, Typed DEF BInv
    <2>4. c2s' = [c2s EXCEPT ![session] = @ \o <<l>>] /\ id' = id + 1 /\ pc' = waits /\ l.id = id + 1
      BY <1>1, <1>5, <2>1 DEF Transact, LinesOf
    <2> HIDE DEF l
    <2>5. c2s'[session] = <<l>>
      BY <2>1, <2>2, <2>4, OneLine DEF Idle
    <2>6. l \in Lines
      <3>1. c2s'[session] \in Seq(Lines)
        BY <2>2, <2>3 DEF TInv, TypeOK
      <3>2. QED
        BY <2>5, <3>1, ElemsTail, OneLine
    <2>7. OneOut'
      BY <1>2, <2>1, <2>4, <2>5, <2>6 DEF OneOut, Idle, Serving, server
    <2>8. QED
      BY <1>1, <1>2, <1>5, <2>4, <2>7 DEF SInv, Outstanding
  <1>6. QED
    BY <1>3, <1>4, <1>5

\* The reply to the one request is read.
LEMMA ReadSInv ==
  ASSUME BInv, SInv, NEW b \in BOOLEAN, StepReply(b) \/ LogReply(b)
  PROVE  SInv'
  <1>1. /\ pc \in Waiting /\ pc' \in Between /\ s2c[session] # <<>>
        /\ s2c' = [s2c EXCEPT ![session] = Tail(@)]
        /\ UNCHANGED <<session, broken, c2s, server, simulator>>
    BY DEF StepReply, LogReply, Readline
  <1>2. CASE broken
    BY <1>1, <1>2 DEF SInv
  <1>3. CASE ~broken
    <2>1. /\ \E r \in Replies : s2c[session] = <<r>> /\ r.id = id
          /\ c2s[session] = <<>> /\ ~Serving
      BY <1>1, <1>3 DEF SInv, Outstanding, OneOut
    <2>2. Tail(s2c[session]) = <<>>
      BY <2>1, OneLine
    <2>3. s2c'[session] = <<>>
      <3>1. session \in Sessions /\ s2c \in [Sessions -> Seq(Replies)]
        BY <1>1, Typed DEF BInv, TInv, TypeOK
      <3>2. QED
        BY <1>1, <2>2, <3>1
    <2>4. Clear'
      BY <1>1, <2>1, <2>3 DEF Clear, Idle, Serving, server
    <2>5. QED
      BY <1>1, <2>4 DEF SInv
  <1>4. QED
    BY <1>2, <1>3

\* The way out: the client will not read a reply to a step's call again.
LEMMA LeaveSInv ==
  ASSUME NEW b \in BOOLEAN, Disconnect \/ ShutdownReply \/ LogAck \/ LogAckReply(b)
  PROVE  SInv'
  <1>1. pc' \in {"off", "shutdown", "acked", "acklog"}
    BY DEF Disconnect, ShutdownReply, LogAck, LogAckReply, Transact
  <1>2. QED
    BY <1>1 DEF SInv

\* The server thread moves the one outstanding line towards its reply.
LEMMA ServerSInv == ASSUME BInv, SInv, ServerStep PROVE SInv'
  <1>1. ~HungUp /\ UNCHANGED client
    BY DEF ServerStep, Accept, ThreadExit, ClientGone, PostRequest, RejectRequest, SendResponse,
           BrokenPipe, HungUp
  <1>2. /\ ~broken /\ pc \in Between => Idle
        /\ ~broken /\ pc \in Waiting => OneOut
    BY <1>1 DEF SInv, Clear, Outstanding
  <1>3. /\ pc # "off" => session \in Sessions
        /\ c2s \in [Sessions -> Seq(Lines)] /\ s2c \in [Sessions -> Seq(Replies)]
    BY Typed DEF BInv, TInv, TypeOK
  <1>4. spc \in {"fgets", "wait"} => conn \in Sessions
    BY TInvClient, BridgeAssumption DEF BInv, ClientTyped, Sessions, TInv
  \* It is enough to follow the client's one request.
  <1>5. ASSUME pc \in Between \cup Waiting, Idle => Idle', OneOut => OneOut'
        PROVE  SInv'
    BY <1>1, <1>2, <1>5 DEF SInv, Clear, Outstanding, Idle, client
  <1>6. CASE pc \notin Between \cup Waiting
    BY <1>1, <1>6 DEF SInv, client
  <1>7. CASE pc \in Between \cup Waiting
    <2>1. CASE Accept \/ ThreadExit \/ ClientGone
      BY <1>5, <1>7, <2>1 DEF Accept, ThreadExit, ClientGone, Idle, OneOut, Serving, client
    <2>2. CASE PostRequest
      <3>1. CASE conn = session
        <4>1. \A l \in Lines : c2s[session] = <<l>> => c2s'[session] = <<>> /\ line' = l
          BY <1>4, <1>3, <2>2, <3>1, OneLine DEF PostRequest
        <4>2. QED
          BY <1>5, <1>7, <2>2, <3>1, <4>1 DEF PostRequest, Idle, OneOut, Serving, client
      <3>2. CASE conn # session
        <4>1. c2s'[session] = c2s[session]
          BY <1>3, <1>7, <2>2, <3>2 DEF PostRequest
        <4>2. QED
          BY <1>5, <1>7, <2>2, <3>2, <4>1 DEF PostRequest, Idle, OneOut, Serving, client
      <3>3. QED
        BY <3>1, <3>2
    <2>3. CASE RejectRequest
      <3>1. CASE conn = session
        <4>1. ASSUME NEW l \in Lines, c2s[session] = <<l>>, s2c[session] = <<>>
              PROVE  /\ c2s'[session] = <<>>
                     /\ \E r \in Replies : s2c'[session] = <<r>> /\ r.id = l.id
          <5> DEFINE r == [id |-> l.id, ok |-> FALSE, call |-> l.call]
          <5>1. r \in Replies /\ r.id = l.id
            BY DEF Lines, Replies
          <5>2. Head(c2s[conn]) = l /\ Tail(c2s[conn]) = <<>>
            BY <3>1, <4>1, OneLine
          <5>3. s2c' = [s2c EXCEPT ![session] = Append(@, r)]
            BY <1>7, <2>3, <3>1, <5>2 DEF RejectRequest, Send, ClientOpen
          <5>4. c2s'[session] = <<>>
            BY <1>3, <1>7, <2>3, <3>1, <5>2 DEF RejectRequest
          <5> HIDE DEF r
          <5>5. s2c'[session] = <<r>>
            BY <1>3, <1>7, <4>1, <5>1, <5>3, OneLine
          <5>6. QED
            BY <5>1, <5>4, <5>5
        <4>2. QED
          BY <1>5, <1>7, <2>3, <3>1, <4>1 DEF RejectRequest, Idle, OneOut, Serving, client, server
      <3>2. CASE conn # session
        <4>1. c2s'[session] = c2s[session] /\ s2c' = s2c
          BY <1>3, <1>7, <2>3, <3>2 DEF RejectRequest, Send, ClientOpen
        <4>2. QED
          BY <1>5, <1>7, <2>3, <3>2, <4>1 DEF RejectRequest, Idle, OneOut, Serving, client, server
      <3>3. QED
        BY <3>1, <3>2
    <2>4. CASE SendResponse
      <3>1. CASE conn = session
        <4> DEFINE r == [id |-> line.id, ok |-> TRUE, call |-> rsp]
        <4>1. r \in Replies /\ r.id = line.id
          BY DEF BInv, TInv, TypeOK, Lines, Replies
        <4>2. s2c' = [s2c EXCEPT ![session] = Append(@, r)]
          BY <1>7, <2>4, <3>1 DEF SendResponse, Send, ClientOpen
        <4> HIDE DEF r
        <4>3. s2c[session] = <<>> => s2c'[session] = <<r>>
          BY <1>3, <1>7, <4>1, <4>2, OneLine
        <4>4. QED
          BY <1>5, <1>7, <2>4, <3>1, <4>1, <4>3 DEF SendResponse, Idle, OneOut, Serving, client
      <3>2. CASE conn # session
        BY <1>5, <1>7, <2>4, <3>2 DEF SendResponse, Send, ClientOpen, Idle, OneOut, Serving, client
      <3>3. QED
        BY <3>1, <3>2
    <2>5. CASE BrokenPipe
      BY <1>5, <1>7, <2>5 DEF BrokenPipe, Idle, OneOut, Serving, client, server
    <2>6. QED
      BY <2>1, <2>2, <2>3, <2>4, <2>5 DEF ServerStep
  <1>8. QED
    BY <1>6, <1>7

\* The simulator only ever hangs up.
LEMMA SimSInv == ASSUME SInv, SimStep PROVE SInv'
  <1>1. UNCHANGED <<client, c2s, s2c, server>> /\ (Exited => Exited')
    BY DEF SimStep, GetReq, Perform, PutRsp, BridgeStop, SimExit, Exited
  <1>2. HungUp => HungUp'
    BY <1>1 DEF HungUp, client, server
  <1>3. (Idle <=> Idle') /\ (OneOut <=> OneOut')
    BY <1>1 DEF Idle, OneOut, Serving, client, server
  <1>4. QED
    BY <1>1, <1>2, <1>3 DEF SInv, Clear, Outstanding, client

\* SInv of the clients whose lines fit.
FitInv == session \notin LongLines => SInv

\* Every step of a client whose lines fit keeps one reply for one request, and
\* the next client starts with nothing outstanding whatever this one left behind.
LEMMA NextFitInv == ASSUME BInv, FitInv, [Next]_vars PROVE FitInv'
  <1>1. CASE Connect
    BY <1>1, ConnectSInv DEF FitInv
  <1>2. ASSUME ~Connect PROVE FitInv'
    <2>1. session' = session
      BY <1>2, StepKinds DEF BInv, Reads, Quiet, Sends, ServerStep, SimStep, Accept, ThreadExit,
           ClientGone, PostRequest, RejectRequest, SendResponse, BrokenPipe, GetReq, Perform,
           PutRsp, BridgeStop, SimExit, client
    <2>2. CASE session \in LongLines
      BY <2>1, <2>2 DEF FitInv
    <2>3. CASE session \notin LongLines
      <3>1. SInv
        BY <2>3 DEF FitInv
      <3>2. CASE ClientStep
        BY <2>3, <3>1, <3>2, QuietSInv, SendSInv, ReadSInv, LeaveSInv DEF ClientStep, FitInv
      <3>3. CASE ReadFails(TRUE) \/ Interrupt \/ Crash \/ Quiescent \/ UNCHANGED vars
        BY <3>1, <3>3, QuietSInv DEF Quiescent, FitInv
      <3>4. QED
        BY <1>2, <3>1, <3>2, <3>3, ServerSInv, SimSInv DEF Next, FitInv
    <2>4. QED
      BY <2>2, <2>3
  <1>3. QED
    BY <1>1, <1>2

\* uvm_transport.py _transact: the first line a step's call reads is the reply to
\* its own request, for every client whose own log lines fit RECV_BUF_SZ, whatever
\* times out, dies, is interrupted, and however long the lines of other clients
\* are; a reader that timed out is never read again.
THEOREM ShortLinesInStepHolds == Spec => []ShortLinesInStep
  <1>1. Init => FitInv
    BY DEF Init, SInv, FitInv
  <1>2. BInv /\ FitInv /\ [Next]_vars => FitInv'
    BY NextFitInv
  <1>3. FitInv => ShortLinesInStep
    <2>1. ASSUME SInv, pc = "cmd", s2c[session] # <<>>
          PROVE  Head(s2c[session]).id = id
      <3>1. PICK r \in Replies : s2c[session] = <<r>> /\ r.id = id
        BY <2>1 DEF SInv, Outstanding, OneOut
      <3>2. QED
        BY <3>1, OneLine
    <2>2. QED
      BY <2>1 DEF ShortLinesInStep, FitInv, StreamInStep, Matches
  <1>4. QED
    BY <1>1, <1>2, <1>3, BridgeInvariance, PTL DEF Spec
=============================================================================
