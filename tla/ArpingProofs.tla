---------------------------- MODULE ArpingProofs ----------------------------
(***************************************************************************)
(* For every command line, delay and load: arping keeps to -c, -f and -D   *)
(* end with the first answer, broadcasting ends with it too, and the event *)
(* loop never spins.                                                       *)
(***************************************************************************)
EXTENDS Arping, TLAPS

Descriptors == {"signal", "timer", "timeout", "socket"}

(* Every answer that was counted has left the queue.                       *)
ReadInv == received + Len(queue) <= arrived

(* A probe is sent only for an expiration that has been counted.           *)
SentInv ==
    /\ sent <= total_expires
    /\ pc = "start" => sent = 0 /\ total_expires = 1
    /\ "timer" \in ready => expired > 0
    /\ NeverTooMany

(* Once an answer has been read, the loop ends before anything else is     *)
(* handled, or the probes are no longer broadcast.                         *)
AnsweredInv ==
    received > 0 =>
       /\ pc # "start"
       /\ QuitOnReply => exit_loop /\ pc \in {"loop", "done"}
       /\ BroadcastOnly \/ unicasting \/ (exit_loop /\ pc \in {"loop", "done"})

IInv == TypeOK /\ ReadInv /\ SentInv /\ AnsweredInv /\ QuitFirst

-----------------------------------------------------------------------------
(* The parts of a command line.                                            *)
LEMMA OptionTypes ==
    ASSUME opt \in Options
    PROVE  /\ Count \in Int /\ (Count > 0 => Count >= 1)
           /\ Timeout \in Nat /\ Interval \in Nat
           /\ QuitOnReply \in BOOLEAN /\ BroadcastOnly \in BOOLEAN
  <1>1. opt \in CommandLines
    BY ArpingAssumption
  <1>2. opt.count \in {NoCount} \union (Nat \ {0}) /\ opt.timeout \in Nat /\ opt.interval \in Nat
        /\ opt.quit \in BOOLEAN /\ opt.brd \in BOOLEAN
    BY <1>1 DEF CommandLines
  <1>3. opt.count \in Int
    BY <1>2 DEF NoCount
  <1> QED
    BY <1>2, <1>3 DEF Count, Timeout, Interval, QuitOnReply, BroadcastOnly

(* send_pack() sends one probe or none, and broadcasts no more than it     *)
(* sends.                                                                  *)
LEMMA SendCounts ==
    ASSUME send_pack, sent \in Nat, brd_sent \in 0 .. sent, faults \in Nat
    PROVE  /\ sent' \in Nat /\ brd_sent' \in 0 .. sent' /\ faults' \in Nat
           /\ sent' <= sent + 1
           /\ unicasting => brd_sent' = brd_sent
  BY DEF send_pack, probes

-----------------------------------------------------------------------------
(* Types.                                                                  *)

LEMMA InitTypeOK == Init => TypeOK /\ ReadInv
  <1> SUFFICES ASSUME Init PROVE TypeOK /\ ReadInv
    OBVIOUS
  <1>1. Timeout \in Nat /\ Interval \in Nat /\ MaxTime \in Nat /\ MaxFaults \in Nat
    BY OptionTypes, ArpingAssumption DEF Init
  <1>2. ileft \in {Disarmed} \union 1 .. Interval /\ tleft \in {Disarmed} \union 1 .. Timeout
    BY <1>1 DEF Init, Armed
  <1>3. queue \in Seq(Packets) /\ Len(queue) = 0
    BY DEF Init
  <1>4. time \in 0 .. MaxTime /\ faults \in Nat /\ inTime \in 0 .. Len(queue)
        /\ sent \in Nat /\ brd_sent \in 0 .. sent /\ received \in 0 .. arrived
        /\ brd_recv \in 0 .. received /\ req_recv \in 0 .. received
        /\ total_expires \in Nat /\ expired \in Nat /\ arrived \in Nat /\ status \in {-1, 0, 1, 2}
    BY <1>1, <1>3 DEF Init
  <1>5. opt \in Options /\ pc = "start" /\ ready = {} /\ exit_loop = FALSE /\ unicasting = FALSE
        /\ timedOut = FALSE /\ signal = FALSE /\ sockerr = "none"
    BY DEF Init
  <1>6. TypeOK
    BY <1>2, <1>3, <1>4, <1>5, Zenon DEF TypeOK, Errors
  <1>7. ReadInv
    BY <1>3 DEF ReadInv, Init
  <1> QED BY <1>6, <1>7

(* The counters of answers and the queue.                                  *)
QueueOK ==
    /\ received \in 0 .. arrived
    /\ brd_recv \in 0 .. received /\ req_recv \in 0 .. received
    /\ unicasting \in BOOLEAN
    /\ queue \in Seq(Packets) /\ inTime \in 0 .. Len(queue)
    /\ arrived \in Nat
    /\ ReadInv

(* The probes, the expirations and the timers.                             *)
TimersOK ==
    /\ sent \in Nat /\ brd_sent \in 0 .. sent /\ faults \in Nat
    /\ total_expires \in Nat /\ expired \in Nat
    /\ ileft \in {Disarmed} \union 1 .. Interval
    /\ tleft \in {Disarmed} \union 1 .. Timeout
    /\ time \in 0 .. MaxTime

(* Where the loop is and what it has been told.                            *)
LoopOK ==
    /\ opt \in Options
    /\ pc \in {"start", "loop", "poll", "handle", "done"}
    /\ ready \subseteq Descriptors
    /\ exit_loop \in BOOLEAN /\ status \in {-1, 0, 1, 2}
    /\ timedOut \in BOOLEAN /\ signal \in BOOLEAN
    /\ sockerr \in Errors

LEMMA TypeSplit == TypeOK /\ ReadInv <=> QueueOK /\ TimersOK /\ LoopOK
  BY DEF TypeOK, QueueOK, TimersOK, LoopOK, Descriptors

LEMMA StatusType ==
    ASSUME opt \in Options, received \in Nat
    PROVE  Status \in {-1, 0, 1, 2}
  BY DEF Status

(* The whole step keeps the types: first the loop's own state.             *)
LEMMA NextLoopOK ==
    ASSUME LoopOK, QueueOK, Next
    PROVE  LoopOK'
  <1> USE DEF LoopOK
  <1>1. CASE Start
    BY <1>1 DEF Start, world, timers
  <1>2. CASE Finish
    <2>1. Status \in {-1, 0, 1, 2}
      BY StatusType DEF QueueOK
    <2> QED BY <1>2, <2>1 DEF Finish, world, timers
  <1>3. CASE Loop
    BY <1>3 DEF Loop, world, timers
  <1>4. CASE Poll
    BY <1>4 DEF Poll, Ready, world, timers, Descriptors
  <1>5. CASE OnSignal \/ OnTimeout
    BY <1>5, Zenon DEF OnSignal, OnTimeout, Handles, Continue
  <1>6. CASE OnTimer
    BY <1>6, Zenon DEF OnTimer, Handles, Continue
  <1>7. CASE OnSocket
    <2>1. exit_loop' \in BOOLEAN
      BY <1>7, OptionTypes, Zenon DEF OnSocket, recv_pack
    <2> QED BY <1>7, <2>1 DEF OnSocket, Handles, Continue
  <1>8. CASE OnSocketError
    BY <1>8 DEF OnSocketError, Handles, Errors
  <1>9. ASSUME NEW p \in Packets, Arrives(p) PROVE LoopOK'
    BY <1>9 DEF Arrives, timers
  <1>10. ASSUME NEW e \in Errors \ {"none"}, SocketFails(e) PROVE LoopOK'
    BY <1>10 DEF SocketFails, timers
  <1>11. CASE Interrupt
    BY <1>11 DEF Interrupt, timers
  <1>12. CASE Tick
    <2>1. timedOut' \in BOOLEAN
      BY <1>12 DEF Tick
    <2> QED BY <1>12, <2>1 DEF Tick
  <1>13. CASE Rest
    BY <1>13 DEF Rest, vars, world, timers
  <1> QED
    BY <1>1, <1>2, <1>3, <1>4, <1>5, <1>6, <1>7, <1>8, <1>9, <1>10, <1>11, <1>12, <1>13
    DEF Next, Process

(* The steps that leave probes and timers alone, and those that do not.    *)
LEMMA NextTimersOK ==
    ASSUME TimersOK, LoopOK, Next
    PROVE  TimersOK'
  <1>o. Timeout \in Nat /\ Interval \in Nat /\ opt' = opt
    <2>1. opt' = opt
      BY DEF Next, Process, Start, Finish, Loop, Poll, OnSignal, OnTimer, OnTimeout, OnSocket,
             OnSocketError, Handles, Arrives, SocketFails, Interrupt, Tick, Rest, vars
    <2> QED BY <2>1, OptionTypes DEF LoopOK
  <1>i. Timeout' = Timeout /\ Interval' = Interval
    BY <1>o DEF Timeout, Interval
  <1>s. ASSUME send_pack, UNCHANGED <<ileft, tleft, time>>, total_expires' \in Nat, expired' \in Nat
        PROVE  TimersOK'
    <2>1. sent' \in Nat /\ brd_sent' \in 0 .. sent' /\ faults' \in Nat
      BY <1>s, SendCounts DEF TimersOK
    <2> QED BY <1>s, <1>i, <2>1 DEF TimersOK
  <1>u. ASSUME UNCHANGED <<sent, brd_sent, total_expires, expired, ileft, tleft, time>>, faults' \in Nat
        PROVE  TimersOK'
    BY <1>u, <1>i DEF TimersOK
  <1>1. CASE Start
    BY <1>1, <1>s DEF Start, world, timers, TimersOK
  <1>2. CASE Finish \/ Loop \/ Poll \/ Rest
    BY <1>2, <1>u DEF Finish, Loop, Poll, Rest, world, timers, probes, vars, TimersOK
  <1>3. CASE OnSignal \/ OnTimeout \/ OnSocket \/ OnSocketError
    BY <1>3, <1>u DEF OnSignal, OnTimeout, OnSocket, OnSocketError, Handles, probes, TimersOK
  <1>4. CASE OnTimer
    <2>1. /\ UNCHANGED <<ileft, tleft, time>> /\ total_expires' = total_expires + expired /\ expired' = 0
          /\ UNCHANGED <<sent, brd_sent, faults>> \/ send_pack
      BY <1>4 DEF OnTimer, Handles, probes
    <2>2. total_expires' \in Nat /\ expired' \in Nat
      BY <2>1 DEF TimersOK
    <2> QED BY <1>i, <1>s, <2>1, <2>2 DEF TimersOK
  <1>5. ASSUME NEW p \in Packets, Arrives(p) PROVE TimersOK'
    BY <1>5, <1>u DEF Arrives, timers, probes, TimersOK
  <1>6. ASSUME NEW e \in Errors \ {"none"}, SocketFails(e) PROVE TimersOK'
    <2>1. faults > 0 /\ faults' = faults - 1 /\ UNCHANGED <<sent, brd_sent, total_expires, timers>>
      BY <1>6 DEF SocketFails, probes
    <2> QED BY <1>u, <2>1 DEF timers, TimersOK
  <1>7. CASE Interrupt
    BY <1>7, <1>u DEF Interrupt, timers, probes, TimersOK
  <1>8. CASE Tick
    <2>1. /\ UNCHANGED <<sent, brd_sent, total_expires, faults>>
          /\ time < MaxTime /\ time' = time + 1
          /\ expired' = IF ileft = 1 THEN expired + 1 ELSE expired
          /\ ileft' = IF ileft = Disarmed THEN Disarmed
                      ELSE IF ileft = 1 THEN Interval ELSE ileft - 1
          /\ tleft' = IF tleft = Disarmed THEN Disarmed
                      ELSE IF tleft = 1 THEN Timeout ELSE tleft - 1
      BY <1>8 DEF Tick, probes
    <2>2. time' \in 0 .. MaxTime /\ expired' \in Nat
      BY <2>1, ArpingAssumption DEF TimersOK
    <2>3. ileft' \in {Disarmed} \union 1 .. Interval
      BY <1>o, <2>1 DEF TimersOK, Disarmed
    <2>4. tleft' \in {Disarmed} \union 1 .. Timeout
      BY <1>o, <2>1 DEF TimersOK, Disarmed
    <2> QED BY <1>i, <2>1, <2>2, <2>3, <2>4 DEF TimersOK
  <1> QED
    BY <1>1, <1>2, <1>3, <1>4, <1>5, <1>6, <1>7, <1>8 DEF Next, Process

(* The queue and the answers: one pass takes one packet.                   *)
LEMMA NextQueueOK ==
    ASSUME QueueOK, LoopOK, Next
    PROVE  QueueOK'
  <1>u. ASSUME UNCHANGED <<received, brd_recv, req_recv, unicasting, queue, inTime, arrived>>
        PROVE  QueueOK'
    BY <1>u DEF QueueOK, ReadInv
  <1>1. CASE Start \/ Finish \/ Loop \/ Poll \/ Rest
    BY <1>1, <1>u DEF Start, Finish, Loop, Poll, Rest, world, timers, answers, vars
  <1>2. CASE OnSignal \/ OnTimer \/ OnTimeout \/ OnSocketError
    BY <1>2, <1>u DEF OnSignal, OnTimer, OnTimeout, OnSocketError, Handles, answers
  <1>3. CASE OnSocket
    <2>1. /\ queue # <<>> /\ queue' = Tail(queue) /\ arrived' = arrived
          /\ inTime' = IF inTime > 0 THEN inTime - 1 ELSE 0
          /\ UNCHANGED answers \/ recv_pack(Head(queue))
      BY <1>3 DEF OnSocket, Handles
    <2>2. queue' \in Seq(Packets) /\ Len(queue') = Len(queue) - 1 /\ Len(queue) \in Nat
      BY <2>1 DEF QueueOK
    <2>3. inTime' \in 0 .. Len(queue')
      BY <2>1, <2>2 DEF QueueOK
    <2>4. received' \in {received, received + 1}
      BY <2>1 DEF recv_pack, answers
    <2>5. /\ received' \in Nat /\ arrived' \in Nat /\ received' + Len(queue') <= arrived'
          /\ received' <= arrived'
      BY <2>1, <2>2, <2>4 DEF QueueOK, ReadInv
    <2>6. brd_recv' \in 0 .. received' /\ req_recv' \in 0 .. received'
      BY <2>1 DEF QueueOK, recv_pack, answers
    <2>7. unicasting' \in BOOLEAN
      <3>1. opt.quit \in BOOLEAN /\ opt.brd \in BOOLEAN
        BY OptionTypes DEF LoopOK, QuitOnReply, BroadcastOnly
      <3> QED BY <2>1, <3>1, Zenon DEF QueueOK, recv_pack, answers
    <2> QED BY <2>2, <2>3, <2>5, <2>6, <2>7 DEF QueueOK, ReadInv
  <1>4. ASSUME NEW p \in Packets, Arrives(p) PROVE QueueOK'
    <2>1. /\ queue' = Append(queue, p) /\ arrived' = arrived + 1
          /\ UNCHANGED <<received, brd_recv, req_recv, unicasting, inTime>>
      BY <1>4 DEF Arrives, answers
    <2>2. queue' \in Seq(Packets) /\ Len(queue') = Len(queue) + 1 /\ Len(queue) \in Nat
      BY <2>1, <1>4 DEF QueueOK
    <2>3. inTime' \in 0 .. Len(queue') /\ arrived' \in Nat
      BY <2>1, <2>2 DEF QueueOK
    <2>4. received' \in 0 .. arrived' /\ received' + Len(queue') <= arrived'
      BY <2>1, <2>2 DEF QueueOK, ReadInv
    <2> QED BY <2>1, <2>2, <2>3, <2>4 DEF QueueOK, ReadInv
  <1>5. ASSUME NEW e \in Errors \ {"none"}, SocketFails(e) PROVE QueueOK'
    BY <1>5, <1>u DEF SocketFails, answers
  <1>6. CASE Interrupt
    BY <1>6, <1>u DEF Interrupt, answers
  <1>7. CASE Tick
    <2>1. /\ UNCHANGED <<received, brd_recv, req_recv, unicasting, queue, arrived>>
          /\ inTime' = Len(queue) \/ inTime' = inTime
      BY <1>7 DEF Tick, answers
    <2>2. inTime' \in 0 .. Len(queue)
      BY <2>1 DEF QueueOK
    <2> QED BY <2>1, <2>2 DEF QueueOK, ReadInv
  <1> QED
    BY <1>1, <1>2, <1>3, <1>4, <1>5, <1>6, <1>7 DEF Next, Process

-----------------------------------------------------------------------------
(* -c.                                                                     *)

(* A step that does not send, and counts no expiration.                    *)
LEMMA NoProbe ==
    ASSUME SentInv, UNCHANGED <<opt, sent, total_expires>>, pc' # "start" \/ pc = "start",
           "timer" \in ready' => expired' > 0
    PROVE  SentInv'
  BY DEF SentInv, NeverTooMany, Count

LEMMA NextSentInv ==
    ASSUME IInv, Next
    PROVE  SentInv'
  <1>a. SentInv /\ opt \in Options /\ sent \in Nat /\ total_expires \in Nat /\ expired \in Nat
        /\ brd_sent \in 0 .. sent /\ faults \in Nat
    BY DEF IInv, TypeOK
  <1>b. Count \in Int
    BY <1>a, OptionTypes
  <1>1. CASE Start
    <2>1. /\ send_pack /\ UNCHANGED <<opt, ready, total_expires, expired>>
          /\ pc = "start" /\ pc' = "loop"
      BY <1>1 DEF Start, world, timers
    <2>2. sent' \in Nat /\ sent' <= 1
      BY <1>a, <2>1, SendCounts DEF SentInv
    <2>3. sent' <= total_expires' /\ (Count > 0 => sent' <= Count)
      BY <1>a, <1>b, <2>1, <2>2 DEF SentInv
    <2> QED BY <1>a, <2>1, <2>3 DEF SentInv, NeverTooMany, Count
  <1>2. CASE Finish \/ Loop \/ Rest
    BY <1>2, <1>a, NoProbe DEF Finish, Loop, Rest, SentInv, world, timers, probes, vars
  <1>3. CASE Poll
    <2>1. "timer" \in ready' => expired' > 0
      BY <1>3 DEF Poll, Ready, world, timers
    <2> QED BY <1>3, <1>a, <2>1, NoProbe DEF Poll, probes
  <1>4. CASE OnSignal \/ OnTimeout \/ OnSocket \/ OnSocketError
    BY <1>4, <1>a, NoProbe
    DEF OnSignal, OnTimeout, OnSocket, OnSocketError, Handles, Continue, SentInv, probes
  <1>5. CASE OnTimer
    <2>1. /\ "timer" \in ready /\ ready' = ready \ {"timer"} /\ pc' # "start" /\ opt' = opt
          /\ total_expires' = total_expires + expired
          /\ IF AllExpired THEN UNCHANGED <<sent, brd_sent>> ELSE send_pack
      BY <1>5 DEF OnTimer, Handles, Continue, probes
    <2>2. expired > 0
      BY <1>a, <2>1 DEF SentInv
    <2>3. sent' \in Nat /\ sent' <= sent + 1
      BY <1>a, <2>1, SendCounts
    <2>4. sent' <= total_expires'
      BY <1>a, <2>1, <2>2, <2>3 DEF SentInv
    <2>5. Count > 0 => sent' <= Count
      <3>1. CASE AllExpired
        BY <1>a, <2>1, <3>1 DEF SentInv, NeverTooMany
      <3>2. CASE ~AllExpired
        BY <1>a, <1>b, <2>1, <2>3, <2>4, <3>2 DEF AllExpired
      <3> QED BY <3>1, <3>2
    <2> QED BY <2>1, <2>4, <2>5 DEF SentInv, NeverTooMany, Count
  <1>6. ASSUME NEW p \in Packets, Arrives(p) PROVE SentInv'
    BY <1>6, <1>a, NoProbe DEF Arrives, SentInv, timers, probes
  <1>7. ASSUME NEW e \in Errors \ {"none"}, SocketFails(e) PROVE SentInv'
    BY <1>7, <1>a, NoProbe DEF SocketFails, SentInv, timers, probes
  <1>8. CASE Interrupt
    BY <1>8, <1>a, NoProbe DEF Interrupt, SentInv, timers, probes
  <1>9. CASE Tick
    <2>1. "timer" \in ready' => expired' > 0
      BY <1>9, <1>a DEF Tick, SentInv
    <2> QED BY <1>9, <1>a, <2>1, NoProbe DEF Tick, probes
  <1> QED
    BY <1>1, <1>2, <1>3, <1>4, <1>5, <1>6, <1>7, <1>8, <1>9 DEF Next, Process

-----------------------------------------------------------------------------
(* -f and -D.                                                              *)

(* A step that reads no answer and does not go back to polling or handling.*)
LEMMA NoAnswer ==
    ASSUME AnsweredInv, QuitFirst, UNCHANGED <<opt, received, unicasting>>,
           exit_loop => exit_loop', pc \in {"loop", "done"} /\ exit_loop => pc' \in {"loop", "done"},
           pc' = "start" => pc = "start"
    PROVE  AnsweredInv' /\ QuitFirst'
  BY DEF AnsweredInv, QuitFirst, QuitOnReply, BroadcastOnly

LEMMA NextAnsweredInv ==
    ASSUME IInv, Next
    PROVE  AnsweredInv' /\ QuitFirst'
  <1>a. AnsweredInv /\ QuitFirst /\ opt \in Options /\ received \in Nat /\ exit_loop \in BOOLEAN
        /\ ready \subseteq Descriptors
    BY DEF IInv, TypeOK, Descriptors
  <1>1. CASE Start \/ Finish \/ Loop \/ Poll \/ Rest
    BY <1>1, <1>a, NoAnswer DEF Start, Finish, Loop, Poll, Rest, answers, vars
  <1>2. CASE OnSignal \/ OnTimer \/ OnTimeout
    BY <1>2, <1>a, NoAnswer DEF OnSignal, OnTimer, OnTimeout, Handles, Continue, answers
  <1>3. CASE OnSocketError
    BY <1>3, <1>a, NoAnswer DEF OnSocketError, Handles, answers
  <1>4. CASE OnSocket
    <2>1. /\ pc = "handle" /\ ready \intersect {"signal", "timer", "timeout"} = {}
          /\ ready' = ready \ {"socket"} /\ opt' = opt
          /\ pc' = IF ready' = {} THEN "loop" ELSE "handle"
          /\ UNCHANGED <<answers, exit_loop>> \/ recv_pack(Head(queue))
      BY <1>4 DEF OnSocket, Handles, Continue
    <2>2. pc' = "loop"
      BY <1>a, <2>1 DEF Descriptors
    <2>3. CASE UNCHANGED <<answers, exit_loop>>
      BY <1>a, <2>1, <2>2, <2>3, NoAnswer DEF answers
    <2>4. CASE recv_pack(Head(queue))
      <3>1. /\ received' = received + 1
            /\ exit_loop' \/ (~QuitOnReply /\ (BroadcastOnly \/ unicasting'))
        BY <2>4, Zenon DEF recv_pack
      <3>2. QuitOnReply => received = 0
        BY <1>a, <2>1 DEF AnsweredInv
      <3>3. QuitFirst'
        BY <2>1, <3>1, <3>2 DEF QuitFirst, QuitOnReply
      <3>4. AnsweredInv'
        BY <2>1, <2>2, <3>1 DEF AnsweredInv, QuitOnReply, BroadcastOnly
      <3> QED BY <3>3, <3>4
    <2> QED BY <2>1, <2>3, <2>4
  <1>5. ASSUME NEW p \in Packets, Arrives(p) PROVE AnsweredInv' /\ QuitFirst'
    BY <1>5, <1>a, NoAnswer DEF Arrives, answers
  <1>6. ASSUME NEW e \in Errors \ {"none"}, SocketFails(e) PROVE AnsweredInv' /\ QuitFirst'
    BY <1>6, <1>a, NoAnswer DEF SocketFails, answers
  <1>7. CASE Interrupt \/ Tick
    BY <1>7, <1>a, NoAnswer DEF Interrupt, Tick, answers
  <1> QED
    BY <1>1, <1>2, <1>3, <1>4, <1>5, <1>6, <1>7 DEF Next, Process

-----------------------------------------------------------------------------
LEMMA InitIInv == Init => IInv
  <1> SUFFICES ASSUME Init PROVE IInv
    OBVIOUS
  <1>1. TypeOK /\ ReadInv
    BY InitTypeOK
  <1>2. sent = 0 /\ total_expires = 1 /\ ready = {} /\ received = 0
    BY DEF Init
  <1>3. SentInv
    BY <1>1, <1>2, OptionTypes DEF TypeOK, SentInv, NeverTooMany
  <1>4. AnsweredInv /\ QuitFirst
    BY <1>2 DEF AnsweredInv, QuitFirst
  <1> QED BY <1>1, <1>3, <1>4 DEF IInv

LEMMA NextIInv == IInv /\ [Next]_vars => IInv'
  <1> SUFFICES ASSUME IInv, [Next]_vars PROVE IInv'
    OBVIOUS
  <1>1. CASE Next
    <2>1. QueueOK' /\ TimersOK' /\ LoopOK'
      BY <1>1, TypeSplit, NextQueueOK, NextTimersOK, NextLoopOK DEF IInv
    <2>2. TypeOK' /\ ReadInv'
      BY <2>1 DEF TypeOK, QueueOK, TimersOK, LoopOK, Descriptors
    <2> QED BY <1>1, <2>2, NextSentInv, NextAnsweredInv DEF IInv
  <1>2. CASE UNCHANGED vars
    BY <1>2 DEF IInv, TypeOK, ReadInv, SentInv, NeverTooMany, AnsweredInv, QuitFirst, vars, world,
           timers, probes, answers, Count, QuitOnReply, BroadcastOnly, Timeout, Interval
  <1> QED BY <1>1, <1>2

LEMMA Invariance == Spec => []IInv
  BY InitIInv, NextIInv, PTL DEF Spec

(* Types; every answer counted had arrived.                                *)
THEOREM TypeCorrect == Spec => []TypeOK
  <1>1. IInv => TypeOK
    BY DEF IInv
  <1> QED BY <1>1, Invariance, PTL

(* -c holds for every count and interval, however late the process is and  *)
(* however many expirations one read() of the timer brings.                *)
THEOREM CountKept == Spec => []NeverTooMany
  <1>1. IInv => NeverTooMany
    BY DEF IInv, SentInv
  <1> QED BY <1>1, Invariance, PTL

(* With -f or -D one answer is read at most, whatever else is queued.      *)
THEOREM FirstAnswerEnds == Spec => []QuitFirst
  <1>1. IInv => QuitFirst
    BY DEF IInv
  <1> QED BY <1>1, Invariance, PTL

(* After an answer arping never broadcasts again, unless -b was given.     *)
THEOREM NoBroadcastAfterAnswer == Spec => UnicastAfterAnswer
  <1>1. ASSUME IInv, [Next]_vars
        PROVE  [received > 0 /\ ~BroadcastOnly => brd_sent' = brd_sent]_vars
    <2> SUFFICES ASSUME Next, received > 0, ~BroadcastOnly PROVE brd_sent' = brd_sent
      BY <1>1
    <2>1. pc # "start" /\ (unicasting \/ pc # "handle")
      BY <1>1 DEF IInv, AnsweredInv
    <2>2. brd_sent' = brd_sent \/ (send_pack /\ pc \in {"start", "handle"})
      BY DEF Next, Process, Start, Finish, Loop, Poll, OnSignal, OnTimer, OnTimeout, OnSocket,
             OnSocketError, Handles, Arrives, SocketFails, Interrupt, Tick, Rest, vars, probes
    <2> QED BY <1>1, <2>1, <2>2, SendCounts DEF IInv, TypeOK
  <1> QED
    BY <1>1, Invariance, PTL DEF Spec, UnicastAfterAnswer

-----------------------------------------------------------------------------
(* The loop does not spin.                                                 *)

(* The signal that poll() reported is still there when it is read.         *)
SignalInv == "signal" \in ready => signal

LEMMA NextSignalInv == ASSUME SignalInv, [Next]_vars PROVE SignalInv'
  <1>1. CASE Poll
    BY <1>1 DEF Poll, Ready, SignalInv, world
  <1>2. CASE OnSignal
    BY <1>2 DEF OnSignal, Handles, SignalInv
  <1>3. CASE OnTimer \/ OnTimeout \/ OnSocket \/ OnSocketError
    <2>1. ready' \subseteq ready /\ signal' = signal
      BY <1>3 DEF OnTimer, OnTimeout, OnSocket, OnSocketError, Handles
    <2> QED BY <2>1 DEF SignalInv
  <1>4. CASE Start \/ Finish \/ Loop \/ Tick \/ Rest \/ UNCHANGED vars
    <2>1. UNCHANGED <<ready, signal>>
      BY <1>4 DEF Start, Finish, Loop, Tick, Rest, vars, world
    <2> QED BY <2>1 DEF SignalInv
  <1>5. CASE Interrupt
    BY <1>5 DEF Interrupt, SignalInv
  <1>6. ASSUME NEW p, Arrives(p) PROVE SignalInv'
    BY <1>6 DEF Arrives, SignalInv
  <1>7. ASSUME NEW e, SocketFails(e) PROVE SignalInv'
    BY <1>7 DEF SocketFails, SignalInv
  <1> QED BY <1>1, <1>2, <1>3, <1>4, <1>5, <1>6, <1>7, Zenon DEF Next, Process

LEMMA SignalInvariance == Spec => []SignalInv
  <1>1. Init => SignalInv
    BY DEF Init, SignalInv
  <1> QED BY <1>1, NextSignalInv, PTL DEF Spec

(* A tuple falls where its first differing component does.                 *)
LEMMA Falls ==
    ASSUME NEW u, NEW v, Len(v) = 6, \A i \in 1..6 : u[i] \in Nat /\ v[i] \in Nat,
           \/ u[1] < v[1]
           \/ u[1] = v[1] /\ u[2] < v[2]
           \/ u[1] = v[1] /\ u[2] = v[2] /\ u[3] < v[3]
           \/ u[1] = v[1] /\ u[2] = v[2] /\ u[3] = v[3] /\ u[4] < v[4]
           \/ u[1] = v[1] /\ u[2] = v[2] /\ u[3] = v[3] /\ u[4] = v[4] /\ u[5] < v[5]
           \/ u[1] = v[1] /\ u[2] = v[2] /\ u[3] = v[3] /\ u[4] = v[4] /\ u[5] = v[5] /\ u[6] < v[6]
    PROVE  LexLess(u, v)
  <1>1. /\ u[1] \in Nat /\ v[1] \in Nat
        /\ u[2] \in Nat /\ v[2] \in Nat
        /\ u[3] \in Nat /\ v[3] \in Nat
        /\ u[4] \in Nat /\ v[4] \in Nat
        /\ u[5] \in Nat /\ v[5] \in Nat
        /\ u[6] \in Nat /\ v[6] \in Nat
    OBVIOUS
  <1>2. ASSUME NEW k \in 1..6, u[k] \in 0..(v[k] - 1), \A j \in 1..(k - 1) : u[j] = v[j]
        PROVE  LexLess(u, v)
    BY <1>2 DEF LexLess
  <1>3. CASE u[1] < v[1]
    <2>1. 1 \in 1..6 /\ u[1] \in 0..(v[1] - 1)
      BY <1>1, <1>3
    <2>2. \A j \in 1..(1 - 1) : u[j] = v[j]
      <3> SUFFICES ASSUME NEW j \in 1..(1 - 1) PROVE u[j] = v[j]
        OBVIOUS
      <3>1. FALSE
        OBVIOUS
      <3> QED BY <1>3, <3>1
    <2> QED BY <1>2, <2>1, <2>2, Zenon
  <1>4. CASE u[1] = v[1] /\ u[2] < v[2]
    <2>1. 2 \in 1..6 /\ u[2] \in 0..(v[2] - 1)
      BY <1>1, <1>4
    <2>2. \A j \in 1..(2 - 1) : u[j] = v[j]
      <3> SUFFICES ASSUME NEW j \in 1..(2 - 1) PROVE u[j] = v[j]
        OBVIOUS
      <3>1. j = 1
        OBVIOUS
      <3> QED BY <1>4, <3>1
    <2> QED BY <1>2, <2>1, <2>2, Zenon
  <1>5. CASE u[1] = v[1] /\ u[2] = v[2] /\ u[3] < v[3]
    <2>1. 3 \in 1..6 /\ u[3] \in 0..(v[3] - 1)
      BY <1>1, <1>5
    <2>2. \A j \in 1..(3 - 1) : u[j] = v[j]
      <3> SUFFICES ASSUME NEW j \in 1..(3 - 1) PROVE u[j] = v[j]
        OBVIOUS
      <3>1. j = 1 \/ j = 2
        OBVIOUS
      <3> QED BY <1>5, <3>1
    <2> QED BY <1>2, <2>1, <2>2, Zenon
  <1>6. CASE u[1] = v[1] /\ u[2] = v[2] /\ u[3] = v[3] /\ u[4] < v[4]
    <2>1. 4 \in 1..6 /\ u[4] \in 0..(v[4] - 1)
      BY <1>1, <1>6
    <2>2. \A j \in 1..(4 - 1) : u[j] = v[j]
      <3> SUFFICES ASSUME NEW j \in 1..(4 - 1) PROVE u[j] = v[j]
        OBVIOUS
      <3>1. j = 1 \/ j = 2 \/ j = 3
        OBVIOUS
      <3> QED BY <1>6, <3>1
    <2> QED BY <1>2, <2>1, <2>2, Zenon
  <1>7. CASE u[1] = v[1] /\ u[2] = v[2] /\ u[3] = v[3] /\ u[4] = v[4] /\ u[5] < v[5]
    <2>1. 5 \in 1..6 /\ u[5] \in 0..(v[5] - 1)
      BY <1>1, <1>7
    <2>2. \A j \in 1..(5 - 1) : u[j] = v[j]
      <3> SUFFICES ASSUME NEW j \in 1..(5 - 1) PROVE u[j] = v[j]
        OBVIOUS
      <3>1. j = 1 \/ j = 2 \/ j = 3 \/ j = 4
        OBVIOUS
      <3> QED BY <1>7, <3>1
    <2> QED BY <1>2, <2>1, <2>2, Zenon
  <1>8. CASE u[1] = v[1] /\ u[2] = v[2] /\ u[3] = v[3] /\ u[4] = v[4] /\ u[5] = v[5] /\ u[6] < v[6]
    <2>1. 6 \in 1..6 /\ u[6] \in 0..(v[6] - 1)
      BY <1>1, <1>8
    <2>2. \A j \in 1..(6 - 1) : u[j] = v[j]
      <3> SUFFICES ASSUME NEW j \in 1..(6 - 1) PROVE u[j] = v[j]
        OBVIOUS
      <3>1. j = 1 \/ j = 2 \/ j = 3 \/ j = 4 \/ j = 5
        OBVIOUS
      <3> QED BY <1>8, <3>1
    <2> QED BY <1>2, <2>1, <2>2, Zenon
  <1> QED BY <1>3, <1>4, <1>5, <1>6, <1>7, <1>8, Zenon

(* What is left is a tuple of naturals.                                    *)
LEMMA LeftType ==
    ASSUME TypeOK
    PROVE  /\ Bit(~exit_loop) \in Nat /\ Bit(signal) \in Nat /\ Bit(expired > 0) \in Nat
           /\ Len(queue) \in Nat /\ Bit(sockerr # "none") \in Nat /\ Position \in Nat
  <1>1. Position \in Nat
    BY DEF Position
  <1>2. Len(queue) \in Nat
    BY DEF TypeOK
  <1> QED BY <1>1, <1>2 DEF Bit

(* Where exit_loop is set at last, the rest does not matter.               *)
LEMMA ExitFalls ==
    ASSUME exit_loop \in BOOLEAN, exit_loop' \in BOOLEAN, exit_loop => exit_loop'
    PROVE  \/ Bit(~exit_loop)' < Bit(~exit_loop)
           \/ Bit(~exit_loop)' = Bit(~exit_loop) /\ exit_loop' = exit_loop
  BY DEF Bit

(* What each step of the process uses up.                                  *)
LEMMA ProcessFalls ==
    ASSUME TypeOK, TypeOK', SentInv, SignalInv, Process
    PROVE  \/ Bit(~exit_loop)' < Bit(~exit_loop)
           \/ /\ Bit(~exit_loop)' = Bit(~exit_loop)
              /\ \/ Bit(signal)' < Bit(signal)
                 \/ Bit(signal)' = Bit(signal) /\ Bit(expired > 0)' < Bit(expired > 0)
                 \/ /\ Bit(signal)' = Bit(signal) /\ Bit(expired > 0)' = Bit(expired > 0)
                    /\ \/ Len(queue)' < Len(queue)
                       \/ /\ Len(queue)' = Len(queue)
                          /\ Bit(sockerr # "none")' < Bit(sockerr # "none")
                       \/ /\ Len(queue)' = Len(queue)
                          /\ Bit(sockerr # "none")' = Bit(sockerr # "none")
                          /\ Position' < Position
  <1>1. exit_loop \in BOOLEAN /\ exit_loop' \in BOOLEAN
    BY DEF TypeOK
  <1>2. CASE Start \/ Finish \/ Loop \/ Poll
    <2>1. UNCHANGED <<exit_loop, signal, expired, queue, sockerr>>
      BY <1>2 DEF Start, Finish, Loop, Poll, world, timers
    <2>2. Position' < Position
      <3>1. CASE Start
        <4>1. pc = "start" /\ pc' = "loop"
          BY <3>1 DEF Start
        <4>2. Position = 6 /\ (Position' = 1 \/ Position' = 5)
          BY <4>1 DEF Position
        <4> QED BY <4>2
      <3>2. CASE Finish
        <4>1. pc = "loop" /\ pc' = "done"
          BY <3>2 DEF Finish
        <4>2. (Position = 1 \/ Position = 5) /\ Position' = 0
          BY <4>1 DEF Position
        <4> QED BY <4>2
      <3>3. CASE Loop
        <4>1. pc = "loop" /\ ~exit_loop /\ pc' = "poll"
          BY <3>3 DEF Loop
        <4>2. Position = 5 /\ Position' = 4
          BY <4>1 DEF Position
        <4> QED BY <4>2
      <3>4. CASE Poll
        <4>1. pc = "poll" /\ pc' = "handle"
          BY <3>4 DEF Poll
        <4>2. Position = 4 /\ (Position' = 3 \/ Position' = 2)
          BY <4>1 DEF Position
        <4> QED BY <4>2
      <3> QED BY <1>2, <3>1, <3>2, <3>3, <3>4
    <2> QED BY <2>1, <2>2 DEF Bit
  <1>3. CASE OnSignal
    <2>1. exit_loop' = TRUE /\ signal /\ signal' = FALSE
      BY <1>3 DEF OnSignal, Handles, SignalInv
    <2>2. Bit(signal)' < Bit(signal)
      BY <2>1 DEF Bit
    <2> QED BY <1>1, <2>1, <2>2, ExitFalls, Zenon
  <1>4. CASE OnTimer
    <2>1. /\ exit_loop => exit_loop'
          /\ signal' = signal /\ expired > 0 /\ expired' = 0
      BY <1>1, <1>4 DEF OnTimer, Handles, SentInv
    <2>2. Bit(signal)' = Bit(signal) /\ Bit(expired > 0)' < Bit(expired > 0)
      BY <2>1 DEF Bit
    <2> QED BY <1>1, <2>1, <2>2, ExitFalls
  <1>5. CASE OnTimeout
    <2>1. /\ exit_loop' = TRUE /\ UNCHANGED <<signal, expired, queue, sockerr>>
          /\ pc = "handle" /\ "timeout" \in ready /\ "timeout" \notin ready'
          /\ pc' = "loop" \/ pc' = "handle"
      BY <1>5 DEF OnTimeout, Handles, Continue
    <2>2. Position = 3 /\ (Position' = 1 \/ Position' = 2)
      BY <2>1 DEF Position
    <2>3. /\ Bit(signal)' = Bit(signal) /\ Bit(expired > 0)' = Bit(expired > 0)
          /\ Len(queue)' = Len(queue) /\ Bit(sockerr # "none")' = Bit(sockerr # "none")
      BY <2>1 DEF Bit
    <2>4. Position' < Position
      BY <2>2
    <2> QED BY <1>1, <2>1, <2>3, <2>4, ExitFalls, Zenon
  <1>6. CASE OnSocket
    <2>1. /\ exit_loop => exit_loop'
          /\ UNCHANGED <<signal, expired>> /\ queue # <<>> /\ queue' = Tail(queue)
      BY <1>1, <1>6 DEF OnSocket, Handles, recv_pack
    <2>2. Len(queue') < Len(queue)
      BY <2>1 DEF TypeOK
    <2>3. Bit(signal)' = Bit(signal) /\ Bit(expired > 0)' = Bit(expired > 0)
      BY <2>1 DEF Bit
    <2> QED BY <1>1, <2>1, <2>2, <2>3, ExitFalls
  <1>7. CASE OnSocketError
    <2>1. UNCHANGED <<exit_loop, signal, expired, queue>> /\ sockerr # "none" /\ sockerr' = "none"
      BY <1>7 DEF OnSocketError, Handles
    <2>2. Bit(sockerr # "none")' < Bit(sockerr # "none")
      BY <2>1 DEF Bit
    <2> QED BY <2>1, <2>2 DEF Bit
  <1> QED BY <1>2, <1>3, <1>4, <1>5, <1>6, <1>7, Zenon DEF Process

(* For every load and delay, event_loop() takes finitely many steps        *)
(* between two events of the world: it comes back to poll(), or ends.      *)
THEOREM LoopNeverSpins == Spec => NeverSpins
  <1>1. ASSUME IInv, IInv', SignalInv, Process PROVE LexLess(Left', Left)
    <2>1. TypeOK /\ TypeOK' /\ SentInv
      BY <1>1 DEF IInv
    <2>2. /\ Bit(~exit_loop) \in Nat /\ Bit(signal) \in Nat /\ Bit(expired > 0) \in Nat
          /\ Len(queue) \in Nat /\ Bit(sockerr # "none") \in Nat /\ Position \in Nat
      BY <2>1, LeftType, Zenon
    <2>3. /\ Bit(~exit_loop)' \in Nat /\ Bit(signal)' \in Nat /\ Bit(expired > 0)' \in Nat
          /\ Len(queue)' \in Nat /\ Bit(sockerr # "none")' \in Nat /\ Position' \in Nat
      <3>1. (TypeOK =>
              /\ Bit(~exit_loop) \in Nat /\ Bit(signal) \in Nat /\ Bit(expired > 0) \in Nat
              /\ Len(queue) \in Nat /\ Bit(sockerr # "none") \in Nat /\ Position \in Nat)'
        BY LeftType, PTL
      <3> QED BY <2>1, <3>1, Zenon
    <2> DEFINE u == Left'
               v == Left
    <2>4. /\ Len(v) = 6
          /\ u[1] = Bit(~exit_loop)' /\ v[1] = Bit(~exit_loop)
          /\ u[2] = Bit(signal)' /\ v[2] = Bit(signal)
          /\ u[3] = Bit(expired > 0)' /\ v[3] = Bit(expired > 0)
          /\ u[4] = Len(queue)' /\ v[4] = Len(queue)
          /\ u[5] = Bit(sockerr # "none")' /\ v[5] = Bit(sockerr # "none")
          /\ u[6] = Position' /\ v[6] = Position
      BY DEF Left
    <2>5. LexLess(u, v) => LexLess(Left', Left)
      OBVIOUS
    <2> HIDE DEF u, v
    <2>6. \/ u[1] < v[1]
          \/ u[1] = v[1] /\ u[2] < v[2]
          \/ u[1] = v[1] /\ u[2] = v[2] /\ u[3] < v[3]
          \/ u[1] = v[1] /\ u[2] = v[2] /\ u[3] = v[3] /\ u[4] < v[4]
          \/ u[1] = v[1] /\ u[2] = v[2] /\ u[3] = v[3] /\ u[4] = v[4] /\ u[5] < v[5]
          \/ u[1] = v[1] /\ u[2] = v[2] /\ u[3] = v[3] /\ u[4] = v[4] /\ u[5] = v[5] /\ u[6] < v[6]
      BY <1>1, <2>1, <2>4, ProcessFalls
    <2>7. \A i \in 1..6 : u[i] \in Nat /\ v[i] \in Nat
      <3> SUFFICES ASSUME NEW i \in 1..6 PROVE u[i] \in Nat /\ v[i] \in Nat
        OBVIOUS
      <3>1. i = 1 \/ i = 2 \/ i = 3 \/ i = 4 \/ i = 5 \/ i = 6
        OBVIOUS
      <3> QED BY <2>2, <2>3, <2>4, <3>1, Zenon
    <2>8. LexLess(u, v)
      BY <2>4, <2>6, <2>7, Falls, Zenon
    <2> QED BY <2>5, <2>8, Zenon
  <1>2. /\ IInv /\ IInv' /\ SignalInv /\ [Next]_vars
        => [Process => LexLess(Left', Left)]_vars
    BY <1>1, Zenon
  <1> QED BY <1>2, Invariance, SignalInvariance, PTL DEF Spec, NeverSpins
=============================================================================
