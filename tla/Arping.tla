------------------------------- MODULE Arping -------------------------------
(***************************************************************************)
(* arping.c: event_loop() polls a signalfd, the interval timer, the        *)
(* timeout timer and the packet socket, and handles what is ready in that  *)
(* order, with send_pack(), recv_pack() and finish().                      *)
(*                                                                         *)
(* Packets, signals and time are external.  Time passes while the process  *)
(* polls and, if it may be Late, while it handles; a timerfd counts the    *)
(* expirations nobody has read yet.                                        *)
(***************************************************************************)
EXTENDS Integers, Sequences, Descent

CONSTANTS
    Options,       \* the command lines a run may have been given
    Late,          \* may the process be delayed?
    MayInterrupt,  \* may SIGINT, SIGQUIT or SIGTERM come?
    MaxQueue,      \* bound: packets in the socket's queue
    MaxPackets,    \* bound: packets that arrive
    MaxTime,       \* bound: ticks
    MaxFaults      \* bound: sends that fail, errors on the socket

NoCount == -1

(* -c, -w and -i, the latter two in ticks and 0 for no timer; -D; -f, which*)
(* -D implies; -U or -A; -b.                                               *)
CommandLines ==
    [count : {NoCount} \union (Nat \ {0}), timeout : Nat, interval : Nat,
     dad : BOOLEAN, quit : BOOLEAN, unsolicited : BOOLEAN, brd : BOOLEAN]

ASSUME ArpingAssumption ==
    /\ \A o \in Options : o \in CommandLines /\ (o.dad => o.quit)
    /\ Late \in BOOLEAN /\ MayInterrupt \in BOOLEAN
    /\ MaxQueue \in Nat /\ MaxPackets \in Nat /\ MaxTime \in Nat
    /\ MaxFaults \in Nat

Disarmed == -1

(* What arrives: an answer, which is an ARP reply or an ARP request, sent  *)
(* to us or broadcast; or a packet that recv_pack() filters out.           *)
Requests == {"request", "brd_request"}
Broadcasts == {"brd_reply", "brd_request"}
Answers == {"reply"} \union Requests \union Broadcasts
Packets == Answers \union {"other"}

Errors == {"none", "ENETDOWN", "transient"}

VARIABLES
    opt,            \* what main() made of the command line
    pc,             \* start, loop, poll, handle, done
    ready,          \* the descriptors poll() reported and not yet handled
    exit_loop, status,
    sent, brd_sent, received, brd_recv, req_recv, unicasting,
    total_expires,
    expired,        \* unread expirations of the interval timer
    ileft, tleft,   \* ticks to the next expiration of either timer
    timedOut,       \* the timeout timer has expired
    signal,
    queue,          \* the socket's receive queue
    sockerr,        \* the error recvfrom() will report
    inTime,         \* history: how many of queue came before the timeout
    arrived, time, faults

probes == <<sent, brd_sent>>
answers == <<received, brd_recv, req_recv, unicasting>>
timers == <<expired, ileft, tleft, timedOut, time>>
world == <<timers, signal, queue, sockerr, inTime, arrived>>
vars == <<opt, pc, ready, exit_loop, status, probes, answers, total_expires, world,
          faults>>

Count == opt.count
Timeout == opt.timeout
Interval == opt.interval
Dad == opt.dad
QuitOnReply == opt.quit
Unsolicited == opt.unsolicited
BroadcastOnly == opt.brd

(* Faulty variant: only it_interval is set.                                *)
ArmedNever(t) == Disarmed

(* timerfd_settime(): an it_value of 0 disarms.                            *)
Armed(t) == IF t = 0 THEN Disarmed ELSE t

Init ==
    /\ opt \in Options
    /\ pc = "start" /\ ready = {} /\ exit_loop = FALSE /\ status = -1
    /\ sent = 0 /\ brd_sent = 0
    /\ received = 0 /\ brd_recv = 0 /\ req_recv = 0 /\ unicasting = FALSE
    /\ total_expires = 1
    /\ expired = 0 /\ ileft = Armed(Interval) /\ tleft = Armed(Timeout)
    /\ timedOut = FALSE /\ signal = FALSE
    /\ queue = <<>> /\ sockerr = "none" /\ inTime = 0
    /\ arrived = 0 /\ time = 0 /\ faults = MaxFaults

-----------------------------------------------------------------------------
send_pack ==
    \/ /\ sent' = sent + 1
       /\ brd_sent' = IF unicasting THEN brd_sent ELSE brd_sent + 1
       /\ UNCHANGED faults
    \/ /\ faults > 0
       /\ faults' = faults - 1
       /\ UNCHANGED probes

Start ==
    /\ pc = "start"
    /\ pc' = "loop"
    /\ send_pack
    /\ UNCHANGED <<opt, ready, exit_loop, status, answers, total_expires, world>>

(* finish(): the exit status.                                              *)
Status ==
    LET alive == IF received > 0 THEN 0 ELSE 1
    IN  IF Dad THEN 1 - alive
        ELSE IF Unsolicited THEN 0
        ELSE IF Timeout > 0 /\ Count > 0 /\ ~QuitOnReply
             THEN IF Count <= received THEN 0 ELSE 1
        ELSE alive

Finish ==
    /\ pc = "loop"
    /\ exit_loop \/ (sent = Count /\ Unsolicited)
    /\ pc' = "done"
    /\ status' = Status
    /\ UNCHANGED <<opt, ready, exit_loop, probes, answers, total_expires, world,
                   faults>>

Ready ==
    (IF signal THEN {"signal"} ELSE {}) \union
    (IF expired > 0 THEN {"timer"} ELSE {}) \union
    (IF timedOut THEN {"timeout"} ELSE {}) \union
    (IF queue # <<>> \/ sockerr # "none" THEN {"socket"} ELSE {})

Loop ==
    /\ pc = "loop"
    /\ ~exit_loop /\ ~(sent = Count /\ Unsolicited)
    /\ pc' = "poll"
    /\ UNCHANGED <<opt, ready, exit_loop, status, probes, answers, total_expires,
                   world, faults>>

Poll ==
    /\ pc = "poll" /\ Ready # {}
    /\ ready' = Ready
    /\ pc' = "handle"
    /\ UNCHANGED <<opt, exit_loop, status, probes, answers, total_expires, world,
                   faults>>

(* The descriptors are handled in the order of pfds.                       *)
Handles(fd, before) ==
    /\ pc = "handle"
    /\ fd \in ready /\ ready \intersect before = {}
    /\ ready' = ready \ {fd}
    /\ UNCHANGED <<opt, ileft, tleft, timedOut, time, arrived>>

(* The pass goes on with the next descriptor, or is over.                  *)
Continue ==
    /\ pc' = IF ready' = {} THEN "loop" ELSE "handle"
    /\ UNCHANGED <<status, sockerr>>

OnSignal ==
    /\ Handles("signal", {}) /\ Continue
    /\ signal' = FALSE
    /\ exit_loop' = TRUE
    /\ UNCHANGED <<probes, answers, total_expires, expired, queue, inTime,
                   faults>>

(* Faulty variant: one probe too many.                                     *)
AllExpiredLate == 0 < Count /\ Count + 1 < total_expires + expired

AllExpired == 0 < Count /\ Count < total_expires + expired

OnTimer ==
    /\ Handles("timer", {"signal"}) /\ Continue
    /\ total_expires' = total_expires + expired
    /\ expired' = 0
    /\ IF AllExpired
       THEN exit_loop' = TRUE /\ UNCHANGED <<probes, faults>>
       ELSE send_pack /\ UNCHANGED exit_loop
    /\ UNCHANGED <<answers, signal, queue, inTime>>

(* Faulty variant: the timeout is read and forgotten.                      *)
OnTimeoutIgnored ==
    /\ Handles("timeout", {"signal", "timer"}) /\ Continue
    /\ UNCHANGED <<exit_loop, probes, answers, total_expires, expired, signal,
                   queue, inTime, faults>>

OnTimeout ==
    /\ Handles("timeout", {"signal", "timer"}) /\ Continue
    /\ exit_loop' = TRUE
    /\ UNCHANGED <<probes, answers, total_expires, expired, signal, queue,
                   inTime, faults>>

(* Faulty variants: the answer counts but does not end the loop; the       *)
(* answer is taken for the last one but its sender is not remembered.      *)
recv_packNoQuit(p) ==
    /\ received' = received + 1
    /\ brd_recv' = IF p \in Broadcasts THEN brd_recv + 1 ELSE brd_recv
    /\ req_recv' = IF p \in Requests THEN req_recv + 1 ELSE req_recv
    /\ unicasting' = (unicasting \/ ~BroadcastOnly)
    /\ UNCHANGED exit_loop
recv_packBroadcast(p) ==
    /\ received' = received + 1
    /\ brd_recv' = IF p \in Broadcasts THEN brd_recv + 1 ELSE brd_recv
    /\ req_recv' = IF p \in Requests THEN req_recv + 1 ELSE req_recv
    /\ exit_loop' = (exit_loop \/ QuitOnReply)
    /\ UNCHANGED unicasting

(* recv_pack() on an answer.  The one that completes the count is not      *)
(* told apart by kind.                                                     *)
recv_pack(p) ==
    /\ received' = received + 1
    /\ IF Timeout > 0 /\ received + 1 = Count
       THEN exit_loop' = TRUE /\ UNCHANGED <<brd_recv, req_recv, unicasting>>
       ELSE /\ brd_recv' = IF p \in Broadcasts THEN brd_recv + 1 ELSE brd_recv
            /\ req_recv' = IF p \in Requests THEN req_recv + 1 ELSE req_recv
            /\ exit_loop' = (exit_loop \/ QuitOnReply)
            /\ unicasting' = (unicasting \/ (~QuitOnReply /\ ~BroadcastOnly))

OnSocket ==
    /\ sockerr = "none" /\ queue # <<>>
    /\ Handles("socket", {"signal", "timer", "timeout"}) /\ Continue
    /\ queue' = Tail(queue)
    /\ inTime' = IF inTime > 0 THEN inTime - 1 ELSE 0
    /\ IF Head(queue) = "other"
       THEN UNCHANGED <<answers, exit_loop>>
       ELSE recv_pack(Head(queue))
    /\ UNCHANGED <<probes, total_expires, expired, signal, faults>>

(* recvfrom() fails: ENETDOWN ends the program without finish().           *)
OnSocketError ==
    /\ sockerr # "none"
    /\ Handles("socket", {"signal", "timer", "timeout"})
    /\ sockerr' = "none"
    /\ IF sockerr = "ENETDOWN"
       THEN pc' = "done" /\ status' = 2
       ELSE pc' = "loop" /\ UNCHANGED status
    /\ UNCHANGED <<exit_loop, probes, answers, total_expires, expired, signal,
                   queue, inTime, faults>>

-----------------------------------------------------------------------------
(* The world.                                                              *)

Arrives(p) ==
    /\ pc # "done" /\ Len(queue) < MaxQueue /\ arrived < MaxPackets
    /\ queue' = Append(queue, p)
    /\ arrived' = arrived + 1
    /\ UNCHANGED <<opt, pc, ready, exit_loop, status, probes, answers,
                   total_expires, timers, signal, sockerr, inTime, faults>>

SocketFails(e) ==
    /\ pc # "done" /\ sockerr = "none" /\ faults > 0
    /\ sockerr' = e
    /\ faults' = faults - 1
    /\ UNCHANGED <<opt, pc, ready, exit_loop, status, probes, answers,
                   total_expires, timers, signal, queue, inTime, arrived>>

Interrupt ==
    /\ MayInterrupt /\ pc # "done" /\ ~signal /\ ~exit_loop
    /\ signal' = TRUE
    /\ UNCHANGED <<opt, pc, ready, exit_loop, status, probes, answers,
                   total_expires, timers, queue, sockerr, inTime, arrived,
                   faults>>

(* Timers are periodic; the time of day is kept only to bound the run.     *)
Tick ==
    /\ pc # "done" /\ pc # "start" /\ time < MaxTime
    /\ Late \/ (pc = "poll" /\ Ready = {})
    /\ time' = time + 1
    /\ expired' = IF ileft = 1 THEN expired + 1 ELSE expired
    /\ ileft' = IF ileft = Disarmed THEN Disarmed
                ELSE IF ileft = 1 THEN Interval ELSE ileft - 1
    /\ timedOut' = (timedOut \/ tleft = 1)
    /\ tleft' = IF tleft = Disarmed THEN Disarmed
                ELSE IF tleft = 1 THEN Timeout ELSE tleft - 1
    /\ inTime' = IF tleft = 1 /\ ~timedOut THEN Len(queue) ELSE inTime
    /\ UNCHANGED <<opt, pc, ready, exit_loop, status, probes, answers,
                   total_expires, signal, queue, sockerr, arrived, faults>>

(* Finished, or nothing more can happen within the bounds.                 *)
Rest ==
    /\ pc = "done" \/ (pc = "poll" /\ Ready = {} /\ time = MaxTime)
    /\ UNCHANGED vars

Process ==
    \/ Start \/ Finish \/ Loop \/ Poll
    \/ OnSignal \/ OnTimer \/ OnTimeout \/ OnSocket
    \/ OnSocketError

Next ==
    \/ Process
    \/ \E p \in Packets : Arrives(p)
    \/ \E e \in Errors \ {"none"} : SocketFails(e)
    \/ Interrupt \/ Tick \/ Rest

Spec == Init /\ [][Next]_vars

(* The process is scheduled, and time goes on.                             *)
FairSpec == Spec /\ WF_vars(Process) /\ WF_vars(Tick)

-----------------------------------------------------------------------------
(* Types of the counters, the timers and the socket's queue.               *)
TypeOK ==
    /\ opt \in Options
    /\ pc \in {"start", "loop", "poll", "handle", "done"}
    /\ ready \subseteq {"signal", "timer", "timeout", "socket"}
    /\ exit_loop \in BOOLEAN /\ status \in {-1, 0, 1, 2}
    /\ sent \in Nat /\ brd_sent \in 0 .. sent
    /\ received \in 0 .. arrived
    /\ brd_recv \in 0 .. received /\ req_recv \in 0 .. received
    /\ unicasting \in BOOLEAN
    /\ total_expires \in Nat /\ expired \in Nat
    /\ ileft \in {Disarmed} \union 1 .. Interval
    /\ tleft \in {Disarmed} \union 1 .. Timeout
    /\ timedOut \in BOOLEAN /\ signal \in BOOLEAN
    /\ queue \in Seq(Packets) /\ inTime \in 0 .. Len(queue)
    /\ sockerr \in Errors /\ arrived \in Nat
    /\ time \in 0 .. MaxTime /\ faults \in Nat

(* -c is never exceeded, however the timer's expirations pile up and       *)
(* whatever else is ready in the same pass.                                *)
NeverTooMany == Count > 0 => sent <= Count

(* With -f or -D the first answer that is read is the last: one pass reads *)
(* one packet and no other pass follows.                                   *)
QuitFirst == QuitOnReply => received <= 1

(* Once an answer has been read no probe is broadcast any more, without -b.*)
UnicastAfterAnswer ==
    [][received > 0 /\ ~BroadcastOnly => brd_sent' = brd_sent]_vars

(* What is still to be handled, and how far event_loop() is in its pass.   *)
Bit(b) == IF b THEN 1 ELSE 0
Position ==
    CASE pc = "start" -> 6
      [] pc = "loop" -> IF exit_loop THEN 1 ELSE 5
      [] pc = "poll" -> 4
      [] pc = "handle" -> IF "timeout" \in ready THEN 3 ELSE 2
      [] OTHER -> 0
Left ==
    <<Bit(~exit_loop), Bit(signal), Bit(expired > 0), Len(queue), Bit(sockerr # "none"),
      Position>>

(* event_loop() never spins: each of its steps uses up something that was  *)
(* ready, or comes nearer to the next poll() or to finish(), so between    *)
(* two events of the world it takes finitely many steps.  In particular    *)
(* the timeout's descriptor, which is never read, stays ready and does not *)
(* keep the loop busy.                                                     *)
NeverSpins == [][Process => LexLess(Left', Left)]_vars

(* With -c or -w and a running interval timer arping ends, also when every *)
(* send fails.                                                             *)
Terminates == <>(pc = "done")

(* The manual on -c with -w: instead of stopping after count probes, wait  *)
(* for count replies or until the timeout expires (unless interrupted).    *)
WaitsForCount ==
    pc = "done" /\ Timeout > 0 => received >= Count \/ timedOut

(* The manual on -c: stop after sending count packets (unless interrupted).*)
StopsAfterCount == pc = "done" => sent = Count

(* The manual on -D: returns 0 if no replies are received.  So no answer   *)
(* that reached the socket before the timeout is unread when DAD succeeds. *)
NoLostConflict ==
    pc = "done" /\ Dad /\ status = 0
        => \A i \in 1 .. inTime : queue[i] = "other"
=============================================================================
