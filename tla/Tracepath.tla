----------------------------- MODULE Tracepath ------------------------------
(***************************************************************************)
(* tracepath.c: probe_ttl() sends UDP datagrams with a growing TTL,        *)
(* recverr() drains the socket's error queue, and main() moves from hop to *)
(* hop and shrinks the datagrams to the path MTU.                          *)
(*                                                                         *)
(* The network is external: Links[k] is the MTU of the k-th link of the    *)
(* path.  Each probe draws at most one answer (the network may duplicate   *)
(* some), which may come late and, on a path that is not fifo, out of      *)
(* order.                                                                  *)
(***************************************************************************)
EXTENDS Integers, Sequences, FiniteSets, Descent

CONSTANTS
    Slots,        \* HIS_ARRAY_SIZE
    TtlMod,       \* values of the uint8_t ttl, 256 in the code
    MaxHops,      \* -m
    MaxProbes,    \* MAX_PROBES
    Tries,        \* probes per hop, 3 in the code
    StartMtu,     \* -l, or the default
    Links,        \* MTU of each link, the first one our own device's
    IPv6,         \* IPV6_UNICAST_HOPS takes 0, IP_TTL does not
    Orders,       \* kinds of paths, by fifo: answers come in the order of the probes
    Echoes,       \* do errors bring the payload back ("full") or not ("none",
                  \* or overwritten)?
    ReturnTtl,    \* TTL left in the target's answer
    MaxAge,       \* an answer comes before MaxAge more probes are sent
    MaxFaults     \* bound: duplicates, failing sends, fatal errors

ASSUME TracepathAssumption ==
    /\ Slots \in Nat \ {0} /\ TtlMod \in Nat \ {0} /\ MaxProbes \in Nat \ {0}
    /\ Tries \in Nat \ {0} /\ StartMtu \in Nat \ {0}
    /\ MaxHops \in 1 .. TtlMod - 1
    /\ Links \in Seq(Nat \ {0}) /\ Len(Links) > 0
    /\ IPv6 \in BOOLEAN /\ Orders \subseteq BOOLEAN
    /\ Echoes \subseteq {"none", "full"}
    /\ ReturnTtl \in 1 .. 255
    /\ MaxAge \in Nat \ {0} /\ MaxFaults \in Nat

Dist == Len(Links)
Unknown == -1

VARIABLES
    pc,           \* send, wait (data_wait), drain (recverr), done, failed
    after,        \* what recverr() returns to: "send" or "wait"
    ttl,
    tries, fails, \* the loop counters of main() and of probe_ttl()
    mtu, oldMtu,
    his,          \* hops recorded in each slot, 0 for none
    hisptr,
    progress,     \* recverr() has read an error
    hopsTo, hopsFrom,
    net,          \* probes that may still be answered, each of another age
    errq,         \* the socket's error queue
    faults,
    fifo,         \* answers come in the order of the probes
    line,         \* history: hop number printed last and its probe's TTL
    refused       \* history: TTL of the last refused probe that was read

loop == <<ttl, tries, fails, mtu, oldMtu>>
found == <<hopsTo, hopsFrom, refused>>
vars == <<pc, after, loop, his, hisptr, progress, found, net, errq, faults,
          fifo, line>>


Init ==
    /\ pc = "send" /\ after = "send"
    /\ ttl = 1 /\ tries = 0 /\ fails = 0
    /\ mtu = StartMtu /\ oldMtu = StartMtu
    /\ his = [s \in 0 .. Slots - 1 |-> 0] /\ hisptr = 0
    /\ progress = FALSE
    /\ hopsTo = Unknown /\ hopsFrom = Unknown /\ refused = Unknown
    /\ net = {} /\ errq = <<>> /\ faults = MaxFaults
    /\ fifo \in Orders
    /\ line = [hops |-> Unknown, sent |-> Unknown]

-----------------------------------------------------------------------------
(* main()'s loops.                                                         *)

(* The next hop: ttl is a uint8_t.  IP_TTL rejects 0.                      *)
NextHop ==
    /\ ttl' = (ttl + 1) % TtlMod
    /\ tries' = 0
    /\ fails' = 0
    /\ oldMtu' = mtu
    /\ pc' = IF ttl' > MaxHops THEN "done"
             ELSE IF ttl' = 0 /\ ~IPv6 THEN "failed" ELSE "send"

(* Faulty variant: every retry starts the hop over.                        *)
SameHopRestart(i) ==
    /\ tries' = 0
    /\ fails' = 0
    /\ oldMtu' = mtu
    /\ pc' = "send"
    /\ UNCHANGED ttl

SameHop(i) ==
    /\ tries' = i
    /\ fails' = 0
    /\ oldMtu' = mtu
    /\ pc' = "send"
    /\ UNCHANGED ttl

Finish == pc' = "done" /\ UNCHANGED <<ttl, tries, fails, oldMtu>>

(* probe_ttl() returned: "over" for 0, "progress" for a positive value,    *)
(* "silence" for -1.  A changed MTU takes precedence over all three.       *)
ProbeReturns(res) ==
    IF mtu # oldMtu THEN SameHop(0)
    ELSE IF res = "over" THEN Finish
    ELSE IF res = "silence" /\ tries + 1 < Tries THEN SameHop(tries + 1)
    ELSE NextHop

-----------------------------------------------------------------------------
(* probe_ttl().                                                            *)

Recorded == [his EXCEPT ![hisptr] = ttl]

Advance == hisptr' = (hisptr + 1) % Slots

(* The probes still under way once another one is sent.                    *)
Aged == {[p EXCEPT !.age = @ + 1] : p \in {q \in net : q.age + 1 < MaxAge}}

SendOk ==
    /\ pc = "send"
    /\ mtu <= Links[1] /\ errq = <<>>
    /\ his' = Recorded
    /\ Advance
    /\ net' = Aged \union {[age |-> 0, slot |-> hisptr, ttl |-> ttl, size |-> mtu]}
    /\ pc' = "wait"
    /\ UNCHANGED <<after, loop, progress, found, errq, faults, line>>

(* sendto() fails: the datagram exceeds our device's MTU, which queues a   *)
(* local error; or an earlier error is pending; or for a passing reason.   *)
SendFails ==
    /\ pc = "send"
    /\ \/ /\ mtu > Links[1]
          /\ errq' = Append(errq, [kind |-> "local", info |-> Links[1],
                                   slot |-> hisptr, ttl |-> ttl])
          /\ UNCHANGED faults
       \/ errq # <<>> /\ UNCHANGED <<errq, faults>>
       \/ faults > 0 /\ faults' = faults - 1 /\ UNCHANGED errq
    /\ his' = Recorded
    /\ pc' = "drain"
    /\ after' = "send"
    /\ progress' = FALSE
    /\ UNCHANGED <<loop, hisptr, found, net, line>>

(* Faulty variant: select() is called again until there is an error.       *)
WaitEndsLate ==
    /\ pc = "wait"
    /\ IF errq = <<>> THEN UNCHANGED <<pc, after, progress>>
       ELSE pc' = "drain" /\ after' = "wait" /\ progress' = FALSE
    /\ UNCHANGED <<loop, his, hisptr, found, net, errq, faults, line>>

(* data_wait() ends by a timeout or an error, and there is no datagram.    *)
WaitEnds ==
    /\ pc = "wait"
    /\ pc' = "drain"
    /\ after' = "wait"
    /\ progress' = FALSE
    /\ UNCHANGED <<loop, his, hisptr, found, net, errq, faults, line>>

(* Something answered with a datagram: the trace is over.                  *)
DataReply ==
    /\ pc = "wait" /\ faults > 0 /\ net # {}
    /\ faults' = faults - 1
    /\ ProbeReturns("over")
    /\ UNCHANGED <<after, mtu, his, hisptr, progress, found, net, errq, line>>

(* What probe_ttl() does with the result of recverr().                     *)
DrainReturns(res) ==
    IF after = "wait"
    THEN ProbeReturns(res) /\ UNCHANGED hisptr
    ELSE CASE res = "over" -> ProbeReturns("over") /\ UNCHANGED hisptr
           [] res = "progress" ->
                /\ fails' = 0 /\ pc' = "send"
                /\ UNCHANGED <<ttl, tries, oldMtu, hisptr>>
           [] res = "silence" /\ fails + 1 < MaxProbes ->
                /\ fails' = fails + 1 /\ pc' = "send"
                /\ UNCHANGED <<ttl, tries, oldMtu, hisptr>>
           [] OTHER -> ProbeReturns("over") /\ Advance

(* After a failed send the slot it had taken is released.                  *)
Released(h) == IF after = "send" THEN [h EXCEPT ![hisptr] = 0] ELSE h

-----------------------------------------------------------------------------
(* recverr().                                                              *)

(* The guess at the return path from the TTL an answer arrived with.       *)
rethops(t) == IF t <= 64 THEN 65 - t ELSE IF t <= 128 THEN 129 - t ELSE 256 - t

(* Faulty variants: the overhead is subtracted, or added, once too often.  *)
NewMtuPayload(e) == e.info - 1
NewMtuFrame(e) == e.info + 2

NewMtu(e) == e.info

(* Faulty variant: the hop being probed now is shown.                      *)
sndhopsNow(e, echo) ==
    IF echo = "full" /\ e.ttl # 0 THEN e.ttl
    ELSE IF e.slot < Slots - 1 /\ his[e.slot] # 0 THEN ttl
    ELSE Unknown

(* The hop an error belongs to: from its slot, which the last one of the   *)
(* array never is, or from the echoed payload.                             *)
sndhops(e, echo) ==
    IF echo = "full" /\ e.ttl # 0 THEN e.ttl
    ELSE IF e.slot < Slots - 1 /\ his[e.slot] # 0 THEN his[e.slot]
    ELSE Unknown

Consumed(e) ==
    IF e.slot < Slots - 1 THEN [his EXCEPT ![e.slot] = 0] ELSE his

DrainError(echo) ==
    LET e == Head(errq)
        snd == sndhops(e, echo)
    IN  /\ pc = "drain" /\ errq # <<>>
        /\ errq' = Tail(errq)
        /\ progress' = TRUE
        /\ line' = IF e.kind = "local" THEN line
                   ELSE [hops |-> snd, sent |-> e.ttl]
        /\ CASE e.kind \in {"local", "toobig"} ->
                  /\ mtu' = NewMtu(e)
                  /\ his' = Consumed(e)
                  /\ UNCHANGED <<pc, ttl, tries, fails, oldMtu, hisptr, found>>
             [] e.kind = "exceeded" ->
                  /\ his' = Consumed(e)
                  /\ UNCHANGED <<pc, loop, hisptr, found>>
             [] e.kind = "refused" ->
                  /\ hopsTo' = IF snd = Unknown THEN ttl ELSE snd
                  /\ hopsFrom' = rethops(ReturnTtl)
                  /\ refused' = e.ttl
                  /\ his' = Released(Consumed(e))
                  /\ DrainReturns("over")
                  /\ UNCHANGED mtu
             [] OTHER ->
                  /\ his' = Released(Consumed(e))
                  /\ DrainReturns("over")
                  /\ UNCHANGED <<mtu, found>>
        /\ UNCHANGED <<after, net, faults>>

DrainEmpty ==
    /\ pc = "drain" /\ errq = <<>>
    /\ his' = Released(his)
    /\ DrainReturns(IF progress THEN "progress" ELSE "silence")
    /\ UNCHANGED <<after, mtu, progress, found, net, errq, faults, line>>

-----------------------------------------------------------------------------
(* The network (external).                                                 *)

(* The first router or link that stops a probe: hop k answers when the TTL *)
(* runs out there or the datagram does not fit its next link.              *)
Stops(p, k) == p.ttl <= k \/ p.size > Links[k + 1]

Answers(p) ==
    LET stops == {k \in 1 .. Dist - 1 : Stops(p, k)} IN
    IF stops = {} THEN {[kind |-> "refused", info |-> 0]}
    ELSE {IF p.ttl <= k THEN [kind |-> "exceeded", info |-> 0]
          ELSE [kind |-> "toobig", info |-> Links[k + 1]] :
          k \in {j \in stops : \A i \in stops : j <= i}}

Queued(p, kind, info) ==
    errq' = Append(errq, [kind |-> kind, info |-> info, slot |-> p.slot, ttl |-> p.ttl])

(* The answer comes, and the network may keep a copy; or a fatal error.    *)
Deliver(p) ==
    /\ fifo => \A q \in net : q.age <= p.age
    /\ \/ /\ \E a \in Answers(p) : Queued(p, a.kind, a.info)
          /\ \/ net' = net \ {p} /\ UNCHANGED faults
             \/ faults > 0 /\ faults' = faults - 1 /\ UNCHANGED net
       \/ /\ faults > 0 /\ faults' = faults - 1
          /\ Queued(p, "fatal", 0)
          /\ net' = net \ {p}
    /\ UNCHANGED <<pc, after, loop, his, hisptr, progress, found, line>>

Lose(p) ==
    /\ net' = net \ {p}
    /\ UNCHANGED <<pc, after, loop, his, hisptr, progress, found, errq, faults,
                   line>>

-----------------------------------------------------------------------------
Running == pc \notin {"done", "failed"}
Stopped == ~Running /\ UNCHANGED vars

Process ==
    \/ SendOk \/ SendFails \/ WaitEnds \/ DataReply \/ DrainEmpty
    \/ \E echo \in Echoes : DrainError(echo)

Network == Running /\ \E p \in net : Deliver(p) \/ Lose(p)

Next == ((Process \/ Network) /\ UNCHANGED fifo) \/ Stopped

Spec == Init /\ [][Next]_vars

(* tracepath itself is scheduled, and data_wait() ends after a second;     *)
(* nothing is assumed of the network.                                      *)
FairSpec == Spec /\ WF_vars(Process /\ UNCHANGED fifo)

-----------------------------------------------------------------------------
Probes == [age : 0 .. MaxAge - 1, slot : 0 .. Slots - 1, ttl : 0 .. TtlMod - 1, size : Nat \ {0}]
Errors ==
    [kind : {"local", "toobig"}, info : Nat \ {0}, slot : 0 .. Slots - 1, ttl : 0 .. TtlMod - 1]
    \union
    [kind : {"exceeded", "refused", "fatal"}, info : {0}, slot : 0 .. Slots - 1, ttl : 0 .. TtlMod - 1]

(* Types of the loops' counters, the slots, the probes and the errors.     *)
TypeOK ==
    /\ pc \in {"send", "wait", "drain", "done", "failed"}
    /\ after \in {"send", "wait"}
    /\ ttl \in 0 .. TtlMod - 1
    /\ tries \in 0 .. Tries - 1 /\ fails \in 0 .. MaxProbes - 1
    /\ mtu \in Nat \ {0} /\ oldMtu \in Nat \ {0}
    /\ his \in [0 .. Slots - 1 -> 0 .. TtlMod - 1] /\ hisptr \in 0 .. Slots - 1
    /\ progress \in BOOLEAN
    /\ hopsTo \in -1 .. TtlMod - 1 /\ hopsFrom \in {Unknown} \union 1 .. 127
    /\ refused \in -1 .. TtlMod - 1
    /\ net \subseteq Probes /\ errq \in Seq(Errors)
    /\ faults \in 0 .. MaxFaults /\ fifo \in BOOLEAN
    /\ line \in [hops : -1 .. TtlMod - 1, sent : -1 .. TtlMod - 1]

(* recverr() prints an unmarked hop number only when it is the TTL of the  *)
(* probe that drew the error, although slots are reused and errors come    *)
(* late, twice or out of order.                                            *)
Attribution == line.hops > 0 => line.hops = line.sent

(* The manual: the last line of a trace that reached the target "shows     *)
(* detected Path MTU".  It is the smallest on the path, or the size asked  *)
(* for if that is smaller.                                                 *)
PmtuDetected ==
    pc = "done" /\ hopsTo # Unknown =>
        LET sizes == {StartMtu} \union {Links[k] : k \in 1 .. Dist}
        IN  mtu \in sizes /\ \A size \in sizes : mtu <= size

(* Over a path that keeps the order of answers a trace that reached the    *)
(* target has found its MTU, with errors lost, late or duplicated.         *)
PmtuExact == fifo => PmtuDetected

(* On such a path the MTU only shrinks, so that restarting a hop for a new *)
(* MTU ends.                                                               *)
MtuShrinks == [][fifo => mtu' <= mtu]_vars

\* The hops main() has not left yet.
HopsLeft == IF Running THEN MaxHops + 1 - ttl ELSE 0

\* The tries main() has for this hop; a probe that got out is half of one.
TriesLeft ==
    2 * (Tries - tries)
    + (IF pc = "wait" \/ (pc = "drain" /\ after = "wait") THEN 0 ELSE 1)

\* What may yet be put on the error queue, and what is there.  A datagram too
\* large for our own device will queue an error.
ErrorsLeft ==
    2 * (faults + Cardinality(net)) + Len(errq)
    + (IF mtu > Links[1] /\ errq = <<>> THEN 2 ELSE 0)

\* The sends probe_ttl() has before it gives up; an error read renews them.
SendsLeft ==
    2 * (IF pc = "drain" /\ progress THEN MaxProbes + 1 ELSE MaxProbes - fails)
    + (IF pc = "drain" THEN 0 ELSE 1)

Left == <<HopsLeft, oldMtu + mtu, TriesLeft, ErrorsLeft, SendsLeft>>

(* On such a path every step brings the end of the trace nearer, whatever  *)
(* is lost, duplicated or late: neither the retries of a hop nor its       *)
(* restarts for a new MTU can go on for ever.  max_hops must leave room in *)
(* the 8 bits of ttl, or IP_TTL must reject the 0 it wraps to.             *)
WindsDown ==
    [][fifo /\ (MaxHops < TtlMod - 1 \/ ~IPv6) => LexLess(Left', Left)]_vars

(* The trace ends after at most max_hops hops, whoever answers.            *)
Terminates == <>~Running

(* The manual's last line: "amount of hops to the destination" is the TTL  *)
(* that the probe which got there was sent with.                           *)
HopsExact == hopsTo = refused
=============================================================================
