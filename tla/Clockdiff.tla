----------------------------- MODULE Clockdiff ------------------------------
(***************************************************************************)
(* measure() and measure_inner_loop() of clockdiff.c, which clockdiff and  *)
(* bclockdiff share: ICMP timestamp messages (or echoes with the IP        *)
(* timestamp option) are sent until Msgs answers came or the peer is taken *)
(* to be down, and the two clocks' difference is estimated from the        *)
(* smallest delays seen.                                                   *)
(*                                                                         *)
(* Clocks show milliseconds since midnight.  The peer's clock is Off ahead *)
(* of ours.  The smoothed rtt and rtt_sigma only set the length of a poll  *)
(* and are left out: a poll may time out at any moment.                    *)
(***************************************************************************)
EXTENDS Integers, Sequences, FiniteSets, Descent

CONSTANTS
    Day,         \* MODULO
    Off,         \* the difference that is to be measured
    Msgs, Trials,
    MaxRtt,      \* no answer takes longer
    Stays,       \* time from the peer's first to its second stamp (-o only)
    StartTime,   \* time of day of the start
    MaxTicks,    \* the run lasts no longer
    MaxFaults    \* bound: duplicated answers and failures

Infinity == 2147483647

ASSUME ClockdiffAssumption ==
    /\ Day \in 1 .. Infinity /\ Day % 2 = 0 /\ Off \in Int
    /\ Msgs \in Nat \ {0} /\ Trials \in Nat \ {0}
    /\ MaxRtt \in Nat
    /\ MaxRtt < Day \div 2
    /\ -(Day \div 2) <= Off /\ Off + MaxRtt < Day \div 2
    /\ -(Day \div 2) <= -Off /\ MaxRtt - Off < Day \div 2
    /\ Stays \subseteq Nat
    /\ StartTime \in 0 .. Day - 1
    /\ MaxTicks \in Nat /\ MaxFaults \in Nat

Statuses == {"GOOD", "HOSTDOWN", "UNREACHABLE", "NONSTDTIME", "FAILED"}

VARIABLES
    pc,          \* send, poll (measure_inner_loop), done
    status,      \* what measure() returned, GOOD while it runs
    seqno, acked, msgcount,
    min1, min2,  \* smallest delta1 and delta2
    min_rtt, measure_delta, measure_delta1,
    now, ticks,
    net,         \* messages whose answer may still come
    faults

counters == <<seqno, acked, msgcount>>
estimate == <<min1, min2, min_rtt, measure_delta1>>
clock == <<now, ticks>>
vars == <<pc, status, counters, estimate, measure_delta, clock, net, faults>>

Init ==
    /\ pc = "send" /\ status = "GOOD"
    /\ seqno = 0 /\ acked = 0 /\ msgcount = 0
    /\ min1 = Infinity /\ min2 = Infinity /\ min_rtt = Infinity
    /\ measure_delta = Infinity /\ measure_delta1 = Infinity
    /\ now = StartTime /\ ticks = 0
    /\ net = {} /\ faults = MaxFaults

-----------------------------------------------------------------------------
(* Time of day, one midnight away at most.                                 *)
OfDay(x) == IF x >= Day THEN x - Day ELSE IF x < 0 THEN x + Day ELSE x

(* Faulty variant: no midnight.                                            *)
NearestPlain(d) == d

(* A difference of two times of day, within BIASN .. BIASP.                *)
Nearest(d) ==
    IF d < -(Day \div 2) THEN d + Day
    ELSE IF d > (Day \div 2) - 1 THEN d - Day
    ELSE d

(* C's division by two, which rounds towards zero.                         *)
Halved(x) == IF x >= 0 THEN x \div 2 ELSE -((-x) \div 2)

Lesser(a, b) == IF a < b THEN a ELSE b
Greater(a, b) == IF a > b THEN a ELSE b

Returns(s) == pc' = "done" /\ status' = s

-----------------------------------------------------------------------------
(* measure().                                                              *)

Complete ==
    /\ pc = "send" /\ msgcount >= Msgs
    /\ measure_delta' = Halved(min1 - min2)
    /\ Returns("GOOD")
    /\ UNCHANGED <<counters, estimate, clock, net, faults>>

(* Faulty variant: one more message may go unanswered.                     *)
DownLate == seqno - acked > Trials + 1

Down == seqno - acked > Trials

GiveUp ==
    /\ pc = "send" /\ msgcount < Msgs
    /\ Down
    /\ Returns("HOSTDOWN")
    /\ UNCHANGED <<counters, estimate, measure_delta, clock, net, faults>>

Send ==
    /\ pc = "send" /\ msgcount < Msgs
    /\ ~Down
    /\ seqno' = seqno + 1
    /\ net' = net \union {[seq |-> seqno + 1, sent |-> now, age |-> 0]}
    /\ pc' = "poll"
    /\ UNCHANGED <<status, acked, msgcount, estimate, measure_delta, clock,
                   faults>>

SendFails ==
    /\ pc = "send" /\ msgcount < Msgs
    /\ ~Down
    /\ faults > 0
    /\ seqno' = seqno + 1
    /\ faults' = faults - 1
    /\ Returns("UNREACHABLE")
    /\ UNCHANGED <<acked, msgcount, estimate, measure_delta, clock, net>>

-----------------------------------------------------------------------------
(* measure_inner_loop().                                                   *)

(* Faulty variant: a poll that timed out is repeated.                      *)
TimeoutRepolls == pc = "poll" /\ UNCHANGED vars

Timeout ==
    /\ pc = "poll"
    /\ pc' = "send"
    /\ UNCHANGED <<status, counters, estimate, measure_delta, clock, net,
                   faults>>

(* The answer to m leaves the network, or comes once more.                 *)
Arrives(m) ==
    /\ acked' = Greater(acked, m.seq)
    /\ UNCHANGED <<seqno, measure_delta, clock>>
    /\ \/ net' = net \ {m} /\ UNCHANGED faults
       \/ faults > 0 /\ faults' = faults - 1 /\ UNCHANGED net

(* diff < 0: midnight fell between sending and receiving.                  *)
AcrossMidnight(m) ==
    /\ pc = "poll"
    /\ OfDay(m.sent + m.age) < m.sent
    /\ Arrives(m)
    /\ UNCHANGED <<pc, status, msgcount, estimate>>

(* The smallest delta in each direction, and the best round trip.          *)
Sample(d1, d2) ==
    /\ min1' = Lesser(min1, d1)
    /\ min2' = Lesser(min2, d2)
    /\ min_rtt' = Lesser(min_rtt, d1 + d2)
    /\ measure_delta1' = IF d1 + d2 < min_rtt THEN Halved(d1 - d2)
                         ELSE measure_delta1

(* An answer within RANGE (1 ms) replaces the smallest deltas and ends the *)
(* wait; after any other one the loop polls again.                         *)
Answer(m, fwd, stay) ==
    LET recvtime == OfDay(m.sent + m.age)
        histime == OfDay(m.sent + fwd + Off)
        histime1 == OfDay(m.sent + fwd + stay + Off)
        delta1 == Nearest(histime - m.sent)
        delta2 == Nearest(recvtime - histime1)
        diff == recvtime - m.sent
    IN  /\ pc = "poll"
        /\ fwd + stay <= m.age
        /\ diff >= 0
        /\ Arrives(m)
        /\ msgcount' = msgcount + 1
        /\ IF diff < 1
           THEN /\ min1' = delta1 /\ min2' = delta2
                /\ min_rtt' = Lesser(min_rtt, delta1 + delta2)
                /\ measure_delta1' = IF delta1 + delta2 < min_rtt
                                     THEN Halved(delta1 - delta2)
                                     ELSE measure_delta1
                /\ pc' = "send"
           ELSE /\ Sample(delta1, delta2)
                /\ pc' = "poll"
        /\ UNCHANGED status

(* A stamp with its high bit set, stamps that make no sense (-o), or a     *)
(* failing recvfrom(): measure() returns at once.                          *)
Unusable(m) ==
    /\ pc = "poll" /\ faults > 0
    /\ faults' = faults - 1
    /\ \E s \in {"NONSTDTIME", "FAILED"} : Returns(s)
    /\ acked' \in {acked, Greater(acked, m.seq)}
    /\ msgcount' \in {msgcount, msgcount + 1}
    /\ UNCHANGED <<seqno, estimate, measure_delta, clock, net>>

-----------------------------------------------------------------------------
(* Time passes; an answer that is not back in MaxRtt never comes.          *)
Tick ==
    /\ pc = "poll" /\ ticks < MaxTicks
    /\ ticks' = ticks + 1
    /\ now' = OfDay(now + 1)
    /\ net' = {[m EXCEPT !.age = @ + 1] : m \in {n \in net : n.age < MaxRtt}}
    /\ UNCHANGED <<pc, status, counters, estimate, measure_delta, faults>>

Done == pc = "done" /\ UNCHANGED vars

Process ==
    \/ Complete \/ GiveUp \/ Send \/ SendFails \/ Timeout
    \/ \E m \in net :
          \/ AcrossMidnight(m) \/ Unusable(m)
          \/ \E fwd \in 0 .. m.age, stay \in Stays : Answer(m, fwd, stay)

Next == Process \/ Tick \/ Done

Spec == Init /\ [][Next]_vars

(* ppoll() times out unless answers keep coming.                           *)
FairSpec == Spec /\ WF_vars(Process)

-----------------------------------------------------------------------------
(* Types of the counters, the estimates and the messages under way.        *)
TypeOK ==
    /\ pc \in {"send", "poll", "done"}
    /\ status \in Statuses
    /\ seqno \in Nat /\ acked \in 0 .. seqno /\ msgcount \in Nat
    /\ min1 \in Int /\ min2 \in Int /\ min_rtt \in Int
    /\ measure_delta \in Int /\ measure_delta1 \in Int
    /\ now \in 0 .. Day - 1 /\ ticks \in Nat
    /\ net \subseteq [seq : 1 .. seqno, sent : 0 .. Day - 1, age : 0 .. MaxRtt]
    /\ faults \in Nat

(* x is off the true difference by half of rtt at most, up to rounding.    *)
Within(x, rtt) ==
    /\ 2 * (x - Off) <= rtt + 1
    /\ -(rtt + 1) <= 2 * (x - Off)

(* Both estimates that clockdiff prints are off by at most half the        *)
(* smallest round trip, which is no time that answers cannot take, however *)
(* asymmetric, reordered or duplicated the answers, and with midnight      *)
(* anywhere in between.                                                    *)
Accurate ==
    /\ msgcount > 0 /\ status = "GOOD" =>
          min_rtt \in 0 .. MaxRtt /\ Within(measure_delta1, min_rtt)
    /\ pc = "done" /\ status = "GOOD" => Within(measure_delta, min_rtt)

(* However answers are lost, late or duplicated, Trials + 1 messages in a  *)
(* row may go unanswered and no more; HOSTDOWN is returned exactly then.   *)
DownWhenSilent ==
    /\ seqno - acked <= Trials + 1
    /\ status = "HOSTDOWN" => seqno - acked = Trials + 1

(* What is left for measure() before the clock ticks: failures and answers *)
(* that come again; messages that were under way when it ticked last, the  *)
(* only ones that midnight can have passed; answers that it waits for; and *)
(* messages that it may send until the next answer.                        *)
Late == {m \in net : m.age > 0}
AnswersLeft ==
    IF pc = "done" THEN 0
    ELSE IF msgcount < Msgs THEN Msgs - msgcount + 2
    ELSE IF pc = "poll" THEN 2 ELSE 1
Left ==
    <<faults, Cardinality(Late), AnswersLeft, Trials + 1 - (seqno - acked),
      IF pc = "poll" THEN 1 ELSE 0>>

(* measure() does not spin: of the messages that go out, the answers that  *)
(* make it send again and the polls that begin anew, only finitely many    *)
(* happen before the clock ticks, also around midnight, where an answer is *)
(* dropped uncounted and yet shows that the peer is there.                 *)
NeverSpins == [][Process => LexLess(Left', Left)]_vars

(* measure() returns, whatever is lost.                                    *)
Terminates == <>(pc = "done")

(* measure()'s comment: without an answer for TRIALS consecutive times the *)
(* peer is assumed to be down, so no more than TRIALS go unanswered.       *)
DownAfterTrials == seqno - acked <= Trials
=============================================================================
