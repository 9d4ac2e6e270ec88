-------------------------- MODULE ClockdiffProofs ---------------------------
(***************************************************************************)
(* For every offset, day, round trip and number of messages within         *)
(* ClockdiffAssumption: what clockdiff prints is off by half the smallest  *)
(* round trip at most, a silent peer is given up in time, and measure()    *)
(* does not spin.                                                          *)
(***************************************************************************)
EXTENDS Clockdiff, FiniteSetTheorems, TLAPS

(* The smallest deltas are the offset, seen from either side, and delays   *)
(* that together are no longer than the best round trip.                   *)
Estimated ==
    /\ min_rtt \in 0 .. MaxRtt
    /\ min1 >= Off /\ min2 >= -Off
    /\ min1 + min2 <= min_rtt
    /\ Within(measure_delta1, min_rtt)

(* Before the first answer nothing has been estimated.                     *)
Unestimated ==
    /\ min1 = Infinity /\ min2 = Infinity /\ min_rtt = Infinity
    /\ measure_delta1 = Infinity

EstimateInv ==
    status = "GOOD" =>
       /\ IF msgcount > 0 THEN Estimated ELSE Unestimated
       /\ pc = "done" => msgcount > 0 /\ Within(measure_delta, min_rtt)

(* status is what measure() returned.                                      *)
Running == pc # "done" => status = "GOOD"

IInv == TypeOK /\ Running /\ EstimateInv

-----------------------------------------------------------------------------
(* The arithmetic of a day.                                                *)

LEMMA InfinityType == Infinity \in Nat
  BY SMT DEF Infinity

(* What the assumption says, with half a day by name.                      *)
LEMMA HalfDay ==
    ASSUME NEW H, H = Day \div 2
    PROVE  /\ H \in Nat /\ Day = 2 * H /\ Day \in Nat /\ Day > 0 /\ Day <= Infinity
           /\ Off \in Int /\ MaxRtt \in Nat /\ MaxRtt < H
           /\ -H <= Off /\ Off + MaxRtt < H
           /\ -H <= -Off /\ MaxRtt - Off < H
  <1>1. Day \in Nat /\ Day > 0 /\ Day <= Infinity /\ Day % 2 = 0
    BY ClockdiffAssumption, InfinityType
  <1>2. H \in Nat /\ Day = 2 * H
    BY <1>1
  <1> QED BY <1>1, <1>2, ClockdiffAssumption

(* A time of day stays one.                                                *)
LEMMA OfDayType ==
    ASSUME NEW x \in Int, -Day <= x, x < 2 * Day
    PROVE  OfDay(x) \in 0 .. Day - 1
  BY HalfDay DEF OfDay

(* C's division by two is off by a half at most.                           *)
LEMMA HalvedBounds ==
    ASSUME NEW x \in Int
    PROVE  /\ Halved(x) \in Int
           /\ 2 * Halved(x) <= x + 1 /\ x - 1 <= 2 * Halved(x)
  BY DEF Halved

(* The difference of two times of day is their distance in time, although  *)
(* one may be past midnight, if it is less than half a day.                *)
LEMMA NearestIs ==
    ASSUME NEW a \in 0 .. Day - 1, NEW d \in Int, NEW H, H = Day \div 2, -H <= d, d < H
    PROVE  Nearest(OfDay(a + d) - a) = d
  <1>1. H \in Nat /\ Day = 2 * H
    BY HalfDay
  <1>2. OfDay(a + d) - a \in {d, d - Day, d + Day}
    BY <1>1 DEF OfDay
  <1>3. Nearest(d) = d /\ Nearest(d - Day) = d /\ Nearest(d + Day) = d
    BY <1>1 DEF Nearest
  <1> QED BY <1>2, <1>3

LEMMA NearestBack ==
    ASSUME NEW a \in 0 .. Day - 1, NEW d \in Int, NEW H, H = Day \div 2, -H <= d, d < H
    PROVE  Nearest(a - OfDay(a - d)) = d
  <1>1. H \in Nat /\ Day = 2 * H
    BY HalfDay
  <1>2. a - OfDay(a - d) \in {d, d - Day, d + Day}
    BY <1>1 DEF OfDay
  <1>3. Nearest(d) = d /\ Nearest(d - Day) = d /\ Nearest(d + Day) = d
    BY <1>1 DEF Nearest
  <1> QED BY <1>2, <1>3

(* The deltas add up to a round trip, and are the offset if it took no time. *)
LEMMA DeltaBounds ==
    ASSUME NEW a \in 0 .. MaxRtt, NEW f \in Nat, NEW s \in Nat, NEW d, NEW d1, NEW d2,
           MaxRtt \in Nat, Off \in Int, f + s <= a,
           d = a, d1 = f + Off, d2 = (a - f - s) - Off
    PROVE  /\ d1 \in Int /\ d2 \in Int /\ d1 >= Off /\ d2 >= -Off
           /\ d1 + d2 \in 0 .. MaxRtt
           /\ d < 1 => d1 = Off /\ d2 = -Off /\ d1 + d2 = 0
  OBVIOUS

(* An answer that came before midnight, or all after it: its deltas are    *)
(* the offset and the delays, in spite of the peer's own midnight.         *)
LEMMA AnswerDeltas ==
    ASSUME NEW m, m.sent \in 0 .. Day - 1, m.age \in 0 .. MaxRtt,
           NEW fwd \in Nat, NEW stay \in Nat,
           fwd + stay <= m.age, OfDay(m.sent + m.age) - m.sent >= 0
    PROVE  /\ OfDay(m.sent + m.age) - m.sent = m.age
           /\ Nearest(OfDay(m.sent + fwd + Off) - m.sent) = fwd + Off
           /\ Nearest(OfDay(m.sent + m.age) - OfDay(m.sent + fwd + stay + Off)) = (m.age - fwd - stay) - Off
  <1> DEFINE H == Day \div 2
  <1> DEFINE s == m.sent  age == m.age
  <1>1. /\ H \in Nat /\ Day = 2 * H /\ Off \in Int /\ MaxRtt \in Nat /\ MaxRtt < H
        /\ -H <= Off /\ Off + MaxRtt < H /\ -H <= -Off /\ MaxRtt - Off < H
    BY HalfDay
  <1> DEFINE r == s + age  d1 == fwd + Off  d2 == (age - fwd - stay) - Off
  <1>2. OfDay(r) = r /\ r \in 0 .. Day - 1
    BY <1>1 DEF OfDay
  <1>3. d1 \in Int /\ -H <= d1 /\ d1 < H
    BY <1>1
  <1>4. d2 \in Int /\ -H <= d2 /\ d2 < H
    BY <1>1
  <1>5. s + fwd + Off = s + d1 /\ s + fwd + stay + Off = r - d2 /\ r - s = age
    BY <1>1
  <1>6. Nearest(OfDay(s + d1) - s) = d1
    <2> HIDE DEF d1, H
    <2> QED BY <1>3, NearestIs DEF H
  <1>7. Nearest(r - OfDay(r - d2)) = d2
    <2> HIDE DEF d2, r, H
    <2> QED BY <1>2, <1>4, NearestBack DEF H
  <1> QED BY <1>2, <1>5, <1>6, <1>7

(* Half the difference of a pair of deltas is off by half their sum.       *)
LEMMA HalvedWithin ==
    ASSUME NEW x \in Int, NEW y \in Int, NEW rtt \in Int, x >= Off, y >= -Off, x + y <= rtt
    PROVE  Within(Halved(x - y), rtt)
  <1>1. Off \in Int
    BY ClockdiffAssumption
  <1>2. Halved(x - y) \in Int /\ 2 * Halved(x - y) <= (x - y) + 1 /\ (x - y) - 1 <= 2 * Halved(x - y)
    <2>1. x - y \in Int
      OBVIOUS
    <2> QED BY <2>1, HalvedBounds, Zenon
  <1> DEFINE h == Halved(x - y)
  <1> HIDE DEF h
  <1>3. h \in Int /\ 2 * h <= (x - y) + 1 /\ (x - y) - 1 <= 2 * h
    BY <1>2 DEF h
  <1>4. Within(h, rtt)
    BY <1>1, <1>3 DEF Within
  <1> QED BY <1>4 DEF h

(* A further sample keeps the estimates, and a first one makes them.       *)
LEMMA SampleEstimates ==
    ASSUME NEW d1 \in Int, NEW d2 \in Int, d1 >= Off, d2 >= -Off, d1 + d2 \in 0 .. MaxRtt,
           min1 \in Int, min2 \in Int, min_rtt \in Int, measure_delta1 \in Int,
           Estimated \/ Unestimated, Sample(d1, d2)
    PROVE  Estimated' /\ min1' \in Int /\ min2' \in Int /\ min_rtt' \in Int /\ measure_delta1' \in Int
  <1> DEFINE H == Day \div 2
  <1>1. /\ Off \in Int /\ MaxRtt \in Nat /\ MaxRtt < Infinity /\ Off <= Infinity /\ -Off <= Infinity
        /\ Infinity \in Nat
    <2>1. /\ H \in Nat /\ Day = 2 * H /\ Off \in Int /\ MaxRtt \in Nat /\ MaxRtt < H
          /\ -H <= Off /\ Off + MaxRtt < H /\ Day <= Infinity /\ Day \in Nat
      BY HalfDay
    <2> QED BY <2>1, InfinityType
  <1>2. /\ min1' = Lesser(min1, d1) /\ min2' = Lesser(min2, d2) /\ min_rtt' = Lesser(min_rtt, d1 + d2)
        /\ measure_delta1' = IF d1 + d2 < min_rtt THEN Halved(d1 - d2) ELSE measure_delta1
    BY DEF Sample
  <1>3. min1' \in Int /\ min2' \in Int /\ min_rtt' \in Int /\ measure_delta1' \in Int
    BY <1>2, HalvedBounds DEF Lesser
  <1>4. min1' >= Off /\ min2' >= -Off
    BY <1>1, <1>2 DEF Lesser, Estimated, Unestimated
  <1>5. min_rtt' \in 0 .. MaxRtt /\ min1' + min2' <= min_rtt'
    BY <1>1, <1>2 DEF Lesser, Estimated, Unestimated
  <1>6. Within(measure_delta1', min_rtt')
    <2>1. CASE d1 + d2 < min_rtt
      <3>1. min_rtt' = d1 + d2 /\ measure_delta1' = Halved(d1 - d2)
        BY <1>2, <2>1 DEF Lesser
      <3> QED BY <3>1, HalvedWithin
    <2>2. CASE ~(d1 + d2 < min_rtt)
      <3>1. min_rtt' = min_rtt /\ measure_delta1' = measure_delta1
        BY <1>1, <1>2, <2>2 DEF Lesser
      <3>2. Estimated
        BY <1>1, <2>2 DEF Unestimated
      <3> QED BY <3>1, <3>2 DEF Estimated
    <2> QED BY <2>1, <2>2
  <1> QED BY <1>3, <1>4, <1>5, <1>6, Zenon DEF Estimated, Within

(* An answer within a millisecond replaces the deltas by the offset itself.*)
LEMMA ExactEstimates ==
    ASSUME min_rtt \in Int, measure_delta1 \in Int, Estimated \/ Unestimated,
           min1' = Off, min2' = -Off, min_rtt' = Lesser(min_rtt, 0),
           measure_delta1' = IF 0 < min_rtt THEN Halved(Off - (-Off)) ELSE measure_delta1
    PROVE  Estimated' /\ min1' \in Int /\ min2' \in Int /\ min_rtt' \in Int /\ measure_delta1' \in Int
  <1>1. Off \in Int /\ MaxRtt \in Nat /\ Infinity \in Nat /\ 0 < Infinity
    <2>1. Day \in Nat /\ Day > 0 /\ Day <= Infinity
      BY HalfDay
    <2> QED BY <2>1, InfinityType, ClockdiffAssumption
  <1>2. min_rtt' = 0
    BY <1>1 DEF Lesser, Estimated, Unestimated
  <1>3. measure_delta1' \in Int
    BY <1>1, HalvedBounds
  <1>4. Within(measure_delta1', 0)
    <2>1. CASE 0 < min_rtt
      BY <1>1, <2>1, HalvedWithin
    <2>2. CASE ~(0 < min_rtt)
      <3>1. min_rtt = 0 /\ Estimated
        BY <1>1, <2>2 DEF Estimated, Unestimated
      <3> QED BY <2>2, <3>1 DEF Estimated
    <2> QED BY <2>1, <2>2
  <1> QED BY <1>1, <1>2, <1>3, <1>4 DEF Estimated, Within

-----------------------------------------------------------------------------
(* The steps.                                                              *)

LEMMA InitIInv == Init => IInv
  <1> SUFFICES ASSUME Init PROVE IInv
    OBVIOUS
  <1>1. /\ pc = "send" /\ status = "GOOD" /\ seqno = 0 /\ acked = 0 /\ msgcount = 0
        /\ min1 = Infinity /\ min2 = Infinity /\ min_rtt = Infinity
        /\ measure_delta = Infinity /\ measure_delta1 = Infinity
        /\ now = StartTime /\ ticks = 0 /\ net = {} /\ faults = MaxFaults
    BY DEF Init
  <1>2. Infinity \in Int /\ StartTime \in 0 .. Day - 1 /\ MaxFaults \in Nat
    BY InfinityType, ClockdiffAssumption
  <1>3. TypeOK
    BY <1>1, <1>2 DEF TypeOK, Statuses
  <1>4. Running /\ EstimateInv
    BY <1>1 DEF Running, EstimateInv, Unestimated
  <1> QED BY <1>3, <1>4 DEF IInv

(* The steps of measure(): sending leaves the estimates as they are.       *)
LEMMA SendStep ==
    ASSUME IInv, Send \/ SendFails \/ GiveUp \/ Timeout
    PROVE  IInv'
  <1>1. /\ UNCHANGED <<acked, msgcount, min1, min2, min_rtt, measure_delta1, measure_delta, now, ticks>>
        /\ seqno' \in {seqno, seqno + 1}
        /\ net' = net \/ (seqno' = seqno + 1 /\ net' = net \union {[seq |-> seqno + 1, sent |-> now, age |-> 0]})
        /\ \/ pc' \in {"send", "poll"} /\ status' = status
           \/ pc' = "done" /\ status' \in {"HOSTDOWN", "UNREACHABLE"}
    BY DEF Send, SendFails, GiveUp, Timeout, Returns, estimate, counters, clock
  <1>2. faults' \in Nat
    BY DEF IInv, TypeOK, Send, SendFails, GiveUp, Timeout
  <1>3. seqno' \in Nat /\ acked' \in 0 .. seqno'
    BY <1>1 DEF IInv, TypeOK
  <1>4. net' \subseteq [seq : 1 .. seqno', sent : 0 .. Day - 1, age : 0 .. MaxRtt]
    <2>1. net \subseteq [seq : 1 .. seqno', sent : 0 .. Day - 1, age : 0 .. MaxRtt]
      <3>1. 1 .. seqno \subseteq 1 .. seqno'
        BY <1>1 DEF IInv, TypeOK
      <3> QED BY <3>1 DEF IInv, TypeOK
    <2>2. seqno' = seqno + 1 =>
             [seq |-> seqno + 1, sent |-> now, age |-> 0]
                \in [seq : 1 .. seqno', sent : 0 .. Day - 1, age : 0 .. MaxRtt]
      <3>1. MaxRtt \in Nat
        BY ClockdiffAssumption
      <3> QED BY <3>1 DEF IInv, TypeOK
    <2> QED BY <1>1, <2>1, <2>2
  <1>5. pc' \in {"send", "poll", "done"} /\ status' \in Statuses
    BY <1>1 DEF IInv, TypeOK, Statuses
  <1>6. TypeOK'
    BY <1>1, <1>2, <1>3, <1>4, <1>5 DEF IInv, TypeOK
  <1>7. Running' /\ EstimateInv'
    <2>1. pc # "done"
      BY DEF Send, SendFails, GiveUp, Timeout
    <2> QED BY <1>1, <2>1 DEF IInv, Running, EstimateInv, Estimated, Unestimated, Within
  <1> QED BY <1>6, <1>7 DEF IInv

LEMMA CompleteStep ==
    ASSUME IInv, Complete
    PROVE  IInv'
  <1>1. /\ UNCHANGED <<seqno, acked, msgcount, min1, min2, min_rtt, measure_delta1, now, ticks, net, faults>>
        /\ pc = "send" /\ pc' = "done" /\ status' = "GOOD" /\ msgcount >= Msgs
        /\ measure_delta' = Halved(min1 - min2)
    BY DEF Complete, Returns, estimate, counters, clock
  <1>2. measure_delta' \in Int
    BY <1>1, HalvedBounds DEF IInv, TypeOK
  <1>3. TypeOK'
    BY <1>1, <1>2 DEF IInv, TypeOK, Statuses
  <1>4. msgcount > 0
    BY <1>1, ClockdiffAssumption DEF IInv, TypeOK
  <1>5. status = "GOOD"
    BY <1>1 DEF IInv, Running
  <1>6. Estimated
    BY <1>4, <1>5 DEF IInv, EstimateInv
  <1>7. Within(Halved(min1 - min2), min_rtt)
    BY <1>6, HalvedWithin DEF IInv, TypeOK, Estimated
  <1> QED
    BY <1>1, <1>3, <1>4, <1>6, <1>7 DEF IInv, Running, EstimateInv, Estimated, Within

(* A message that is under way, and what its arrival leaves.               *)
LEMMA ArrivesTypes ==
    ASSUME TypeOK, NEW m \in net, Arrives(m)
    PROVE  /\ m.seq \in 1 .. seqno /\ m.sent \in 0 .. Day - 1 /\ m.age \in 0 .. MaxRtt
           /\ UNCHANGED <<seqno, measure_delta, now, ticks>>
           /\ acked' \in 0 .. seqno /\ faults' \in Nat /\ net' \subseteq net
  <1>1. m.seq \in 1 .. seqno /\ m.sent \in 0 .. Day - 1 /\ m.age \in 0 .. MaxRtt
    BY DEF TypeOK
  <1>2. acked' \in 0 .. seqno
    BY <1>1 DEF TypeOK, Arrives, Greater
  <1>3. faults' \in Nat /\ net' \subseteq net
    BY DEF TypeOK, Arrives
  <1> QED BY <1>1, <1>2, <1>3 DEF Arrives, clock

LEMMA AcrossMidnightStep ==
    ASSUME IInv, NEW m \in net, AcrossMidnight(m)
    PROVE  IInv'
  <1>1. UNCHANGED <<pc, status, msgcount, min1, min2, min_rtt, measure_delta1>> /\ Arrives(m)
    BY DEF AcrossMidnight, estimate
  <1>2. /\ UNCHANGED <<seqno, measure_delta, now, ticks>>
        /\ acked' \in 0 .. seqno /\ faults' \in Nat /\ net' \subseteq net
    BY <1>1, ArrivesTypes DEF IInv
  <1>3. TypeOK'
    BY <1>1, <1>2 DEF IInv, TypeOK
  <1>4. Running' /\ EstimateInv'
    BY <1>1, <1>2 DEF IInv, Running, EstimateInv, Estimated, Unestimated, Within
  <1> QED BY <1>3, <1>4 DEF IInv

LEMMA UnusableStep ==
    ASSUME IInv, NEW m \in net, Unusable(m)
    PROVE  IInv'
  <1>1. /\ UNCHANGED <<seqno, min1, min2, min_rtt, measure_delta1, measure_delta, now, ticks, net>>
        /\ pc' = "done" /\ status' \in {"NONSTDTIME", "FAILED"} /\ faults > 0 /\ faults' = faults - 1
        /\ acked' \in {acked, Greater(acked, m.seq)} /\ msgcount' \in {msgcount, msgcount + 1}
    BY DEF Unusable, Returns, estimate, clock
  <1>2. m.seq \in 1 .. seqno
    BY DEF IInv, TypeOK
  <1>3. acked' \in 0 .. seqno /\ msgcount' \in Nat /\ faults' \in Nat
    BY <1>1, <1>2 DEF IInv, TypeOK, Greater
  <1>4. TypeOK'
    BY <1>1, <1>3 DEF IInv, TypeOK, Statuses
  <1>5. Running' /\ EstimateInv'
    BY <1>1 DEF Running, EstimateInv
  <1> QED BY <1>4, <1>5 DEF IInv

LEMMA AnswerStep ==
    ASSUME IInv, NEW m \in net, NEW fwd \in 0 .. m.age, NEW stay \in Stays, Answer(m, fwd, stay)
    PROVE  IInv'
  <1> DEFINE recvtime == OfDay(m.sent + m.age)
             delta1 == Nearest(OfDay(m.sent + fwd + Off) - m.sent)
             delta2 == Nearest(recvtime - OfDay(m.sent + fwd + stay + Off))
             diff == recvtime - m.sent
  <1>1. /\ pc = "poll" /\ fwd + stay <= m.age /\ diff >= 0 /\ Arrives(m)
        /\ msgcount' = msgcount + 1 /\ status' = status
        /\ IF diff < 1
           THEN /\ min1' = delta1 /\ min2' = delta2
                /\ min_rtt' = Lesser(min_rtt, delta1 + delta2)
                /\ measure_delta1' = IF delta1 + delta2 < min_rtt THEN Halved(delta1 - delta2)
                                     ELSE measure_delta1
                /\ pc' = "send"
           ELSE Sample(delta1, delta2) /\ pc' = "poll"
    BY DEF Answer
  <1>2. /\ m.sent \in 0 .. Day - 1 /\ m.age \in 0 .. MaxRtt
        /\ UNCHANGED <<seqno, measure_delta, now, ticks>>
        /\ acked' \in 0 .. seqno /\ faults' \in Nat /\ net' \subseteq net
    BY <1>1, ArrivesTypes DEF IInv
  <1>3. fwd \in Nat /\ stay \in Nat /\ Off \in Int /\ MaxRtt \in Nat
    BY <1>2, ClockdiffAssumption
  <1>4. diff = m.age /\ delta1 = fwd + Off /\ delta2 = (m.age - fwd - stay) - Off
    <2>1. fwd + stay <= m.age /\ OfDay(m.sent + m.age) - m.sent >= 0
      BY <1>1
    <2>2. m.sent \in 0 .. Day - 1 /\ m.age \in 0 .. MaxRtt
      BY <1>2
    <2> QED BY <1>3, <2>1, <2>2, AnswerDeltas
  <1> HIDE DEF recvtime, delta1, delta2, diff
  <1>5. /\ delta1 \in Int /\ delta2 \in Int /\ delta1 >= Off /\ delta2 >= -Off
        /\ delta1 + delta2 \in 0 .. MaxRtt
        /\ diff < 1 => delta1 = Off /\ delta2 = -Off /\ delta1 + delta2 = 0
    <2>1. fwd + stay <= m.age /\ m.age \in 0 .. MaxRtt
      BY <1>1, <1>2, Zenon
    <2> QED BY <1>3, <1>4, <2>1, DeltaBounds
  <1>6. Estimated \/ Unestimated
    BY <1>1 DEF IInv, Running, EstimateInv
  <1>7. min1 \in Int /\ min2 \in Int /\ min_rtt \in Int /\ measure_delta1 \in Int
    BY DEF IInv, TypeOK
  <1>8. Estimated' /\ min1' \in Int /\ min2' \in Int /\ min_rtt' \in Int /\ measure_delta1' \in Int
    <2>1. CASE diff < 1
      BY <1>1, <1>5, <1>6, <1>7, <2>1, ExactEstimates
    <2>2. CASE ~(diff < 1)
      BY <1>1, <1>5, <1>6, <1>7, <2>2, SampleEstimates
    <2> QED BY <2>1, <2>2
  <1>9. pc' \in {"send", "poll"} /\ msgcount' \in Nat /\ msgcount' > 0
    BY <1>1 DEF IInv, TypeOK
  <1>10. TypeOK'
    BY <1>1, <1>2, <1>8, <1>9 DEF IInv, TypeOK
  <1>11. Running' /\ EstimateInv'
    BY <1>1, <1>8, <1>9 DEF IInv, Running, EstimateInv
  <1> QED BY <1>10, <1>11 DEF IInv

LEMMA TickStep ==
    ASSUME IInv, Tick
    PROVE  IInv'
  <1>1. /\ UNCHANGED <<pc, status, seqno, acked, msgcount, min1, min2, min_rtt, measure_delta1, measure_delta, faults>>
        /\ ticks' = ticks + 1 /\ now' = OfDay(now + 1)
        /\ net' = {[m EXCEPT !.age = @ + 1] : m \in {n \in net : n.age < MaxRtt}}
    BY DEF Tick, counters, estimate
  <1>2. now' \in 0 .. Day - 1
    <2>1. now + 1 \in Int /\ -Day <= now + 1 /\ now + 1 < 2 * Day
      BY HalfDay DEF IInv, TypeOK
    <2> QED BY <1>1, <2>1, OfDayType
  <1>3. net' \subseteq [seq : 1 .. seqno, sent : 0 .. Day - 1, age : 0 .. MaxRtt]
    <2> SUFFICES ASSUME NEW x \in net'
                 PROVE  x \in [seq : 1 .. seqno, sent : 0 .. Day - 1, age : 0 .. MaxRtt]
      OBVIOUS
    <2>1. PICK m \in net : m.age < MaxRtt /\ x = [m EXCEPT !.age = m.age + 1]
      BY <1>1
    <2>2. m \in [seq : 1 .. seqno, sent : 0 .. Day - 1, age : 0 .. MaxRtt]
      BY DEF IInv, TypeOK
    <2>3. m.age + 1 \in 0 .. MaxRtt
      BY <2>1, <2>2, ClockdiffAssumption
    <2> QED BY <2>1, <2>2, <2>3
  <1>4. TypeOK'
    BY <1>1, <1>2, <1>3 DEF IInv, TypeOK
  <1>5. Running' /\ EstimateInv'
    BY <1>1 DEF IInv, Running, EstimateInv, Estimated, Unestimated, Within
  <1> QED BY <1>4, <1>5 DEF IInv

LEMMA NextIInv == IInv /\ [Next]_vars => IInv'
  <1> SUFFICES ASSUME IInv, [Next]_vars PROVE IInv'
    OBVIOUS
  <1>1. CASE UNCHANGED vars
    BY <1>1 DEF IInv, TypeOK, Running, EstimateInv, Estimated, Unestimated, Within, vars, counters,
           estimate, clock
  <1>2. CASE Process
    BY <1>2, CompleteStep, SendStep, AcrossMidnightStep, UnusableStep, AnswerStep DEF Process
  <1>3. CASE Tick
    BY <1>3, TickStep
  <1> QED BY <1>1, <1>2, <1>3 DEF Next, Done

LEMMA Invariance == Spec => []IInv
  BY InitIInv, NextIInv, PTL DEF Spec

(* Types; an answer is only ever to a message that was sent, and clocks    *)
(* show times of day.                                                      *)
THEOREM TypeCorrect == Spec => []TypeOK
  <1>1. IInv => TypeOK
    BY DEF IInv
  <1> QED BY <1>1, Invariance, PTL

(* Both printed estimates are within half the smallest round trip of the   *)
(* true difference, for every offset that leaves room for a round trip in  *)
(* half a day, and every loss, delay, duplication and midnight.            *)
THEOREM EstimatesAccurate == Spec => []Accurate
  <1>1. IInv => Accurate
    BY DEF IInv, EstimateInv, Estimated, Accurate
  <1> QED BY <1>1, Invariance, PTL
-----------------------------------------------------------------------------
(* The number of messages without an answer.                               *)

(* An answer leaves no more messages without one.                          *)
LEMMA FewerSilent ==
    ASSUME NEW s \in Nat, NEW a \in Nat, NEW b \in Nat, NEW t \in Nat, b >= a, s - a <= t + 1
    PROVE  s - b <= t + 1
  OBVIOUS

LEMMA SilentStep ==
    ASSUME IInv, [Next]_vars, DownWhenSilent
    PROVE  DownWhenSilent'
  <1>1. seqno \in Nat /\ acked \in Nat /\ Trials \in Nat
    BY ClockdiffAssumption DEF IInv, TypeOK
  <1>2. CASE Send \/ SendFails
    <2>1. seqno' = seqno + 1 /\ acked' = acked /\ ~(seqno - acked > Trials) /\ pc = "send"
      BY <1>2 DEF Send, SendFails, Down
    <2>2. status' # "HOSTDOWN"
      BY <1>2, <2>1 DEF Send, SendFails, Returns, IInv, Running
    <2> QED BY <1>1, <2>1, <2>2 DEF DownWhenSilent
  <1>3. CASE GiveUp
    <2>1. seqno' = seqno /\ acked' = acked /\ seqno - acked > Trials
      BY <1>3 DEF GiveUp, Down, counters
    <2> QED BY <1>1, <2>1 DEF DownWhenSilent
  <1>4. CASE Complete \/ Timeout \/ Tick \/ UNCHANGED vars
    <2>1. seqno' = seqno /\ acked' = acked /\ (status' = "HOSTDOWN" => status = "HOSTDOWN")
      BY <1>4 DEF Complete, Timeout, Tick, Returns, vars, counters
    <2> QED BY <1>1, <2>1 DEF DownWhenSilent
  <1>5. ASSUME NEW m \in net, seqno' = seqno, acked' = acked \/ acked' = Greater(acked, m.seq),
               status' # "HOSTDOWN"
        PROVE  DownWhenSilent'
    <2>1. m.seq \in Nat
      BY DEF IInv, TypeOK
    <2>2. acked' \in Nat /\ acked' >= acked
      BY <1>1, <1>5, <2>1 DEF Greater
    <2>3. seqno' = seqno /\ status' # "HOSTDOWN" /\ seqno - acked <= Trials + 1
      BY <1>5 DEF DownWhenSilent
    <2>4. seqno' - acked' <= Trials + 1
      BY <1>1, <2>2, <2>3, FewerSilent, Zenon
    <2> QED BY <2>3, <2>4 DEF DownWhenSilent
  <1>6. ASSUME NEW m \in net, AcrossMidnight(m) PROVE DownWhenSilent'
    <2>1. seqno' = seqno /\ acked' = Greater(acked, m.seq) /\ status' = status /\ pc = "poll"
      BY <1>6 DEF AcrossMidnight, Arrives
    <2>2. status' # "HOSTDOWN"
      BY <2>1 DEF IInv, Running
    <2> QED BY <1>5, <2>1, <2>2
  <1>7. ASSUME NEW m \in net, Unusable(m) PROVE DownWhenSilent'
    <2>1. seqno' = seqno /\ (acked' = acked \/ acked' = Greater(acked, m.seq)) /\ status' # "HOSTDOWN"
      BY <1>7 DEF Unusable, Returns
    <2> QED BY <1>5, <2>1
  <1>8. ASSUME NEW m \in net, NEW fwd \in 0 .. m.age, NEW stay \in Stays, Answer(m, fwd, stay)
        PROVE  DownWhenSilent'
    <2>1. seqno' = seqno /\ acked' = Greater(acked, m.seq) /\ status' = status /\ pc = "poll"
      BY <1>8 DEF Answer, Arrives
    <2>2. status' # "HOSTDOWN"
      BY <2>1 DEF IInv, Running
    <2> QED BY <1>5, <2>1, <2>2
  <1> QED BY <1>2, <1>3, <1>4, <1>6, <1>7, <1>8 DEF Next, Process, Done

(* measure() gives a peer up after Trials + 1 unanswered messages, for     *)
(* every Trials: never earlier, and it never sends another one.            *)
THEOREM GivesUpWhenSilent == Spec => []DownWhenSilent
  <1>1. Init => DownWhenSilent
    <2> SUFFICES ASSUME Init PROVE DownWhenSilent
      OBVIOUS
    <2>1. seqno = 0 /\ acked = 0 /\ status = "GOOD" /\ Trials \in Nat
      BY ClockdiffAssumption DEF Init
    <2> QED BY <2>1 DEF DownWhenSilent
  <1>2. IInv /\ DownWhenSilent /\ [Next]_vars => DownWhenSilent'
    BY SilentStep
  <1> QED BY <1>1, <1>2, Invariance, PTL DEF Spec

-----------------------------------------------------------------------------
(* measure() does not spin.                                                *)

(* Finitely many messages are under way.                                   *)
LEMMA NetFinite == ASSUME TypeOK PROVE IsFiniteSet(net)
  <1> DEFINE T == (1 .. seqno) \X ((0 .. Day - 1) \X (0 .. MaxRtt))
             f == [m \in net |-> <<m.seq, <<m.sent, m.age>>>>]
  <1>1. seqno \in Int /\ Day - 1 \in Int /\ MaxRtt \in Int
    BY HalfDay DEF TypeOK
  <1>2. IsFiniteSet(1 .. seqno) /\ IsFiniteSet(0 .. Day - 1) /\ IsFiniteSet(0 .. MaxRtt)
    BY <1>1, FS_Interval
  <1>3. IsFiniteSet(T)
    BY <1>2, FS_Product, Zenon
  <1>4. \A m \in net : f[m] \in T
    BY DEF TypeOK
  <1>5. \A m, n \in net : f[m] = f[n] => m = n
    <2> SUFFICES ASSUME NEW m \in net, NEW n \in net, f[m] = f[n] PROVE m = n
      OBVIOUS
    <2>1. m.seq = n.seq /\ m.sent = n.sent /\ m.age = n.age
      OBVIOUS
    <2>2. /\ m \in [seq : 1 .. seqno, sent : 0 .. Day - 1, age : 0 .. MaxRtt]
          /\ n \in [seq : 1 .. seqno, sent : 0 .. Day - 1, age : 0 .. MaxRtt]
      BY DEF TypeOK
    <2> QED BY <2>1, <2>2
  <1>6. f \in Injection(net, T)
    <2>1. f \in [net -> T]
      BY <1>4
    <2> QED BY <1>5, <2>1 DEF Injection, IsInjective
  <1> QED BY <1>3, <1>6, FS_Injection, Zenon

LEMMA LateFinite ==
    ASSUME TypeOK
    PROVE  IsFiniteSet(Late) /\ Cardinality(Late) \in Nat
  <1>1. IsFiniteSet(Late)
    BY NetFinite, FS_Subset DEF Late
  <1> QED BY <1>1, FS_CardinalityType, Zenon

(* A late message that is answered is one less; the others are as many.    *)
LEMMA OneLess ==
    ASSUME TypeOK, NEW m \in net, net' = net \ {m}
    PROVE  /\ m.age > 0 => Cardinality(Late)' = Cardinality(Late) - 1
           /\ ~(m.age > 0) => Late' = Late
  <1>1. m.age > 0 => m \in Late /\ Late' = Late \ {m}
    BY DEF Late
  <1>2. IsFiniteSet(Late)
    BY LateFinite
  <1>3. m \in Late => Cardinality(Late \ {m}) = Cardinality(Late) - 1
    BY <1>2, FS_RemoveElement, Zenon
  <1>4. m.age > 0 => Cardinality(Late)' = Cardinality(Late) - 1
    BY <1>1, <1>3, Zenon
  <1>5. ~(m.age > 0) => Late' = Late
    BY DEF Late
  <1> QED BY <1>4, <1>5, Zenon

(* An answer that comes again is a fault less.                             *)
LEMMA ArrivalFalls ==
    ASSUME TypeOK, NEW m \in net, Arrives(m)
    PROVE  \/ faults' < faults
           \/ /\ faults' = faults
              /\ m.age > 0 => Cardinality(Late)' < Cardinality(Late)
              /\ ~(m.age > 0) => Cardinality(Late)' = Cardinality(Late)
  <1>1. CASE net' = net \ {m} /\ faults' = faults
    <2>1. /\ m.age > 0 => Cardinality(Late)' = Cardinality(Late) - 1
          /\ ~(m.age > 0) => Late' = Late
      BY <1>1, OneLess, Zenon
    <2>2. Cardinality(Late) \in Nat
      BY LateFinite, Zenon
    <2>3. m.age > 0 => Cardinality(Late)' < Cardinality(Late)
      BY <2>1, <2>2
    <2>4. ~(m.age > 0) => Cardinality(Late)' = Cardinality(Late)
      BY <2>1, Zenon
    <2> QED BY <1>1, <2>3, <2>4, Zenon
  <1>2. CASE faults > 0 /\ faults' = faults - 1
    BY <1>2 DEF TypeOK
  <1> QED BY <1>1, <1>2 DEF Arrives

(* The time of day of an answer that took no time is that of its sending.  *)
LEMMA AtOnce ==
    ASSUME TypeOK, NEW m \in net, ~(m.age > 0)
    PROVE  OfDay(m.sent + m.age) = m.sent
  <1>1. m.sent \in 0 .. Day - 1 /\ m.age \in Nat /\ m.age = 0
    BY HalfDay DEF TypeOK
  <1>2. Day \in Nat
    BY HalfDay
  <1> QED BY <1>1, <1>2 DEF OfDay
(* A tuple falls where its first differing component does.                 *)
LEMMA Falls ==
    ASSUME NEW u, NEW v, Len(v) = 5, \A i \in 1..5 : u[i] \in Nat /\ v[i] \in Nat,
           \/ u[1] < v[1]
           \/ u[1] = v[1] /\ u[2] < v[2]
           \/ u[1] = v[1] /\ u[2] = v[2] /\ u[3] < v[3]
           \/ u[1] = v[1] /\ u[2] = v[2] /\ u[3] = v[3] /\ u[4] < v[4]
           \/ u[1] = v[1] /\ u[2] = v[2] /\ u[3] = v[3] /\ u[4] = v[4] /\ u[5] < v[5]
    PROVE  LexLess(u, v)
  <1>1. /\ u[1] \in Nat /\ v[1] \in Nat
        /\ u[2] \in Nat /\ v[2] \in Nat
        /\ u[3] \in Nat /\ v[3] \in Nat
        /\ u[4] \in Nat /\ v[4] \in Nat
        /\ u[5] \in Nat /\ v[5] \in Nat
    OBVIOUS
  <1>2. ASSUME NEW k \in 1..5, u[k] \in 0..(v[k] - 1), \A j \in 1..(k - 1) : u[j] = v[j]
        PROVE  LexLess(u, v)
    BY <1>2 DEF LexLess
  <1>3. CASE u[1] < v[1]
    <2>1. 1 \in 1..5 /\ u[1] \in 0..(v[1] - 1)
      BY <1>1, <1>3
    <2>2. \A j \in 1..(1 - 1) : u[j] = v[j]
      <3> SUFFICES ASSUME NEW j \in 1..(1 - 1) PROVE u[j] = v[j]
        OBVIOUS
      <3>1. FALSE
        OBVIOUS
      <3> QED BY <1>3, <3>1
    <2> QED BY <1>2, <2>1, <2>2, Zenon
  <1>4. CASE u[1] = v[1] /\ u[2] < v[2]
    <2>1. 2 \in 1..5 /\ u[2] \in 0..(v[2] - 1)
      BY <1>1, <1>4
    <2>2. \A j \in 1..(2 - 1) : u[j] = v[j]
      <3> SUFFICES ASSUME NEW j \in 1..(2 - 1) PROVE u[j] = v[j]
        OBVIOUS
      <3>1. j = 1
        OBVIOUS
      <3> QED BY <1>4, <3>1
    <2> QED BY <1>2, <2>1, <2>2, Zenon
  <1>5. CASE u[1] = v[1] /\ u[2] = v[2] /\ u[3] < v[3]
    <2>1. 3 \in 1..5 /\ u[3] \in 0..(v[3] - 1)
      BY <1>1, <1>5
    <2>2. \A j \in 1..(3 - 1) : u[j] = v[j]
      <3> SUFFICES ASSUME NEW j \in 1..(3 - 1) PROVE u[j] = v[j]
        OBVIOUS
      <3>1. j = 1 \/ j = 2
        OBVIOUS
      <3> QED BY <1>5, <3>1
    <2> QED BY <1>2, <2>1, <2>2, Zenon
  <1>6. CASE u[1] = v[1] /\ u[2] = v[2] /\ u[3] = v[3] /\ u[4] < v[4]
    <2>1. 4 \in 1..5 /\ u[4] \in 0..(v[4] - 1)
      BY <1>1, <1>6
    <2>2. \A j \in 1..(4 - 1) : u[j] = v[j]
      <3> SUFFICES ASSUME NEW j \in 1..(4 - 1) PROVE u[j] = v[j]
        OBVIOUS
      <3>1. j = 1 \/ j = 2 \/ j = 3
        OBVIOUS
      <3> QED BY <1>6, <3>1
    <2> QED BY <1>2, <2>1, <2>2, Zenon
  <1>7. CASE u[1] = v[1] /\ u[2] = v[2] /\ u[3] = v[3] /\ u[4] = v[4] /\ u[5] < v[5]
    <2>1. 5 \in 1..5 /\ u[5] \in 0..(v[5] - 1)
      BY <1>1, <1>7
    <2>2. \A j \in 1..(5 - 1) : u[j] = v[j]
      <3> SUFFICES ASSUME NEW j \in 1..(5 - 1) PROVE u[j] = v[j]
        OBVIOUS
      <3>1. j = 1 \/ j = 2 \/ j = 3 \/ j = 4
        OBVIOUS
      <3> QED BY <1>7, <3>1
    <2> QED BY <1>2, <2>1, <2>2, Zenon
  <1> QED BY <1>3, <1>4, <1>5, <1>6, <1>7, Zenon

Silent == Trials + 1 - (seqno - acked)
Polling == IF pc = "poll" THEN 1 ELSE 0

(* What is left is a tuple of naturals.                                    *)
LEMMA LeftType ==
    ASSUME TypeOK, DownWhenSilent
    PROVE  /\ faults \in Nat /\ Cardinality(Late) \in Nat /\ AnswersLeft \in Nat
           /\ Silent \in Nat /\ Polling \in Nat
  <1>1. /\ faults \in Nat /\ seqno \in Nat /\ acked \in Nat /\ msgcount \in Nat
        /\ Trials \in Nat /\ Msgs \in Nat /\ seqno - acked <= Trials + 1
    BY ClockdiffAssumption DEF TypeOK, DownWhenSilent
  <1>2. Cardinality(Late) \in Nat
    BY LateFinite, Zenon
  <1>3. AnswersLeft \in Nat
    BY <1>1 DEF AnswersLeft
  <1>4. Silent \in Nat
    BY <1>1 DEF Silent
  <1> QED BY <1>1, <1>2, <1>3, <1>4 DEF Polling

(* A message sent is one less to send.                                     *)
LEMMA OneMoreSilent ==
    ASSUME NEW t \in Nat, NEW s \in Nat, NEW a \in Nat, NEW s1, NEW a1, NEW l, NEW l1,
           s1 = s + 1, a1 = a, l = t + 1 - (s - a), l1 = t + 1 - (s1 - a1)
    PROVE  l1 < l
  OBVIOUS

(* An answer that ends the wait is one less to wait for.                   *)
LEMMA AnsweredFalls ==
    ASSUME msgcount \in Nat, pc = "poll", pc' = "send", msgcount' = msgcount + 1
    PROVE  AnswersLeft' < AnswersLeft
  <1> DEFINE a == AnswersLeft
             b == AnswersLeft'
  <1>1. Msgs \in Nat
    BY ClockdiffAssumption
  <1>2. a = IF msgcount < Msgs THEN Msgs - msgcount + 2 ELSE 2
    BY DEF AnswersLeft
  <1>3. b = IF msgcount + 1 < Msgs THEN Msgs - (msgcount + 1) + 2 ELSE 1
    BY DEF AnswersLeft
  <1> SUFFICES b < a
    OBVIOUS
  <1> HIDE DEF a, b
  <1> QED BY <1>1, <1>2, <1>3

(* What each step of the process uses up.                                  *)
LEMMA ProcessFalls ==
    ASSUME TypeOK, DownWhenSilent, Process
    PROVE  \/ faults' < faults
           \/ faults' = faults /\ Cardinality(Late)' < Cardinality(Late)
           \/ /\ faults' = faults /\ Cardinality(Late)' = Cardinality(Late)
              /\ \/ AnswersLeft' < AnswersLeft
                 \/ AnswersLeft' = AnswersLeft /\ Silent' < Silent
                 \/ AnswersLeft' = AnswersLeft /\ Silent' = Silent /\ Polling' < Polling
  <1>1. /\ faults \in Nat /\ seqno \in Nat /\ acked \in Nat /\ msgcount \in Nat
        /\ Trials \in Nat /\ Msgs \in Nat
    BY ClockdiffAssumption DEF TypeOK
  <1>2. CASE Complete
    <2>1. pc = "send" /\ msgcount >= Msgs /\ pc' = "done" /\ UNCHANGED <<net, faults>>
      BY <1>2 DEF Complete, Returns
    <2>2. ~(msgcount < Msgs)
      BY <1>1, <2>1
    <2>3. AnswersLeft = 1 /\ AnswersLeft' = 0
      BY <2>1, <2>2 DEF AnswersLeft
    <2>4. AnswersLeft' < AnswersLeft
      BY <2>3
    <2>5. Cardinality(Late)' = Cardinality(Late)
      BY <2>1 DEF Late
    <2> QED BY <2>1, <2>4, <2>5, Zenon
  <1>3. CASE GiveUp
    <2>1. pc = "send" /\ msgcount < Msgs /\ pc' = "done" /\ UNCHANGED <<net, faults>>
      BY <1>3 DEF GiveUp, Returns
    <2>2. AnswersLeft = Msgs - msgcount + 2 /\ AnswersLeft' = 0
      BY <2>1 DEF AnswersLeft
    <2>3. AnswersLeft' < AnswersLeft
      BY <1>1, <2>1, <2>2
    <2>4. Cardinality(Late)' = Cardinality(Late)
      BY <2>1 DEF Late
    <2> QED BY <2>1, <2>3, <2>4, Zenon
  <1>4. CASE Send
    <2>1. /\ pc = "send" /\ msgcount < Msgs /\ pc' = "poll" /\ UNCHANGED <<faults, acked, msgcount>>
          /\ seqno' = seqno + 1
          /\ net' = net \union {[seq |-> seqno + 1, sent |-> now, age |-> 0]}
      BY <1>4 DEF Send
    <2>2. Late' = Late
      <3>1. ~([seq |-> seqno + 1, sent |-> now, age |-> 0].age > 0)
        OBVIOUS
      <3> QED BY <2>1, <3>1 DEF Late
    <2>3. AnswersLeft' = AnswersLeft
      BY <2>1 DEF AnswersLeft
    <2>4. Silent' < Silent
      <3>1. Silent = Trials + 1 - (seqno - acked) /\ Silent' = Trials + 1 - (seqno' - acked')
        BY DEF Silent
      <3>2. seqno' = seqno + 1 /\ acked' = acked
        BY <2>1
      <3> QED BY <1>1, <3>1, <3>2, OneMoreSilent, Zenon
    <2> QED BY <2>1, <2>2, <2>3, <2>4, Zenon
  <1>5. ASSUME faults > 0, faults' = faults - 1 PROVE faults' < faults
    BY <1>1, <1>5
  <1>6. CASE SendFails
    BY <1>5, <1>6, Zenon DEF SendFails
  <1>7. CASE Timeout
    <2>1. pc = "poll" /\ pc' = "send" /\ UNCHANGED <<faults, net, seqno, acked, msgcount>>
      BY <1>7 DEF Timeout, counters
    <2>2. Late' = Late /\ Silent' = Silent
      BY <2>1 DEF Late, Silent
    <2>3. Polling = 1 /\ Polling' = 0
      BY <2>1 DEF Polling
    <2>4. Polling' < Polling
      BY <2>3
    <2>5. CASE msgcount < Msgs
      <3>1. AnswersLeft' = AnswersLeft
        BY <2>1, <2>5 DEF AnswersLeft
      <3> QED BY <2>1, <2>2, <2>4, <3>1, Zenon
    <2>6. CASE ~(msgcount < Msgs)
      <3>1. AnswersLeft = 2 /\ AnswersLeft' = 1
        BY <2>1, <2>6 DEF AnswersLeft
      <3>2. AnswersLeft' < AnswersLeft
        BY <3>1
      <3> QED BY <2>1, <2>2, <3>2, Zenon
    <2> QED BY <2>5, <2>6
  <1>8. ASSUME NEW m \in net, AcrossMidnight(m)
        PROVE  \/ faults' < faults
               \/ faults' = faults /\ Cardinality(Late)' < Cardinality(Late)
    <2>1. Arrives(m) /\ OfDay(m.sent + m.age) < m.sent
      BY <1>8 DEF AcrossMidnight
    <2>2. m.age > 0
      <3> SUFFICES ASSUME ~(m.age > 0) PROVE FALSE
        OBVIOUS
      <3>1. OfDay(m.sent + m.age) = m.sent
        BY AtOnce
      <3>2. m.sent \in Int
        BY DEF TypeOK
      <3> QED BY <2>1, <3>1, <3>2
    <2> QED BY <2>1, <2>2, ArrivalFalls, Zenon
  <1>9. ASSUME NEW m \in net, Unusable(m) PROVE faults' < faults
    BY <1>5, <1>9, Zenon DEF Unusable
  <1>10. ASSUME NEW m \in net, NEW fwd \in 0 .. m.age, NEW stay \in Stays, Answer(m, fwd, stay)
         PROVE  \/ faults' < faults
                \/ faults' = faults /\ Cardinality(Late)' < Cardinality(Late)
                \/ /\ faults' = faults /\ Cardinality(Late)' = Cardinality(Late)
                   /\ AnswersLeft' < AnswersLeft
    <2>1. Arrives(m) /\ pc = "poll" /\ msgcount' = msgcount + 1
      BY <1>10 DEF Answer
    <2>2. CASE m.age > 0
      BY <2>1, <2>2, ArrivalFalls, Zenon
    <2>3. CASE ~(m.age > 0)
      <3>1. OfDay(m.sent + m.age) = m.sent
        BY <2>3, AtOnce
      <3>2. m.sent \in Int
        BY DEF TypeOK
      <3>3. OfDay(m.sent + m.age) - m.sent < 1
        BY <3>1, <3>2
      <3>4. pc' = "send"
        BY <1>10, <3>3 DEF Answer
      <3>5. AnswersLeft' < AnswersLeft
        BY <1>1, <2>1, <3>4, AnsweredFalls, Zenon
      <3> QED BY <2>1, <2>3, <3>5, ArrivalFalls, Zenon
    <2> QED BY <2>2, <2>3
  <1> QED
    BY <1>2, <1>3, <1>4, <1>6, <1>7, <1>8, <1>9, <1>10, Zenon DEF Process

(* Whatever is lost, late, dropped at midnight or answered twice,          *)
(* measure() takes finitely many steps before the clock ticks.             *)
THEOREM MeasureNeverSpins == Spec => NeverSpins
  <1>1. ASSUME TypeOK, TypeOK', DownWhenSilent, DownWhenSilent', Process
        PROVE  LexLess(Left', Left)
    <2>1. /\ faults \in Nat /\ Cardinality(Late) \in Nat /\ AnswersLeft \in Nat
          /\ Silent \in Nat /\ Polling \in Nat
      BY <1>1, LeftType, Zenon
    <2>2. /\ faults' \in Nat /\ Cardinality(Late)' \in Nat /\ AnswersLeft' \in Nat
          /\ Silent' \in Nat /\ Polling' \in Nat
      <3>1. (TypeOK /\ DownWhenSilent =>
               /\ faults \in Nat /\ Cardinality(Late) \in Nat /\ AnswersLeft \in Nat
               /\ Silent \in Nat /\ Polling \in Nat)'
        BY LeftType, PTL
      <3> QED BY <1>1, <3>1, Zenon
    <2> DEFINE u == Left'
               v == Left
    <2>3. /\ Len(v) = 5
          /\ u[1] = faults' /\ v[1] = faults
          /\ u[2] = Cardinality(Late)' /\ v[2] = Cardinality(Late)
          /\ u[3] = AnswersLeft' /\ v[3] = AnswersLeft
          /\ u[4] = Silent' /\ v[4] = Silent
          /\ u[5] = Polling' /\ v[5] = Polling
      BY DEF Left, Silent, Polling
    <2>4. LexLess(u, v) => LexLess(Left', Left)
      OBVIOUS
    <2> HIDE DEF u, v
    <2>5. \/ u[1] < v[1]
          \/ u[1] = v[1] /\ u[2] < v[2]
          \/ u[1] = v[1] /\ u[2] = v[2] /\ u[3] < v[3]
          \/ u[1] = v[1] /\ u[2] = v[2] /\ u[3] = v[3] /\ u[4] < v[4]
          \/ u[1] = v[1] /\ u[2] = v[2] /\ u[3] = v[3] /\ u[4] = v[4] /\ u[5] < v[5]
      BY <1>1, <2>3, ProcessFalls
    <2>6. \A i \in 1..5 : u[i] \in Nat /\ v[i] \in Nat
      <3> SUFFICES ASSUME NEW i \in 1..5 PROVE u[i] \in Nat /\ v[i] \in Nat
        OBVIOUS
      <3>1. i = 1 \/ i = 2 \/ i = 3 \/ i = 4 \/ i = 5
        OBVIOUS
      <3> QED BY <2>1, <2>2, <2>3, <3>1, Zenon
    <2>7. LexLess(u, v)
      BY <2>3, <2>5, <2>6, Falls
    <2> QED BY <2>4, <2>7, Zenon
  <1>2. /\ TypeOK /\ TypeOK' /\ DownWhenSilent /\ DownWhenSilent' /\ [Next]_vars
        => [Process => LexLess(Left', Left)]_vars
    BY <1>1, Zenon
  <1> QED BY <1>2, TypeCorrect, GivesUpWhenSilent, PTL DEF Spec, NeverSpins
=============================================================================
