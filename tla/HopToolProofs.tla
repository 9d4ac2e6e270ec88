--------------------------- MODULE HopToolProofs ---------------------------
(***************************************************************************)
(* For every table size, window, -m, -c and set of round-trip times:       *)
(* btraceroute and bmtr stay inside their table and their sample ring, the *)
(* table is the beginning of the route, bmtr probes its hops equally often,*)
(* its statistics fit the answers however often the ring has wrapped, a    *)
(* row that says all was lost is that of a hop probed in vain, and the     *)
(* loops wind down, except those of a bmtr that nobody stops.              *)
(***************************************************************************)
EXTENDS HopTool, TLAPS

(* The table while it is filled: one entry per hop line, and nothing is    *)
(* counted before bmtr probes.                                             *)
RouteInv ==
    /\ Len(hops) <= cap
    /\ Len(hops) <= Len(heard)
    /\ \A k \in 1..Len(hops) : hops[k].num = heard[k]
    /\ Len(hops) = Len(heard) \/ (pc # "read" /\ Len(hops) = cap)

(* What every hop's number of probes is while the for loop of main is at   *)
(* hop i, and after it was left.                                           *)
ProbesInv ==
    /\ pc \in {"locate", "while", "probe", "drawn"} => Bmtr
    /\ pc \in {"read", "locate"} => ~g_stop
    /\ pc \in {"read", "locate", "failed", "killed"} \/ ~Bmtr =>
          \A s \in Slots : nprobes[s] = 0
    /\ pc \in {"read", "locate"} => cycle = 0
    /\ pc = "probe" =>
          /\ i <= Len(hops) + 1
          /\ \A s \in 1..Len(hops) : nprobes[s] = IF s < i THEN cycle + 1 ELSE cycle
    /\ pc \in {"while", "drawn", "report", "done"} /\ Bmtr =>
          \/ \A s \in 1..Len(hops) : nprobes[s] = cycle
          \/ /\ g_stop
             /\ \A s \in 1..Len(hops) : nprobes[s] = IF s < i THEN cycle ELSE cycle - 1
    /\ \A s \in Slots : nprobes[s] = nsamp[s] + ntimeout[s]

IInv == TypeOK /\ RouteInv /\ ProbesInv

-----------------------------------------------------------------------------
(* bmtr's -m is brought into the table, so the table bounds the reading.   *)
LEMMA CapInTable == ASSUME cl \in Commandlines PROVE cap \in 1..MAX_HOPS
  BY HopToolAssumption DEF cap, maxhops, Bmtr, Slots

(* The entries filled are entries of the table.                            *)
LEMMA InTable ==
    ASSUME TypeOK, Len(hops) <= cap
    PROVE  /\ DOMAIN hops = 1..Len(hops)
           /\ Len(hops) \in Nat
           /\ DOMAIN hops \subseteq Slots
           /\ \A k \in DOMAIN hops : hops[k] \in Hop
  <1>1. hops \in Seq(Hop) /\ cl \in Commandlines
    BY DEF TypeOK
  <1>2. DOMAIN hops = 1..Len(hops) /\ Len(hops) \in Nat
    BY <1>1
  <1>3. cap \in 1..MAX_HOPS /\ MAX_HOPS \in Nat
    BY <1>1, CapInTable, HopToolAssumption
  <1>4. DOMAIN hops \subseteq Slots
    BY <1>2, <1>3 DEF Slots
  <1>5. ASSUME NEW k \in DOMAIN hops PROVE hops[k] \in Hop
    BY <1>1, <1>2
  <1> QED
    BY <1>2, <1>4, <1>5

(* A percentage lies between 0 and 100.                                    *)
LEMMA Percent ==
    ASSUME NEW a \in Nat, NEW b \in Nat, a <= b, b > 0
    PROVE  (100 * a) \div b \in 0..100
  <1> DEFINE q == (100 * a) \div b
  <1>1. q \in Int /\ 100 * a = b * q + ((100 * a) % b) /\ (100 * a) % b \in 0..(b - 1)
    BY Z3
  <1>2. q >= 0
    BY <1>1, Z3
  <1>3. q <= 100
    BY <1>1, Z3
  <1> QED
    BY <1>1, <1>2, <1>3

(* A row bmtr shows is a number, a percentage and whether there are times. *)
LEMMA RowType ==
    ASSUME IInv, NEW k \in DOMAIN hops
    PROVE  Row(k) \in Rows
  <1>1. k \in Slots /\ hops[k] \in Hop
    BY InTable DEF IInv, RouteInv
  <1>2. nprobes[k] \in Nat /\ ntimeout[k] \in Nat /\ nsamp[k] \in Nat
    BY <1>1 DEF IInv, TypeOK
  <1>3. ntimeout[k] <= nprobes[k]
    BY <1>1, <1>2 DEF IInv, ProbesInv
  <1>4. (IF nprobes[k] > 0 THEN (100 * ntimeout[k]) \div nprobes[k] ELSE 100) \in 0..100
    <2>1. CASE nprobes[k] > 0
      BY <2>1, <1>2, <1>3, Percent, Zenon
    <2>2. CASE ~(nprobes[k] > 0)
      BY <2>2
    <2> QED BY <2>1, <2>2
  <1>5. hops[k].num \in Nat
    BY <1>1 DEF Hop
  <1>6. (nsamp[k] > 0) \in BOOLEAN
    BY <1>2
  <1> QED
    BY <1>4, <1>5, <1>6 DEF Row, Rows

(* Adding a round trip to the sums of a hop keeps them numbers.            *)
LEMMA SumsType ==
    ASSUME NEW x \in Nat, NEW y \in Nat, NEW t \in Nat
    PROVE  x + t \in Nat /\ y + t * t \in Nat
  <1>1. t * t \in Nat
    OBVIOUS
  <1> QED BY <1>1

(* hop_add_sample keeps the record of a hop and writes inside the ring.    *)
LEMMA SampledType ==
    ASSUME TypeOK, NEW k \in Slots, NEW r \in Rtts
    PROVE  Sampled(k, r) \in Agg /\ Len(Sampled(k, r).samples) <= MAX_SAMPLES
  <1> DEFINE a == agg[k]
             idx == (nsamp[k] % MAX_SAMPLES) + 1
             next == IF idx > Len(a.samples) THEN Append(a.samples, r)
                     ELSE [a.samples EXCEPT ![idx] = r]
  <1>1. a \in Agg /\ nsamp[k] \in Nat /\ Len(a.samples) <= MAX_SAMPLES /\ r \in Nat
    BY HopToolAssumption DEF TypeOK
  <1>2. /\ a.sum \in Nat /\ a.sumsq \in Nat /\ a.smin \in Nat /\ a.smax \in Nat
        /\ a.samples \in Seq(Rtts)
    BY <1>1 DEF Agg
  <1>3. MAX_SAMPLES \in Nat \ {0}
    BY HopToolAssumption
  <1>4. idx \in 1..MAX_SAMPLES
    BY <1>1, <1>3
  <1>5. next \in Seq(Rtts) /\ Len(next) <= MAX_SAMPLES
    <2> HIDE DEF idx, a
    <2>1. CASE idx > Len(a.samples)
      BY <2>1, <1>1, <1>2, <1>3, <1>4
    <2>2. CASE ~(idx > Len(a.samples))
      BY <2>2, <1>1, <1>2, <1>3, <1>4
    <2> QED BY <2>1, <2>2
  <1>6. a.sum + r \in Nat /\ a.sumsq + r * r \in Nat
    BY <1>1, <1>2, SumsType, Zenon
  <1> HIDE DEF next
  <1>7. Sampled(k, r) = [sum |-> a.sum + r, sumsq |-> a.sumsq + r * r,
                         smin |-> IF nsamp[k] = 0 \/ r < a.smin THEN r ELSE a.smin,
                         smax |-> IF nsamp[k] = 0 \/ r > a.smax THEN r ELSE a.smax,
                         samples |-> next]
    BY DEF Sampled, next
  <1> QED
    BY <1>1, <1>2, <1>5, <1>6, <1>7 DEF Agg

-----------------------------------------------------------------------------
(* A probe without an answer, and one with, keep the types.                *)
LEMMA AddTimeoutType ==
    ASSUME TypeOK, NEW k \in Slots, hop_add_timeout(k)
    PROVE  /\ nprobes' \in [Slots -> Nat] /\ ntimeout' \in [Slots -> Nat]
           /\ nsamp' \in [Slots -> Nat]
           /\ agg' \in [Slots -> Agg] /\ answers' \in [Slots -> Seq(Rtts)]
           /\ \A s \in Slots : Len(agg'[s].samples) <= MAX_SAMPLES
  BY DEF TypeOK, hop_add_timeout

LEMMA AddSampleType ==
    ASSUME TypeOK, NEW k \in Slots, NEW r \in Rtts, hop_add_sample(k, r)
    PROVE  /\ nprobes' \in [Slots -> Nat] /\ ntimeout' \in [Slots -> Nat]
           /\ nsamp' \in [Slots -> Nat]
           /\ agg' \in [Slots -> Agg] /\ answers' \in [Slots -> Seq(Rtts)]
           /\ \A s \in Slots : Len(agg'[s].samples) <= MAX_SAMPLES
  <1>1. nprobes' \in [Slots -> Nat] /\ ntimeout' \in [Slots -> Nat] /\ nsamp' \in [Slots -> Nat]
    BY DEF TypeOK, hop_add_sample
  <1>2. agg' = [agg EXCEPT ![k] = Sampled(k, r)] /\ agg \in [Slots -> Agg]
    BY DEF TypeOK, hop_add_sample
  <1>3. Sampled(k, r) \in Agg /\ Len(Sampled(k, r).samples) <= MAX_SAMPLES
    BY SampledType
  <1>4. agg' \in [Slots -> Agg] /\ \A s \in Slots : Len(agg'[s].samples) <= MAX_SAMPLES
    BY <1>2, <1>3 DEF TypeOK
  <1>5. answers' \in [Slots -> Seq(Rtts)]
    BY DEF TypeOK, hop_add_sample
  <1> QED
    BY <1>1, <1>4, <1>5

(* Reading a line, or locating the hops, keeps hops[] a table of hops.     *)
LEMMA ReadType ==
    ASSUME TypeOK, NEW l \in Lines, ReadHop(l)
    PROVE  /\ hops' \in Seq(Hop) /\ heard' \in Seq(Nat)
           /\ seen' \in Nat /\ over' \in BOOLEAN /\ pc' \in Places
  <1>1. l.host \in {"ip", "star"} /\ l.rtt \in Int
    BY HopToolAssumption DEF Lines
  <1>2. seen' \in Nat /\ seen + 1 \in Nat
    BY DEF ReadHop, TypeOK
  <1>6. over' \in BOOLEAN
    BY Zenon DEF ReadHop
  <1>3. heard' \in Seq(Nat)
    BY <1>2 DEF ReadHop, TypeOK
  <1>4. pc' \in Places
    BY Zenon DEF ReadHop, TypeOK, Places, AfterRead
  <1>5. hops' \in Seq(Hop)
    <2>1. CASE Len(hops) < cap
      <3>1. PICK g \in BOOLEAN :
               hops' = Append(hops, [num |-> seen + 1, host |-> l.host, rtt |-> l.rtt, geo |-> g])
        BY <2>1, Zenon DEF ReadHop
      <3>2. [num |-> seen + 1, host |-> l.host, rtt |-> l.rtt, geo |-> g] \in Hop
        BY <1>1, <1>2 DEF Hop
      <3> QED BY <3>1, <3>2 DEF TypeOK
    <2>2. CASE ~(Len(hops) < cap)
      BY <2>2 DEF ReadHop, TypeOK
    <2> QED BY <2>1, <2>2
  <1> QED
    BY <1>2, <1>3, <1>4, <1>5, <1>6

LEMMA LocateShape ==
    ASSUME TypeOK, Locate
    PROVE  /\ hops' \in Seq(Hop)
           /\ Len(hops') = Len(hops)
           /\ \A k \in 1..Len(hops) : hops'[k].num = hops[k].num
  <1>1. PICK g \in [DOMAIN hops -> BOOLEAN] :
           hops' = [k \in DOMAIN hops |-> [hops[k] EXCEPT !.geo = g[k] /\ hops[k].host = "ip"]]
    BY Zenon DEF Locate
  <1>2. hops \in Seq(Hop) /\ DOMAIN hops = 1..Len(hops) /\ Len(hops) \in Nat
    BY DEF TypeOK
  <1>3. ASSUME NEW k \in 1..Len(hops)
        PROVE  hops'[k] \in Hop /\ hops'[k].num = hops[k].num
    <2>1. hops[k] \in Hop
      BY <1>2
    <2>2. hops'[k] = [hops[k] EXCEPT !.geo = g[k] /\ hops[k].host = "ip"]
      BY <1>1, <1>2
    <2>3. (g[k] /\ hops[k].host = "ip") \in BOOLEAN
      OBVIOUS
    <2> HIDE <1>1
    <2> QED BY <2>1, <2>2, <2>3, Zenon DEF Hop
  <1>4. DOMAIN hops' = 1..Len(hops)
    BY <1>1, <1>2
  <1>5. hops' = [k \in 1..Len(hops) |-> hops'[k]]
    BY <1>1, <1>2
  <1>6. hops' \in [1..Len(hops) -> Hop]
    BY <1>3, <1>5
  <1> QED
    BY <1>2, <1>3, <1>4, <1>6

(* The hop that is probed has its place in hops[].                         *)
LEMMA ProbedInTable ==
    ASSUME TypeOK, Len(hops) <= cap, i <= Len(hops)
    PROVE  i \in Slots
  <1>1. i \in Nat \ {0}
    BY Zenon DEF TypeOK
  <1>2. Len(hops) \in Nat /\ 1..Len(hops) \subseteq Slots
    BY InTable
  <1>3. i \in 1..Len(hops)
    BY <1>1, <1>2
  <1> QED BY <1>2, <1>3, Zenon

(* Every step keeps the types.                                             *)
LEMMA TypeNext ==
    ASSUME IInv, [Next]_vars
    PROVE  TypeOK'
  <1> USE DEF route, stats
  <1>0. TypeOK /\ Len(hops) <= cap /\ DOMAIN hops \subseteq Slots /\ DOMAIN hops = 1..Len(hops)
    BY InTable DEF IInv, RouteInv
  <1>1. ASSUME NEW l \in Lines, ReadHop(l) PROVE TypeOK'
    <2>1. /\ hops' \in Seq(Hop) /\ heard' \in Seq(Nat)
          /\ seen' \in Nat /\ over' \in BOOLEAN /\ pc' \in Places
      BY <1>0, <1>1, ReadType
    <2>2. UNCHANGED <<cl, other, nprobes, ntimeout, nsamp, agg, answers, i, cycle, g_stop, screen, out>>
      BY <1>1 DEF ReadHop
    <2> QED
      BY <1>0, <2>1, <2>2 DEF TypeOK
  <1>2. CASE ReadOther
    BY <1>0, <1>2 DEF ReadOther, AfterRead, TypeOK, Places
  <1>3. CASE ReadEof
    BY <1>0, <1>3 DEF ReadEof, AfterRead, TypeOK, Places
  <1>4. CASE Locate
    <2>1. hops' \in Seq(Hop)
      BY <1>0, <1>4, LocateShape
    <2>2. pc' = "while" /\ UNCHANGED <<cl, seen, other, over, heard, stats, i, cycle, g_stop, screen, out>>
      BY <1>4 DEF Locate
    <2> QED
      BY <1>0, <2>1, <2>2 DEF TypeOK, Places
  <1>5. CASE While
    BY <1>0, <1>5 DEF While, TypeOK, Places
  <1>6. CASE ProbeTimeout
    <2>1. i \in Slots /\ hop_add_timeout(i)
      BY <1>0, <1>6, ProbedInTable, Zenon DEF ProbeTimeout
    <2>2. i' \in Nat \ {0} /\ UNCHANGED <<pc, cl, route, cycle, g_stop, screen, out>>
      BY <1>0, <1>6 DEF ProbeTimeout, NextProbe, TypeOK
    <2> QED
      BY <1>0, <2>1, <2>2, AddTimeoutType, Zenon DEF TypeOK
  <1>7. ASSUME NEW r \in Rtts, ProbeAnswer(r) PROVE TypeOK'
    <2>1. i \in Slots /\ hop_add_sample(i, r)
      BY <1>0, <1>7, ProbedInTable, Zenon DEF ProbeAnswer
    <2>2. i' \in Nat \ {0} /\ UNCHANGED <<pc, cl, route, cycle, g_stop, screen, out>>
      BY <1>0, <1>7 DEF ProbeAnswer, NextProbe, TypeOK
    <2> QED
      BY <1>0, <2>1, <2>2, AddSampleType, Zenon DEF TypeOK
  <1>8. CASE ProbeInterrupted
    <2>1. i \in Slots /\ hop_add_timeout(i)
      BY <1>0, <1>8, ProbedInTable, Zenon DEF ProbeInterrupted
    <2>2. i' \in Nat \ {0} /\ g_stop' = TRUE /\ UNCHANGED <<pc, cl, route, cycle, screen, out>>
      BY <1>0, <1>8 DEF ProbeInterrupted, NextProbe, TypeOK
    <2> QED
      BY <1>0, <2>1, <2>2, AddTimeoutType, Zenon DEF TypeOK
  <1>9. draw_table \subseteq Rows /\ draw_report \subseteq Rows
    BY RowType DEF draw_table, draw_report
  <1>10. CASE CycleEnds
    <2>1. screen' \subseteq Rows
      BY <1>0, <1>9, <1>10 DEF CycleEnds, TypeOK
    <2>2. /\ cycle' \in Nat /\ pc' = "drawn"
          /\ UNCHANGED <<cl, route, stats, i, g_stop, out>>
      BY <1>0, <1>10 DEF CycleEnds, TypeOK
    <2> QED
      BY <1>0, <2>1, <2>2 DEF TypeOK, Places
  <1>11. CASE Pause
    BY <1>0, <1>11 DEF Pause, TypeOK, Places
  <1>12. CASE Interrupt
    BY <1>0, <1>12, Zenon DEF Interrupt, TypeOK, Places
  <1>13. CASE BmtrReport
    <2>1. screen' \subseteq Rows
      BY <1>0, <1>9, <1>13 DEF BmtrReport, TypeOK
    <2>2. pc' = "done" /\ UNCHANGED <<cl, route, stats, i, cycle, g_stop, out>>
      BY <1>13 DEF BmtrReport
    <2> QED
      BY <1>0, <2>1, <2>2 DEF TypeOK, Places
  <1>14. CASE BtracerouteSummary
    <2>1. out' \subseteq {"distance", "efficiency", "path"}
      BY <1>14 DEF BtracerouteSummary
    <2>2. pc' = "done" /\ UNCHANGED <<cl, route, stats, i, cycle, g_stop, screen>>
      BY <1>14 DEF BtracerouteSummary
    <2> QED
      BY <1>0, <2>1, <2>2 DEF TypeOK, Places
  <1>15. CASE UNCHANGED vars
    BY <1>0, <1>15 DEF TypeOK, vars
  <1> QED
    BY <1>1, <1>2, <1>3, <1>4, <1>5, <1>6, <1>7, <1>8, <1>10, <1>11, <1>12, <1>13, <1>14, <1>15
       DEF Next, Step

-----------------------------------------------------------------------------
(* Every step keeps the table the beginning of the route.                  *)
LEMMA RouteNext ==
    ASSUME IInv, [Next]_vars
    PROVE  RouteInv'
  <1> USE DEF route, stats
  <1>0. /\ hops \in Seq(Hop) /\ heard \in Seq(Nat) /\ Len(hops) \in Nat /\ Len(heard) \in Nat
        /\ seen \in Nat /\ cap \in Int
    BY CapInTable DEF IInv, TypeOK
  <1>1. cap' = cap
    <2>1. cl' = cl
      BY Zenon DEF Next, Step, vars, ReadHop, ReadOther, ReadEof, Locate, While, ProbeTimeout, ProbeAnswer,
             ProbeInterrupted, CycleEnds, Pause, Interrupt, BmtrReport, BtracerouteSummary
    <2> QED BY <2>1 DEF cap, maxhops, Bmtr
  <1>2. ASSUME NEW l \in Lines, ReadHop(l) PROVE RouteInv'
    <2>1. heard' = Append(heard, seen + 1) /\ Len(hops) = Len(heard) /\ pc = "read"
      BY <1>2 DEF ReadHop, IInv, RouteInv
    <2>2. Len(heard') = Len(heard) + 1 /\ heard'[Len(heard) + 1] = seen + 1
          /\ \A k \in 1..Len(heard) : heard'[k] = heard[k]
      BY <1>0, <2>1
    <2>3. CASE Len(hops) < cap
      <3>1. PICK g \in BOOLEAN :
               hops' = Append(hops, [num |-> seen + 1, host |-> l.host, rtt |-> l.rtt, geo |-> g])
        BY <1>2, <2>3, Zenon DEF ReadHop
      <3>2. /\ Len(hops') = Len(hops) + 1
            /\ hops'[Len(hops) + 1].num = seen + 1
            /\ \A k \in 1..Len(hops) : hops'[k] = hops[k]
        BY <1>0, <3>1
      <3>3. pc' = "read"
        BY <1>2, <2>1, <2>3 DEF ReadHop
      <3>4. ASSUME NEW k \in 1..Len(hops') PROVE hops'[k].num = heard'[k]
        <4>1. k \in 1..Len(hops) \/ k = Len(hops) + 1
          BY <1>0, <3>2
        <4>2. CASE k \in 1..Len(hops)
          BY <2>1, <2>2, <3>2, <4>2, Zenon DEF IInv, RouteInv
        <4>3. CASE k = Len(hops) + 1
          BY <2>1, <2>2, <3>2, <4>3, Zenon
        <4> QED BY <4>1, <4>2, <4>3, Zenon
      <3> QED
        BY <1>0, <1>1, <2>1, <2>2, <2>3, <3>2, <3>3, <3>4 DEF RouteInv
    <2>4. CASE ~(Len(hops) < cap)
      <3>1. hops' = hops /\ pc' \in {"failed", "locate", "report"}
        BY <1>2, <2>4 DEF ReadHop, AfterRead
      <3>2. Len(hops) = cap
        BY <1>0, <2>4 DEF IInv, RouteInv
      <3> QED
        BY <1>0, <1>1, <2>1, <2>2, <3>1, <3>2 DEF IInv, RouteInv
    <2> QED BY <2>3, <2>4
  <1>3. CASE Locate
    <2>1. Len(hops') = Len(hops) /\ \A k \in 1..Len(hops) : hops'[k].num = hops[k].num
      BY <1>3, LocateShape DEF IInv
    <2>2. heard' = heard /\ pc = "locate" /\ pc' = "while"
      BY <1>3 DEF Locate
    <2> QED
      BY <1>0, <1>1, <2>1, <2>2 DEF IInv, RouteInv
  <1>4. ASSUME UNCHANGED <<hops, heard>>, pc' # "read" \/ pc = "read" PROVE RouteInv'
    BY <1>0, <1>1, <1>4 DEF IInv, RouteInv
  <1>5. CASE ReadOther \/ ReadEof
    <2>1. UNCHANGED <<hops, heard>> /\ pc = "read"
      BY <1>5 DEF ReadOther, ReadEof
    <2> QED BY <1>4, <2>1
  <1>6. CASE ProbeTimeout \/ ProbeInterrupted \/ (\E r \in Rtts : ProbeAnswer(r))
    <2>1. UNCHANGED <<hops, heard, pc>>
      BY <1>6 DEF ProbeTimeout, ProbeInterrupted, ProbeAnswer
    <2> QED BY <1>4, <2>1
  <1>7. CASE While \/ CycleEnds \/ Pause \/ Interrupt \/ BmtrReport \/ BtracerouteSummary
    <2>1. UNCHANGED <<hops, heard>> /\ (pc' # "read" \/ pc = "read")
      BY <1>7 DEF While, CycleEnds, Pause, Interrupt, BmtrReport, BtracerouteSummary
    <2> QED BY <1>4, <2>1
  <1>8. CASE UNCHANGED vars
    <2>1. UNCHANGED <<hops, heard, pc>>
      BY <1>8 DEF vars
    <2> QED BY <1>4, <2>1
  <1> QED
    BY <1>2, <1>3, <1>5, <1>6, <1>7, <1>8 DEF Next, Step

(* One more probe of hop k.                                                *)
Counted(k) ==
    /\ nprobes' = [nprobes EXCEPT ![k] = @ + 1]
    /\ \A s \in Slots : nprobes'[s] = nsamp'[s] + ntimeout'[s]

(* A sample or a timeout is one more probe.                                *)
LEMMA AddCounts ==
    ASSUME IInv, NEW k \in Slots, hop_add_timeout(k) \/ \E r \in Rtts : hop_add_sample(k, r)
    PROVE  Counted(k)
  <1>1. /\ nprobes \in [Slots -> Nat] /\ ntimeout \in [Slots -> Nat] /\ nsamp \in [Slots -> Nat]
        /\ \A s \in Slots : nprobes[s] = nsamp[s] + ntimeout[s]
    BY DEF IInv, TypeOK, ProbesInv
  <1>2. CASE hop_add_timeout(k)
    BY <1>1, <1>2 DEF hop_add_timeout, Counted
  <1>3. CASE \E r \in Rtts : hop_add_sample(k, r)
    <2>1. /\ nprobes' = [nprobes EXCEPT ![k] = @ + 1] /\ nsamp' = [nsamp EXCEPT ![k] = @ + 1]
          /\ ntimeout' = ntimeout
      BY <1>3 DEF hop_add_sample
    <2> QED
      BY <1>1, <2>1 DEF Counted
  <1> QED BY <1>2, <1>3

(* The for loop of main probes hop i and goes on to the next.              *)
LEMMA ProbeStep ==
    ASSUME IInv, pc = "probe", pc' = "probe", i <= Len(hops), Counted(i), i' = i + 1,
           UNCHANGED <<hops, cycle, cl>>
    PROVE  ProbesInv'
  <1>1. /\ i \in 1..Len(hops) /\ Len(hops) \in Nat /\ cycle \in Nat
        /\ nprobes \in [Slots -> Nat] /\ 1..Len(hops) \subseteq Slots
    <2>1. /\ i \in Nat \ {0} /\ Len(hops) \in Nat /\ cycle \in Nat
          /\ nprobes \in [Slots -> Nat] /\ 1..Len(hops) \subseteq Slots
      BY InTable, Zenon DEF IInv, TypeOK, RouteInv
    <2>2. i \in 1..Len(hops)
      BY <2>1
    <2> QED BY <2>1, <2>2, Zenon
  <1>2. \A s \in 1..Len(hops) : nprobes[s] = IF s < i THEN cycle + 1 ELSE cycle
    BY DEF IInv, ProbesInv
  <1>3. \A s \in 1..Len(hops) : nprobes'[s] = IF s < i + 1 THEN cycle + 1 ELSE cycle
    BY <1>1, <1>2 DEF Counted
  <1>4. Bmtr'
    BY DEF IInv, ProbesInv, Bmtr
  <1>5. i' <= Len(hops') + 1
    BY <1>1
  <1> QED
    BY <1>3, <1>4, <1>5 DEF ProbesInv, Counted

(* Every step keeps the numbers of probes in step with the cycles.         *)
LEMMA ProbesNext ==
    ASSUME IInv, [Next]_vars
    PROVE  ProbesInv'
  <1> USE DEF route, stats
  <1>0. /\ TypeOK /\ Len(hops) \in Nat /\ cycle \in Nat /\ i \in Nat \ {0}
        /\ DOMAIN hops = 1..Len(hops) /\ 1..Len(hops) \subseteq Slots
    BY InTable, Zenon DEF IInv, TypeOK, RouteInv
  <1>1. CASE (\E l \in Lines : ReadHop(l)) \/ ReadOther \/ ReadEof
    <2>1. pc = "read" /\ UNCHANGED <<stats, cycle, g_stop, cl>>
      BY <1>1, Zenon DEF ReadHop, ReadOther, ReadEof
    <2>2. pc' \in {"read", "failed", "report"} \/ (pc' = "locate" /\ Bmtr)
      BY <1>1, <2>1, Zenon DEF ReadHop, ReadOther, ReadEof, AfterRead
    <2>3. cycle' = 0 /\ ~g_stop' /\ \A s \in Slots : nprobes'[s] = 0
      BY <2>1 DEF IInv, ProbesInv
    <2>4. pc' = "report" => ~Bmtr
      BY <1>1, <2>1, Zenon DEF ReadHop, ReadOther, ReadEof, AfterRead
    <2>5. \A s \in Slots : nprobes'[s] = nsamp'[s] + ntimeout'[s]
      BY <2>1 DEF IInv, ProbesInv
    <2>6. Bmtr' = Bmtr
      BY <2>1 DEF Bmtr
    <2> QED
      BY <2>2, <2>3, <2>4, <2>5, <2>6 DEF ProbesInv
  <1>2. CASE Locate
    <2>1. pc = "locate" /\ pc' = "while" /\ UNCHANGED <<stats, cycle, g_stop, cl, i>>
      BY <1>2 DEF Locate
    <2>2. 1..Len(hops') \subseteq Slots
      BY <1>0, <1>2, LocateShape
    <2>3. Bmtr' /\ cycle' = 0 /\ \A s \in Slots : nprobes'[s] = 0
      BY <2>1 DEF IInv, ProbesInv, Bmtr
    <2>4. \A s \in Slots : nprobes'[s] = nsamp'[s] + ntimeout'[s]
      BY <2>1 DEF IInv, ProbesInv
    <2> QED
      BY <2>1, <2>2, <2>3, <2>4 DEF ProbesInv
  <1>3. CASE While
    <2>1. pc = "while" /\ UNCHANGED <<hops, stats, cycle, g_stop, cl>>
      BY <1>3 DEF While
    <2>2. Bmtr /\ Bmtr' = Bmtr
      BY <2>1 DEF IInv, ProbesInv, Bmtr
    <2>3. \/ ~g_stop /\ pc' = "probe" /\ i' = 1
          \/ pc' = "report" /\ i' = i
      BY <1>3 DEF While
    <2>4. CASE ~g_stop /\ pc' = "probe" /\ i' = 1
      <3>1. \A s \in 1..Len(hops) : nprobes[s] = cycle
        BY <2>1, <2>2, <2>4 DEF IInv, ProbesInv
      <3>2. \A s \in 1..Len(hops') : nprobes'[s] = IF s < i' THEN cycle' + 1 ELSE cycle'
        BY <1>0, <2>1, <2>4, <3>1
      <3>3. i' <= Len(hops') + 1
        BY <1>0, <2>1, <2>4
      <3> QED
        BY <2>1, <2>2, <2>4, <3>2, <3>3 DEF IInv, ProbesInv
    <2>5. CASE pc' = "report" /\ i' = i
      BY <2>1, <2>2, <2>5 DEF IInv, ProbesInv
    <2> QED BY <2>3, <2>4, <2>5
  <1>4. CASE ProbeTimeout \/ ProbeInterrupted \/ (\E r \in Rtts : ProbeAnswer(r))
    <2>1. /\ pc = "probe" /\ pc' = "probe" /\ i <= Len(hops) /\ i' = i + 1
          /\ UNCHANGED <<hops, cycle, cl>>
      BY <1>4 DEF ProbeTimeout, ProbeInterrupted, ProbeAnswer, NextProbe
    <2>2. hop_add_timeout(i) \/ \E r \in Rtts : hop_add_sample(i, r)
      BY <1>4 DEF ProbeTimeout, ProbeInterrupted, ProbeAnswer
    <2>3. i \in Slots
      <3>1. i \in 1..Len(hops)
        BY <1>0, <2>1
      <3> QED BY <1>0, <3>1
    <2>4. Counted(i)
      BY <2>2, <2>3, AddCounts
    <2> QED
      BY <2>1, <2>4, ProbeStep
  <1>5. CASE CycleEnds
    <2>1. /\ pc = "probe" /\ pc' = "drawn" /\ (i > Len(hops) \/ g_stop)
          /\ cycle' = cycle + 1 /\ UNCHANGED <<hops, stats, i, g_stop, cl>>
      BY <1>5 DEF CycleEnds
    <2>2. /\ i <= Len(hops) + 1
          /\ \A s \in 1..Len(hops) : nprobes[s] = IF s < i THEN cycle + 1 ELSE cycle
      BY <2>1 DEF IInv, ProbesInv
    <2>3. Bmtr' /\ \A s \in Slots : nprobes'[s] = nsamp'[s] + ntimeout'[s]
      BY <2>1 DEF IInv, ProbesInv, Bmtr
    <2>4. \A s \in 1..Len(hops') : nprobes'[s] = IF s < i' THEN cycle' ELSE cycle' - 1
      BY <1>0, <2>1, <2>2
    <2>5. CASE i > Len(hops)
      <3>1. \A s \in 1..Len(hops') : nprobes'[s] = cycle'
        BY <1>0, <2>1, <2>4, <2>5
      <3> QED
        BY <2>1, <2>3, <3>1 DEF ProbesInv
    <2>6. CASE g_stop
      BY <2>1, <2>3, <2>4, <2>6 DEF ProbesInv
    <2> QED BY <2>1, <2>5, <2>6
  <1>6. CASE Pause
    BY <1>6 DEF Pause, IInv, ProbesInv, Bmtr
  <1>7. CASE Interrupt
    <2>1. UNCHANGED <<cl, hops, stats, i, cycle>>
      BY <1>7 DEF Interrupt
    <2>2. \/ pc \in {"read", "locate"} /\ pc' = "killed" /\ g_stop' = g_stop
          \/ pc \in {"while", "probe", "drawn"} /\ pc' = pc /\ g_stop' = TRUE
      BY <1>7 DEF Interrupt
    <2> QED
      BY <2>1, <2>2 DEF IInv, ProbesInv, Bmtr
  <1>8. CASE BmtrReport \/ BtracerouteSummary
    <2>1. pc = "report" /\ pc' = "done" /\ UNCHANGED <<cl, hops, stats, i, cycle, g_stop>>
      BY <1>8 DEF BmtrReport, BtracerouteSummary
    <2> QED
      BY <2>1 DEF IInv, ProbesInv, Bmtr
  <1>9. CASE UNCHANGED vars
    BY <1>9 DEF vars, IInv, ProbesInv, Bmtr
  <1> QED
    BY <1>1, <1>2, <1>3, <1>4, <1>5, <1>6, <1>7, <1>8, <1>9 DEF Next, Step

-----------------------------------------------------------------------------
(* IInv is an inductive invariant of both tools.                           *)
LEMMA Inductive == Spec => []IInv
  <1>1. Init => IInv
    <2> SUFFICES ASSUME Init PROVE IInv
      OBVIOUS
    <2>1. TypeOK
      <3>1. NoAgg \in Agg /\ Len(NoAgg.samples) <= MAX_SAMPLES
        BY HopToolAssumption DEF NoAgg, Agg
      <3>2. agg \in [Slots -> Agg] /\ \A s \in Slots : Len(agg[s].samples) <= MAX_SAMPLES
        BY <3>1 DEF Init
      <3>3. hops \in Seq(Hop) /\ heard \in Seq(Nat) /\ answers \in [Slots -> Seq(Rtts)]
        BY DEF Init
      <3>4. /\ pc \in Places /\ cl \in Commandlines /\ over \in BOOLEAN /\ g_stop \in BOOLEAN
            /\ screen \subseteq Rows /\ out \subseteq {"distance", "efficiency", "path"}
        BY Zenon DEF Init, Places
      <3>5. seen \in Nat /\ other \in Nat /\ i \in Nat \ {0} /\ cycle \in Nat
        BY DEF Init
      <3>6. nprobes \in [Slots -> Nat] /\ ntimeout \in [Slots -> Nat] /\ nsamp \in [Slots -> Nat]
        BY DEF Init
      <3> QED
        BY <3>2, <3>3, <3>4, <3>5, <3>6 DEF TypeOK
    <2>2. RouteInv
      BY <2>1, CapInTable DEF Init, RouteInv, TypeOK
    <2>3. ProbesInv
      BY DEF Init, ProbesInv
    <2> QED BY <2>1, <2>2, <2>3 DEF IInv
  <1>2. IInv /\ [Next]_vars => IInv'
    BY TypeNext, RouteNext, ProbesNext DEF IInv
  <1> QED
    BY <1>1, <1>2, PTL DEF Spec

(* The variables keep their types, and hop_add_sample() never writes past  *)
(* samples[], however long bmtr runs.                                      *)
THEOREM TypeCorrect == Spec => []TypeOK
  BY Inductive, PTL DEF IInv

(* Neither tool reads, locates or probes past hops[], whatever -m is and   *)
(* however many lines traceroute prints.                                   *)
THEOREM StaysInTable == Spec => []TableBounded
  <1>1. IInv => TableBounded
    <2> SUFFICES ASSUME IInv PROVE TableBounded
      OBVIOUS
    <2>1. cap \in 1..MAX_HOPS /\ MAX_HOPS \in Nat /\ Len(hops) \in Nat /\ Len(hops) <= cap
      BY CapInTable, HopToolAssumption DEF IInv, TypeOK, RouteInv
    <2> QED
      BY <2>1 DEF IInv, ProbesInv, TableBounded
  <1> QED
    BY <1>1, Inductive, PTL

(* The table is the beginning of the route: discover_hops() and the loop   *)
(* of btraceroute lose no hop and list none twice before it is full.       *)
THEOREM TableIsRoute == Spec => []RouteKept
  <1>1. IInv => RouteKept
    <2> SUFFICES ASSUME IInv PROVE RouteKept
      OBVIOUS
    <2>1. DOMAIN hops = 1..Len(hops)
      BY InTable DEF IInv, RouteInv
    <2> QED
      BY <2>1 DEF IInv, RouteInv, RouteKept
  <1> QED
    BY <1>1, Inductive, PTL

(* bmtr's loss rates can be compared: the hops' numbers of probes differ   *)
(* by at most the one cycle that SIGINT cut short.                         *)
THEOREM CyclesCompare == Spec => []CyclesAgree
  <1>1. IInv => CyclesAgree
    <2> SUFFICES ASSUME IInv, NEW k \in DOMAIN hops
                 PROVE  /\ pc \in {"while", "drawn", "report", "done"} /\ Bmtr =>
                              nprobes[k] \in {cycle} \cup (IF g_stop THEN {cycle - 1} ELSE {})
                        /\ nprobes[k] = nsamp[k] + ntimeout[k]
                        /\ \A j \in DOMAIN hops : j < k => nprobes[k] \in {nprobes[j] - 1, nprobes[j]}
      BY DEF CyclesAgree
    <2>1. /\ DOMAIN hops = 1..Len(hops) /\ DOMAIN hops \subseteq Slots /\ Len(hops) \in Nat
          /\ nprobes \in [Slots -> Nat] /\ cycle \in Nat /\ i \in Nat
      BY InTable, Zenon DEF IInv, RouteInv, TypeOK
    <2>2. pc \in {"while", "drawn", "report", "done"} /\ Bmtr =>
             nprobes[k] \in {cycle} \cup (IF g_stop THEN {cycle - 1} ELSE {})
      BY <2>1 DEF IInv, ProbesInv
    <2>3. nprobes[k] = nsamp[k] + ntimeout[k]
      BY <2>1 DEF IInv, ProbesInv
    <2>4. ASSUME NEW j \in DOMAIN hops, j < k PROVE nprobes[k] \in {nprobes[j] - 1, nprobes[j]}
      <3>1. CASE pc \in {"read", "locate", "failed", "killed"} \/ ~Bmtr
        BY <2>1, <3>1 DEF IInv, ProbesInv
      <3>2. CASE pc = "probe"
        BY <2>1, <2>4, <3>2 DEF IInv, ProbesInv
      <3>3. CASE pc \in {"while", "drawn", "report", "done"} /\ Bmtr
        BY <2>1, <2>4, <3>3 DEF IInv, ProbesInv
      <3> QED
        BY <3>1, <3>2, <3>3 DEF IInv, TypeOK, Places
    <2> QED BY <2>2, <2>3, <2>4
  <1> QED
    BY <1>1, Inductive, PTL

-----------------------------------------------------------------------------
(* bmtr's statistics: the sums, extremes and ring that hop_add_sample()    *)
(* updates sample by sample are those of the whole list of answers.        *)

(* g is the record, and n the number of samples, of the answers a.         *)
Extremes(a, g) ==
    /\ \A j \in 1..Len(a) : g.smin <= a[j] /\ a[j] <= g.smax
    /\ Len(a) > 0 => (\E j \in 1..Len(a) : a[j] = g.smin) /\ (\E j \in 1..Len(a) : a[j] = g.smax)

Sums(n, g) ==
    /\ n = 0 => g.sum = 0 /\ g.sumsq = 0
    /\ n > 0 => /\ n * g.smin <= g.sum /\ g.sum <= n * g.smax
                /\ n * g.sumsq >= g.sum * g.sum

Window(a, kept) ==
    /\ Len(kept) = IF Len(a) < MAX_SAMPLES THEN Len(a) ELSE MAX_SAMPLES
    /\ \A j \in 1..Len(a) :
          j > Len(a) - MAX_SAMPLES => kept[((j - 1) % MAX_SAMPLES) + 1] = a[j]

StatsOf(a, n, g) == n = Len(a) /\ Extremes(a, g) /\ Sums(n, g) /\ Window(a, g.samples)

StatsInv == \A s \in Slots : StatsOf(answers[s], nsamp[s], agg[s])

(* One sample more: the sum stays between n times the extremes ...         *)
LEMMA SumBelow ==
    ASSUME NEW n \in Nat, NEW lo \in Nat, NEW s \in Nat, NEW r \in Nat, n * lo <= s
    PROVE  /\ r < lo => (n + 1) * r <= s + r
           /\ r >= lo => (n + 1) * lo <= s + r
  <1>1. (n + 1) * r = n * r + r /\ (n + 1) * lo = n * lo + lo
    BY Z3
  <1>2. r < lo => n * r <= n * lo
    BY Z3
  <1> QED BY <1>1, <1>2, Z3

LEMMA SumAbove ==
    ASSUME NEW n \in Nat, NEW hi \in Nat, NEW s \in Nat, NEW r \in Nat, s <= n * hi
    PROVE  /\ r > hi => s + r <= (n + 1) * r
           /\ r <= hi => s + r <= (n + 1) * hi
  <1>1. (n + 1) * r = n * r + r /\ (n + 1) * hi = n * hi + hi
    BY Z3
  <1>2. r > hi => n * hi <= n * r
    BY Z3
  <1> QED BY <1>1, <1>2, Z3

(* ... and n times the sum of squares at or above the square of the sum,   *)
(* so that the variance bmtr takes the root of is never negative.          *)
LEMMA SpreadGrows ==
    ASSUME NEW n \in Nat, n > 0, NEW s \in Nat, NEW q \in Nat, NEW r \in Nat, n * q >= s * s
    PROVE  (n + 1) * (q + r * r) >= (s + r) * (s + r)
  <1> DEFINE d == s - n * r
  <1>1. d \in Int /\ d * d >= 0
    BY Z3
  <1>2. d * d = s * s - 2 * (n * (s * r)) + n * (n * (r * r))
    BY Z3
  <1>3. n * (q + n * (r * r)) = n * q + n * (n * (r * r))
    BY Z3
  <1>4. n * (2 * (s * r)) = 2 * (n * (s * r))
    BY Z3
  <1> HIDE DEF d
  <1>5. n * (q + n * (r * r)) >= n * (2 * (s * r))
    BY <1>1, <1>2, <1>3, <1>4, Z3
  <1>6. ASSUME NEW x \in Int, NEW y \in Int, n * x >= n * y PROVE x >= y
    BY <1>6, Z3
  <1>7. q + n * (r * r) >= 2 * (s * r)
    BY <1>5, <1>6, Z3
  <1>8. (n + 1) * (q + r * r) = n * q + q + n * (r * r) + r * r
    BY Z3
  <1>9. (s + r) * (s + r) = s * s + 2 * (s * r) + r * r
    BY Z3
  <1> QED BY <1>7, <1>8, <1>9, Z3

(* Places counted from zero, counted from one.                             *)
LEMMA Shifted ==
    ASSUME NEW m \in Nat, NEW x \in 0..(m - 1), NEW y \in 0..(m - 1), x # y
    PROVE  x + 1 \in 1..m /\ x + 1 # y + 1
  OBVIOUS

(* Two numbers less than m apart have different places in a ring of m.     *)
LEMMA OtherPlace ==
    ASSUME NEW m \in Nat, m > 0, NEW x \in Nat, NEW y \in Nat, x < y, y - x < m
    PROVE  x % m # y % m
  <1> SUFFICES ASSUME x % m = y % m PROVE FALSE
    OBVIOUS
  <1> DEFINE p == x \div m
             q == y \div m
  <1>1. p \in Int /\ x = m * p + (x % m) /\ x % m \in Int
    BY Z3
  <1>2. q \in Int /\ y = m * q + (y % m)
    BY Z3
  <1> HIDE DEF p, q
  <1>3. ASSUME NEW t \in Int, t <= 0 PROVE m * t <= 0
    BY <1>3, Z3
  <1>4. ASSUME NEW t \in Int, t >= 1 PROVE m * t >= m
    BY <1>4, Z3
  <1>5. q - p \in Int /\ y - x = m * (q - p)
    BY <1>1, <1>2, Z3
  <1>6. q - p <= 0 \/ q - p >= 1
    BY <1>5, Z3
  <1>7. CASE q - p <= 0
    BY <1>3, <1>5, <1>7
  <1>8. CASE q - p >= 1
    BY <1>4, <1>5, <1>8
  <1> QED BY <1>6, <1>7, <1>8

(* The answers with one more.                                              *)
LEMMA OneMore ==
    ASSUME NEW a \in Seq(Rtts), NEW r \in Rtts
    PROVE  LET b == Append(a, r) IN
           /\ Len(a) \in Nat /\ Len(b) = Len(a) + 1 /\ b[Len(a) + 1] = r
           /\ \A j \in 1..Len(a) : b[j] = a[j] /\ a[j] \in Nat
           /\ \A j \in 1..Len(b) : j \in 1..Len(a) \/ j = Len(a) + 1
           /\ 1..Len(a) \subseteq 1..Len(b) /\ Len(a) + 1 \in 1..Len(b)
           /\ r \in Nat
  <1>1. Rtts \subseteq Nat
    BY HopToolAssumption
  <1>2. Len(a) \in Nat /\ \A j \in 1..Len(a) : a[j] \in Rtts
    OBVIOUS
  <1>3. /\ Len(Append(a, r)) = Len(a) + 1 /\ Append(a, r)[Len(a) + 1] = r
        /\ \A j \in 1..Len(a) : Append(a, r)[j] = a[j]
    OBVIOUS
  <1> DEFINE b == Append(a, r)
  <1> HIDE DEF b
  <1>4. \A j \in 1..(Len(a) + 1) : j \in 1..Len(a) \/ j = Len(a) + 1
    BY <1>2
  <1>5. 1..Len(a) \subseteq 1..(Len(a) + 1) /\ Len(a) + 1 \in 1..(Len(a) + 1)
    BY <1>2
  <1>6. r \in Nat /\ \A j \in 1..Len(a) : a[j] \in Nat
    BY <1>1, <1>2, Zenon
  <1>7. Len(b) = Len(a) + 1 /\ b[Len(a) + 1] = r /\ \A j \in 1..Len(a) : b[j] = a[j]
    BY <1>3 DEF b
  <1> QED BY <1>2, <1>4, <1>5, <1>6, <1>7 DEF b

LEMMA ExtremesNext ==
    ASSUME NEW a \in Seq(Rtts), NEW r \in Rtts, NEW g, g.smin \in Nat, g.smax \in Nat, Extremes(a, g),
           NEW h, h.smin = IF Len(a) = 0 \/ r < g.smin THEN r ELSE g.smin,
                  h.smax = IF Len(a) = 0 \/ r > g.smax THEN r ELSE g.smax
    PROVE  Extremes(Append(a, r), h)
  <1> DEFINE b == Append(a, r)
  <1>1. /\ Len(a) \in Nat /\ Len(b) = Len(a) + 1 /\ b[Len(a) + 1] = r
        /\ \A j \in 1..Len(a) : b[j] = a[j] /\ a[j] \in Nat
        /\ \A j \in 1..Len(b) : j \in 1..Len(a) \/ j = Len(a) + 1
        /\ 1..Len(a) \subseteq 1..Len(b) /\ Len(a) + 1 \in 1..Len(b)
        /\ r \in Nat
    BY OneMore
  <1> HIDE DEF b
  <1>2. /\ h.smin \in Nat /\ h.smin <= r /\ (Len(a) > 0 => h.smin <= g.smin)
        /\ h.smax \in Nat /\ r <= h.smax /\ (Len(a) > 0 => g.smax <= h.smax)
    BY <1>1
  <1>3. ASSUME NEW j \in 1..Len(b) PROVE h.smin <= b[j] /\ b[j] <= h.smax
    <2>1. CASE j = Len(a) + 1
      BY <1>1, <1>2, <2>1
    <2>2. CASE j \in 1..Len(a)
      <3>1. Len(a) > 0 /\ b[j] = a[j] /\ a[j] \in Nat /\ g.smin <= a[j] /\ a[j] <= g.smax
        BY <1>1, <2>2 DEF Extremes
      <3> QED BY <1>2, <3>1
    <2> QED BY <1>1, <2>1, <2>2
  <1>4. \E j \in 1..Len(b) : b[j] = h.smin
    <2>1. CASE h.smin = r
      BY <1>1, <2>1
    <2>2. CASE h.smin = g.smin /\ Len(a) > 0
      <3>1. \E j \in 1..Len(a) : a[j] = g.smin
        BY <2>2 DEF Extremes
      <3> QED BY <1>1, <2>2, <3>1
    <2> QED BY <1>1, <2>1, <2>2
  <1>5. \E j \in 1..Len(b) : b[j] = h.smax
    <2>1. CASE h.smax = r
      BY <1>1, <2>1
    <2>2. CASE h.smax = g.smax /\ Len(a) > 0
      <3>1. \E j \in 1..Len(a) : a[j] = g.smax
        BY <2>2 DEF Extremes
      <3> QED BY <1>1, <2>2, <3>1
    <2> QED BY <1>1, <2>1, <2>2
  <1> QED BY <1>3, <1>4, <1>5, Zenon DEF Extremes, b

LEMMA SumsNext ==
    ASSUME NEW n \in Nat, NEW r \in Nat, NEW g, Sums(n, g),
           g.smin \in Nat, g.smax \in Nat, g.sum \in Nat, g.sumsq \in Nat,
           NEW h, h.smin = IF n = 0 \/ r < g.smin THEN r ELSE g.smin,
                  h.smax = IF n = 0 \/ r > g.smax THEN r ELSE g.smax,
                  h.sum = g.sum + r, h.sumsq = g.sumsq + r * r
    PROVE  Sums(n + 1, h)
  <1>1. n + 1 # 0 /\ n + 1 > 0
    OBVIOUS
  <1>2. CASE n = 0
    <2>1. g.sum = 0 /\ g.sumsq = 0
      BY <1>2 DEF Sums
    <2>2. h.smin = r /\ h.smax = r
      BY <1>2
    <2>3. h.sum = r /\ h.sumsq = r * r
      BY <2>1
    <2>4. (0 + 1) * r = r /\ (0 + 1) * (r * r) >= r * r
      OBVIOUS
    <2>5. (n + 1) * h.smin <= h.sum /\ h.sum <= (n + 1) * h.smax
      BY <1>2, <2>2, <2>3, <2>4
    <2>6. (n + 1) * h.sumsq >= h.sum * h.sum
      BY <1>2, <2>3, <2>4
    <2> QED BY <1>1, <2>5, <2>6 DEF Sums
  <1>3. CASE n > 0
    <2>1. /\ n * g.smin <= g.sum /\ g.sum <= n * g.smax
          /\ n * g.sumsq >= g.sum * g.sum
      BY <1>3 DEF Sums
    <2>2. (n + 1) * h.smin <= h.sum
      <3>1. /\ r < g.smin => (n + 1) * r <= g.sum + r
            /\ r >= g.smin => (n + 1) * g.smin <= g.sum + r
        BY <2>1, SumBelow, Zenon
      <3>2. (r < g.smin /\ h.smin = r) \/ (r >= g.smin /\ h.smin = g.smin)
        BY <1>3
      <3> QED BY <3>1, <3>2
    <2>3. h.sum <= (n + 1) * h.smax
      <3>1. /\ r > g.smax => g.sum + r <= (n + 1) * r
            /\ r <= g.smax => g.sum + r <= (n + 1) * g.smax
        BY <2>1, SumAbove, Zenon
      <3>2. (r > g.smax /\ h.smax = r) \/ (r <= g.smax /\ h.smax = g.smax)
        BY <1>3
      <3> QED BY <3>1, <3>2
    <2>4. (n + 1) * h.sumsq >= h.sum * h.sum
      <3>1. (n + 1) * (g.sumsq + r * r) >= (g.sum + r) * (g.sum + r)
        BY <1>3, <2>1, SpreadGrows, Zenon
      <3> QED BY <3>1, Zenon
    <2> QED BY <1>1, <2>2, <2>3, <2>4 DEF Sums
  <1> QED BY <1>2, <1>3

(* A remainder, of a number below the ring's size and of any number.       *)
LEMMA Place ==
    ASSUME NEW m \in Nat, m > 0, NEW x \in Nat
    PROVE  x % m \in 0..(m - 1) /\ (x < m => x % m = x)
  BY Z3

LEMMA WindowNext ==
    ASSUME NEW a \in Seq(Rtts), NEW r \in Rtts, NEW kept \in Seq(Rtts), Window(a, kept)
    PROVE  LET idx == (Len(a) % MAX_SAMPLES) + 1 IN
           Window(Append(a, r), IF idx > Len(kept) THEN Append(kept, r) ELSE [kept EXCEPT ![idx] = r])
  <1> DEFINE b == Append(a, r)
             n == Len(a)
             M == MAX_SAMPLES
             idx == (n % M) + 1
             next == IF idx > Len(kept) THEN Append(kept, r) ELSE [kept EXCEPT ![idx] = r]
  <1>1. /\ n \in Nat /\ Len(b) = n + 1 /\ b[n + 1] = r
        /\ \A j \in 1..n : b[j] = a[j] /\ a[j] \in Nat
        /\ \A j \in 1..Len(b) : j \in 1..n \/ j = n + 1
    BY OneMore
  <1>2. M \in Nat /\ M > 0
    BY HopToolAssumption
  <1>3. n % M \in 0..(M - 1) /\ (n < M => n % M = n)
    BY <1>1, <1>2, Place, Zenon
  <1>4. /\ Len(kept) = IF n < M THEN n ELSE M
        /\ \A j \in 1..n : j > n - M => kept[((j - 1) % M) + 1] = a[j]
    BY DEF Window
  <1> HIDE DEF b, n, M
  <1>5. ASSUME NEW j \in 1..n
        PROVE  /\ (j - 1) % M \in 0..(M - 1) /\ (j - 1 < M => (j - 1) % M = j - 1)
               /\ j > n + 1 - M => (j - 1) % M # n % M
    <2>1. j - 1 \in Nat /\ j - 1 < n
      BY <1>1
    <2>2. (j - 1) % M \in 0..(M - 1) /\ (j - 1 < M => (j - 1) % M = j - 1)
      BY <1>2, <2>1, Place, Zenon
    <2>3. ASSUME j > n + 1 - M PROVE (j - 1) % M # n % M
      <3>1. n - (j - 1) < M
        BY <1>1, <1>2, <2>3
      <3> QED BY <1>1, <1>2, <2>1, <3>1, OtherPlace, Zenon
    <2> QED BY <2>2, <2>3
  <1>6. ASSUME n < M PROVE Window(b, next)
    <2>1. Len(kept) = n /\ idx = n + 1 /\ next = Append(kept, r)
      BY <1>1, <1>2, <1>3, <1>4, <1>6
    <2>2. Len(next) = n + 1 /\ next[n + 1] = r /\ \A j \in 1..n : next[j] = kept[j]
      BY <2>1
    <2>3. Len(next) = IF n + 1 < M THEN n + 1 ELSE M
      BY <1>1, <1>2, <1>6, <2>2
    <2> HIDE DEF next
    <2>4. ASSUME NEW j \in 1..Len(b) PROVE next[((j - 1) % M) + 1] = b[j]
      <3>1. CASE j = n + 1
        <4>1. ((j - 1) % M) + 1 = n + 1
          BY <1>1, <1>3, <1>6, <3>1
        <4> QED BY <1>1, <2>2, <3>1, <4>1
      <3>2. CASE j \in 1..n
        <4>1. ((j - 1) % M) + 1 = j /\ j > n - M
          BY <1>1, <1>2, <1>5, <1>6, <3>2
        <4>2. kept[j] = a[j]
          BY <1>4, <3>2, <4>1
        <4> QED BY <1>1, <2>2, <3>2, <4>1, <4>2
      <3> QED BY <1>1, <3>1, <3>2
    <2> QED BY <1>1, <2>3, <2>4 DEF Window, M
  <1>7. ASSUME ~(n < M) PROVE Window(b, next)
    <2>1. Len(kept) = M /\ idx \in 1..M
      BY <1>1, <1>2, <1>3, <1>4, <1>7
    <2>2. next = [kept EXCEPT ![idx] = r]
      BY <1>2, <2>1
    <2>3. Len(next) = M /\ next[idx] = r /\ \A k \in 1..M : k # idx => next[k] = kept[k]
      BY <1>2, <2>1, <2>2
    <2> HIDE DEF next
    <2>4. ASSUME NEW j \in 1..Len(b), j > Len(b) - M PROVE next[((j - 1) % M) + 1] = b[j]
      <3>0. j > n + 1 - M
        BY <1>1, <1>2, <2>4
      <3>1. CASE j = n + 1
        <4>1. ((j - 1) % M) + 1 = idx
          BY <1>1, <3>1
        <4> QED BY <1>1, <2>3, <3>1, <4>1
      <3>2. CASE j \in 1..n
        <4>1. (j - 1) % M \in 0..(M - 1) /\ (j - 1) % M # n % M
          BY <1>5, <3>0, <3>2
        <4>2. ((j - 1) % M) + 1 \in 1..M /\ ((j - 1) % M) + 1 # idx
          BY <1>2, <1>3, <4>1, Shifted, Zenon
        <4>3. j > n - M
          BY <1>1, <1>2, <3>0, <3>2
        <4>4. kept[((j - 1) % M) + 1] = a[j]
          BY <1>4, <3>2, <4>3
        <4>5. next[((j - 1) % M) + 1] = kept[((j - 1) % M) + 1]
          BY <2>3, <4>2, Zenon
        <4>6. b[j] = a[j]
          BY <1>1, <3>2
        <4> QED BY <4>4, <4>5, <4>6
      <3> QED BY <1>1, <3>1, <3>2
    <2>5. Len(next) = IF n + 1 < M THEN n + 1 ELSE M
      BY <1>1, <1>2, <1>7, <2>3
    <2>6. Len(next) = IF Len(b) < M THEN Len(b) ELSE M
      BY <1>1, <2>5
    <2> QED BY <2>4, <2>6 DEF Window, M
  <1>8. Window(b, next)
    BY <1>6, <1>7
  <1> QED BY <1>8 DEF b, n, M

(* hop_add_sample() keeps the statistics those of all answers.             *)
LEMMA SampleExact ==
    ASSUME TypeOK, StatsInv, NEW k \in Slots, NEW r \in Rtts
    PROVE  StatsOf(Append(answers[k], r), nsamp[k] + 1, Sampled(k, r))
  <1> DEFINE a == answers[k]
             n == nsamp[k]
             g == agg[k]
             h == Sampled(k, r)
  <1>1. a \in Seq(Rtts) /\ n \in Nat /\ g \in Agg /\ r \in Nat
    BY HopToolAssumption DEF TypeOK
  <1>2. /\ g.sum \in Nat /\ g.sumsq \in Nat /\ g.smin \in Nat /\ g.smax \in Nat
        /\ g.samples \in Seq(Rtts)
    BY <1>1, Zenon DEF Agg
  <1>3. n = Len(a) /\ Extremes(a, g) /\ Sums(n, g) /\ Window(a, g.samples)
    BY DEF StatsInv, StatsOf
  <1>4. /\ h.sum = g.sum + r /\ h.sumsq = g.sumsq + r * r
        /\ h.smin = IF n = 0 \/ r < g.smin THEN r ELSE g.smin
        /\ h.smax = IF n = 0 \/ r > g.smax THEN r ELSE g.smax
        /\ h.samples = IF (n % MAX_SAMPLES) + 1 > Len(g.samples) THEN Append(g.samples, r)
                       ELSE [g.samples EXCEPT ![(n % MAX_SAMPLES) + 1] = r]
    BY DEF Sampled
  <1> HIDE DEF a, n, g, h
  <1>5. Extremes(Append(a, r), h)
    BY <1>1, <1>2, <1>3, <1>4, ExtremesNext
  <1>6. Sums(n + 1, h)
    <2>1. g.sum \in Nat /\ g.sumsq \in Nat /\ g.smin \in Nat /\ g.smax \in Nat /\ Sums(n, g)
      BY <1>2, <1>3, Zenon
    <2>2. /\ h.sum = g.sum + r /\ h.sumsq = g.sumsq + r * r
          /\ h.smin = IF n = 0 \/ r < g.smin THEN r ELSE g.smin
          /\ h.smax = IF n = 0 \/ r > g.smax THEN r ELSE g.smax
      BY <1>4, Zenon
    <2> QED BY <1>1, <2>1, <2>2, SumsNext, Zenon
  <1>7. Window(Append(a, r), h.samples)
    <2> DEFINE next == IF (Len(a) % MAX_SAMPLES) + 1 > Len(g.samples) THEN Append(g.samples, r)
                       ELSE [g.samples EXCEPT ![(Len(a) % MAX_SAMPLES) + 1] = r]
    <2>1. h.samples = next
      BY <1>3, <1>4
    <2>2. Window(Append(a, r), next)
      BY <1>1, <1>2, <1>3, WindowNext, Zenon
    <2> QED BY <2>1, <2>2
  <1>8. Len(Append(a, r)) = n + 1
    BY <1>1, <1>3
  <1>9. StatsOf(Append(a, r), n + 1, h)
    BY <1>5, <1>6, <1>7, <1>8 DEF StatsOf
  <1> QED BY <1>9 DEF a, n, h

LEMMA StatsKept ==
    ASSUME StatsInv, UNCHANGED <<nsamp, agg, answers>>
    PROVE  StatsInv'
  BY DEF StatsInv, StatsOf, Extremes, Sums, Window

LEMMA StatsNext ==
    ASSUME IInv, StatsInv, [Next]_vars
    PROVE  StatsInv'
  <1> USE DEF stats
  <1>1. CASE UNCHANGED <<nsamp, agg, answers>>
    BY <1>1, StatsKept
  <1>2. ASSUME NEW r \in Rtts, ProbeAnswer(r) PROVE StatsInv'
    <2>1. i \in Slots /\ TypeOK
      <3>1. TypeOK /\ Len(hops) <= cap
        BY DEF IInv, RouteInv
      <3>2. i \in Nat \ {0} /\ i <= Len(hops)
        BY <1>2, <3>1 DEF ProbeAnswer, TypeOK
      <3>3. i \in DOMAIN hops
        BY <3>1, <3>2, InTable
      <3> QED BY <3>1, <3>3, InTable
    <2>2. /\ nsamp' = [nsamp EXCEPT ![i] = @ + 1] /\ agg' = [agg EXCEPT ![i] = Sampled(i, r)]
          /\ answers' = [answers EXCEPT ![i] = Append(@, r)]
      BY <1>2 DEF ProbeAnswer, hop_add_sample
    <2>3. StatsOf(Append(answers[i], r), nsamp[i] + 1, Sampled(i, r))
      BY <2>1, SampleExact
    <2>4. nsamp \in [Slots -> Nat] /\ agg \in [Slots -> Agg] /\ answers \in [Slots -> Seq(Rtts)]
      BY <2>1 DEF TypeOK
    <2>5. ASSUME NEW s \in Slots PROVE StatsOf(answers'[s], nsamp'[s], agg'[s])
      <3>1. CASE s = i
        <4>1. /\ answers'[s] = Append(answers[i], r) /\ nsamp'[s] = nsamp[i] + 1
              /\ agg'[s] = Sampled(i, r)
          BY <2>2, <2>4, <3>1
        <4> QED BY <2>3, <4>1
      <3>2. CASE s # i
        <4>1. answers'[s] = answers[s] /\ nsamp'[s] = nsamp[s] /\ agg'[s] = agg[s]
          BY <2>2, <2>4, <3>2
        <4> QED BY <4>1 DEF StatsInv
      <3> QED BY <3>1, <3>2
    <2> QED BY <2>5 DEF StatsInv
  <1>3. CASE ProbeTimeout \/ ProbeInterrupted
    BY <1>1, <1>3 DEF ProbeTimeout, ProbeInterrupted, hop_add_timeout
  <1>4. CASE (\E l \in Lines : ReadHop(l)) \/ ReadOther \/ ReadEof \/ Locate \/ While
    BY <1>1, <1>4, Zenon DEF ReadHop, ReadOther, ReadEof, Locate, While, route
  <1>5. CASE CycleEnds \/ Pause \/ Interrupt \/ BmtrReport \/ BtracerouteSummary
    BY <1>1, <1>5 DEF CycleEnds, Pause, Interrupt, BmtrReport, BtracerouteSummary
  <1>6. CASE UNCHANGED vars
    BY <1>1, <1>6 DEF vars
  <1> QED BY <1>2, <1>3, <1>4, <1>5, <1>6 DEF Next, Step

LEMMA StatsInit == Init => StatsInv
  <1> SUFFICES ASSUME Init, NEW s \in Slots PROVE StatsOf(answers[s], nsamp[s], agg[s])
    BY DEF StatsInv
  <1>1. answers[s] = <<>> /\ nsamp[s] = 0 /\ agg[s] = NoAgg
    BY DEF Init
  <1>2. Len(<<>>) = 0 /\ NoAgg.sum = 0 /\ NoAgg.sumsq = 0 /\ NoAgg.samples = <<>>
    BY DEF NoAgg
  <1>3. MAX_SAMPLES > 0
    BY HopToolAssumption
  <1>4. Extremes(<<>>, NoAgg) /\ Sums(0, NoAgg)
    BY <1>2 DEF Extremes, Sums
  <1>5. Window(<<>>, <<>>)
    BY <1>2, <1>3 DEF Window
  <1> QED BY <1>1, <1>2, <1>4, <1>5 DEF StatsOf

(* However many samples a hop of bmtr took: its least and greatest time    *)
(* are those of all its answers, the average lies between them, the        *)
(* variance is not negative, and samples[] holds the latest answers.       *)
THEOREM StatisticsExact == Spec => []StatsExact
  <1>1. IInv /\ StatsInv => StatsExact
    <2> SUFFICES ASSUME IInv, StatsInv, NEW k \in DOMAIN hops
                 PROVE  StatsOf(answers[k], nsamp[k], agg[k])
      BY DEF StatsExact, StatsOf, Extremes, Sums, Window
    <2>1. k \in Slots
      BY InTable DEF IInv, RouteInv
    <2> QED BY <2>1 DEF StatsInv
  <1> QED BY <1>1, Inductive, StatsInit, StatsNext, PTL DEF Spec

-----------------------------------------------------------------------------
(* What the screen holds between two drawings: nothing under --report, and *)
(* otherwise a row for every hop once a whole cycle is behind.             *)
ScreenInv ==
    /\ cl.report /\ pc # "done" => screen = {}
    /\ Bmtr /\ pc \in {"drawn", "while", "report", "done"} /\ screen # {}
          /\ cycle > (IF g_stop THEN 1 ELSE 0) =>
             {row.num : row \in screen} = {hops[k].num : k \in DOMAIN hops}

(* Once a whole cycle is behind, every hop was probed.                     *)
LEMMA AllProbed ==
    ASSUME IInv, Bmtr, pc \in {"while", "drawn", "report", "done"},
           cycle > (IF g_stop THEN 1 ELSE 0), NEW k \in DOMAIN hops
    PROVE  nprobes[k] \in Nat /\ nprobes[k] > 0
  <1>1. k \in 1..Len(hops) /\ k \in Slots
    BY InTable DEF IInv, RouteInv
  <1>2. cycle \in Nat /\ g_stop \in BOOLEAN /\ i \in Nat /\ nprobes[k] \in Nat
    BY <1>1 DEF IInv, TypeOK
  <1>3. \/ \A s \in 1..Len(hops) : nprobes[s] = cycle
        \/ /\ g_stop
           /\ \A s \in 1..Len(hops) : nprobes[s] = IF s < i THEN cycle ELSE cycle - 1
    BY DEF IInv, ProbesInv
  <1>4. nprobes[k] = cycle \/ (g_stop /\ nprobes[k] = cycle - 1)
    BY <1>1, <1>2, <1>3
  <1> QED BY <1>2, <1>4

(* A row carries the number of its hop.                                    *)
LEMMA RowNumbers ==
    /\ {row.num : row \in draw_report} = {hops[k].num : k \in DOMAIN hops}
    /\ (\A k \in DOMAIN hops : nprobes[k] > 0) => draw_table = draw_report
  <1>1. \A k : Row(k).num = hops[k].num
    BY DEF Row
  <1>2. {row.num : row \in draw_report} = {hops[k].num : k \in DOMAIN hops}
    BY <1>1 DEF draw_report
  <1>3. (\A k \in DOMAIN hops : nprobes[k] > 0) => draw_table = draw_report
    BY DEF draw_report, draw_table
  <1> QED BY <1>2, <1>3, Zenon

(* All of 100 percent lost is every probe lost and none answered.          *)
LEMMA AllLost ==
    ASSUME NEW t \in Nat, NEW p \in Nat, NEW a \in Nat, p > 0, p = a + t, (100 * t) \div p = 100
    PROVE  t > 0 /\ a = 0
  <1>1. 100 * t = p * ((100 * t) \div p) + ((100 * t) % p) /\ (100 * t) % p \in 0..(p - 1)
    BY Z3
  <1>2. t = p
    BY <1>1
  <1> QED BY <1>2

(* A step that draws nothing keeps what the screen shows, if it keeps the  *)
(* table or leaves the places where the screen is full.                    *)
LEMMA ScreenKept ==
    ASSUME ScreenInv, UNCHANGED <<cl, screen>>, pc # "done",
           \/ ~(Bmtr /\ pc' \in {"drawn", "while", "report", "done"})
           \/ /\ pc \in {"drawn", "while", "report", "done"}
              /\ UNCHANGED <<hops, cycle>>
              /\ g_stop \in BOOLEAN /\ g_stop' \in BOOLEAN /\ cycle \in Nat
              /\ g_stop => g_stop'
           \/ screen = {}
    PROVE  ScreenInv'
  <1>1. cl.report => screen' = {}
    BY DEF ScreenInv
  <1>2. ASSUME Bmtr', pc' \in {"drawn", "while", "report", "done"}, screen' # {},
               (cycle > (IF g_stop THEN 1 ELSE 0))'
        PROVE  {row.num : row \in screen'} = {hops'[k].num : k \in DOMAIN hops'}
    <2>1. /\ Bmtr /\ pc \in {"drawn", "while", "report", "done"} /\ screen # {}
          /\ hops' = hops /\ cycle' = cycle
          /\ g_stop \in BOOLEAN /\ g_stop' \in BOOLEAN /\ cycle \in Nat
          /\ g_stop => g_stop'
      BY <1>2 DEF Bmtr
    <2>2. cycle > (IF g_stop THEN 1 ELSE 0)
      BY <1>2, <2>1
    <2> QED BY <2>1, <2>2, Zenon DEF ScreenInv
  <1> QED BY <1>1, <1>2, Zenon DEF ScreenInv

(* The rows of the screen are redrawn, or neither they nor the table of    *)
(* hops change.                                                            *)
LEMMA ScreenNext ==
    ASSUME IInv, IInv', ScreenInv, [Next]_vars
    PROVE  ScreenInv'
  <1>0. /\ g_stop \in BOOLEAN /\ g_stop' \in BOOLEAN /\ cycle \in Nat
        /\ pc \in {"locate", "while", "probe", "drawn"} => Bmtr
        /\ pc \in {"read", "locate"} => ~g_stop /\ cycle = 0
    BY DEF IInv, TypeOK, ProbesInv
  <1>1. CASE (\E l \in Lines : ReadHop(l)) \/ ReadOther \/ ReadEof
    <2>1. pc = "read" /\ UNCHANGED <<cl, screen>> /\ (pc' = "read" \/ pc' = AfterRead)
      BY <1>1, Zenon DEF ReadHop, ReadOther, ReadEof, route
    <2>2. ~(Bmtr /\ pc' \in {"drawn", "while", "report", "done"})
      BY <2>1 DEF AfterRead
    <2> QED BY <2>1, <2>2, ScreenKept
  <1>2. CASE Locate
    <2>1. pc = "locate" /\ UNCHANGED <<cl, screen, cycle, g_stop>> /\ pc' = "while"
      BY <1>2 DEF Locate
    <2>2. cycle' = 0 /\ ~g_stop'
      BY <1>0, <2>1
    <2>3. ~((cycle > (IF g_stop THEN 1 ELSE 0))')
      BY <2>2
    <2> QED BY <2>1, <2>3 DEF ScreenInv
  <1>3. CASE While \/ Pause
    <2>1. /\ pc = "while" \/ pc = "drawn"
          /\ UNCHANGED <<cl, screen, hops, cycle, g_stop>>
      BY <1>3 DEF While, Pause, route
    <2> QED BY <1>0, <2>1, ScreenKept
  <1>4. CASE ProbeTimeout \/ ProbeInterrupted \/ \E r \in Rtts : ProbeAnswer(r)
    <2>1. pc = "probe" /\ pc' = "probe" /\ UNCHANGED <<cl, screen>>
      BY <1>4 DEF ProbeTimeout, ProbeInterrupted, ProbeAnswer
    <2> QED BY <2>1, ScreenKept
  <1>9. CASE Interrupt
    <2>1. /\ UNCHANGED <<cl, screen, hops, cycle>> /\ pc # "done"
          /\ pc' = "killed" \/ (pc' = pc /\ g_stop')
      BY <1>9 DEF Interrupt, route
    <2> QED BY <1>0, <2>1, ScreenKept
  <1>5. CASE CycleEnds
    <2>1. /\ pc = "probe" /\ pc' = "drawn" /\ cl' = cl
          /\ screen' = IF cl.report THEN screen ELSE draw_table
          /\ hops' = hops /\ cycle' = cycle + 1 /\ g_stop' = g_stop
          /\ i > Len(hops) \/ g_stop
      BY <1>5 DEF CycleEnds, route
    <2>2. CASE cl.report
      BY <2>1, <2>2 DEF ScreenInv
    <2>3. CASE ~cl.report
      <3>1. ASSUME Bmtr', (cycle > (IF g_stop THEN 1 ELSE 0))'
            PROVE  {row.num : row \in screen'} = {hops[k].num : k \in DOMAIN hops}
        <4>1. ASSUME NEW k \in DOMAIN hops PROVE nprobes[k] > 0
          <5>1. k \in 1..Len(hops) /\ Len(hops) \in Nat /\ i \in Nat
            BY InTable, Zenon DEF IInv, RouteInv, TypeOK
          <5>2. nprobes[k] = IF k < i THEN cycle + 1 ELSE cycle
            BY <2>1, <5>1 DEF IInv, ProbesInv
          <5>3. i > Len(hops) \/ (g_stop /\ cycle > 0)
            BY <1>0, <2>1, <3>1
          <5> QED BY <1>0, <5>1, <5>2, <5>3
        <4> QED BY <2>1, <2>3, <4>1, RowNumbers, Zenon
      <3> QED BY <2>1, <2>3, <3>1, Zenon DEF ScreenInv
    <2> QED BY <2>2, <2>3
  <1>6. CASE BmtrReport
    <2>1. /\ pc = "report" /\ pc' = "done" /\ hops' = hops /\ cl' = cl
          /\ screen' = screen \/ screen' = draw_report
          /\ cycle' = cycle /\ g_stop' = g_stop
      BY <1>6 DEF BmtrReport, route
    <2>2. CASE screen' = draw_report
      BY <2>1, <2>2, RowNumbers, Zenon DEF ScreenInv, Bmtr, route
    <2>3. CASE screen' = screen
      BY <2>1, <2>3, Zenon DEF ScreenInv, Bmtr, route
    <2> QED BY <2>1, <2>2, <2>3
  <1>7. CASE BtracerouteSummary
    BY <1>7 DEF BtracerouteSummary, ScreenInv, Bmtr, route
  <1>8. CASE UNCHANGED vars
    BY <1>8, Zenon DEF vars, ScreenInv, Bmtr, route
  <1> QED BY <1>1, <1>2, <1>3, <1>4, <1>5, <1>6, <1>7, <1>8, <1>9 DEF Next, Step

(* Every hop has its row, and a row says all was lost only of a hop that   *)
(* was probed in vain, in whatever order answers, losses and SIGINT come.  *)
THEOREM RowsTellTruth == Spec => []RowsTell
  <1>1. Init => ScreenInv
    BY DEF Init, ScreenInv
  <1>2. IInv /\ ScreenInv => RowsTell
    <2> SUFFICES ASSUME IInv, ScreenInv, Bmtr, pc \in {"drawn", "done"}, screen # {},
                        cycle > (IF g_stop THEN 1 ELSE 0)
                 PROVE  /\ {row.num : row \in screen} = {hops[k].num : k \in DOMAIN hops}
                        /\ \A k \in DOMAIN hops :
                              Row(k).loss = 100 => ntimeout[k] > 0 /\ nsamp[k] = 0
      BY Zenon DEF RowsTell
    <2>1. {row.num : row \in screen} = {hops[k].num : k \in DOMAIN hops}
      BY Zenon DEF ScreenInv
    <2>2. ASSUME NEW k \in DOMAIN hops, Row(k).loss = 100
          PROVE  ntimeout[k] > 0 /\ nsamp[k] = 0
      <3>1. k \in Slots
        BY InTable DEF IInv, RouteInv
      <3>2. nprobes[k] \in Nat /\ ntimeout[k] \in Nat /\ nsamp[k] \in Nat
        BY <3>1 DEF IInv, TypeOK
      <3>3. nprobes[k] > 0
        BY AllProbed
      <3>4. nprobes[k] = nsamp[k] + ntimeout[k]
        BY <3>1 DEF IInv, ProbesInv
      <3>5. (100 * ntimeout[k]) \div nprobes[k] = 100
        BY <2>2, <3>3 DEF Row
      <3> DEFINE p == nprobes[k]
                 t == ntimeout[k]
                 a == nsamp[k]
      <3>6. p \in Nat /\ t \in Nat /\ a \in Nat /\ p > 0 /\ p = a + t /\ (100 * t) \div p = 100
        BY <3>2, <3>3, <3>4, <3>5, Zenon
      <3> HIDE DEF p, t, a
      <3>7. t > 0 /\ a = 0
        BY <3>6, AllLost
      <3> QED BY <3>7, Zenon DEF t, a
    <2> QED BY <2>1, <2>2, Zenon
  <1> QED BY <1>1, <1>2, Inductive, ScreenNext, PTL DEF Spec

-----------------------------------------------------------------------------
(* The counters that bound the loops: lines read stay within what          *)
(* traceroute prints, and a cycle of a counted bmtr is one of its count.   *)
CountInv ==
    /\ seen \in Nat /\ seen <= maxhops
    /\ other \in Nat /\ other <= MaxOther
    /\ pc = "probe" /\ ~g_stop /\ cl.c # 0 => cycle < cl.c

(* -m is at least one hop for either tool.                                 *)
LEMMA MaxhopsType == ASSUME cl \in Commandlines PROVE maxhops \in Nat /\ cl.c \in Int
  BY HopToolAssumption DEF maxhops, Bmtr, Slots

LEMMA CountNext == TypeOK /\ CountInv /\ [Next]_vars => CountInv'
  <1> SUFFICES ASSUME TypeOK, CountInv, [Next]_vars PROVE CountInv'
    OBVIOUS
  <1>0. maxhops \in Nat /\ cl.c \in Int /\ MaxOther \in Nat /\ cycle \in Nat
    BY MaxhopsType, HopToolAssumption DEF TypeOK
  <1>1. ASSUME NEW l \in Lines, ReadHop(l) PROVE CountInv'
    <2>1. seen' = seen + 1 /\ seen < maxhops /\ cl' = cl /\ other' = other /\ pc' # "probe"
      BY <1>1, Zenon DEF ReadHop, AfterRead
    <2>2. maxhops' = maxhops
      BY <2>1 DEF maxhops, Bmtr
    <2> QED BY <1>0, <2>1, <2>2 DEF CountInv
  <1>2. CASE ReadOther
    <2>1. seen' = seen /\ cl' = cl /\ other' = other + 1 /\ other < MaxOther /\ pc' # "probe"
      BY <1>2, Zenon DEF ReadOther, AfterRead
    <2>2. maxhops' = maxhops
      BY <2>1 DEF maxhops, Bmtr
    <2> QED BY <1>0, <2>1, <2>2 DEF CountInv
  <1>3. CASE While
    <2>1. /\ seen' = seen /\ cl' = cl /\ other' = other /\ g_stop' = g_stop /\ cycle' = cycle
          /\ pc' = "probe" => ~g_stop /\ (cl.c = 0 \/ cycle < cl.c)
      BY <1>3, Zenon DEF While, route
    <2>2. maxhops' = maxhops
      BY <2>1 DEF maxhops, Bmtr
    <2> QED BY <1>0, <2>1, <2>2 DEF CountInv
  <1>4. ASSUME /\ seen' = seen /\ other' = other /\ cl' = cl
               /\ \/ pc' # "probe" \/ g_stop'
                  \/ pc = "probe" /\ g_stop' = g_stop /\ cycle' = cycle
        PROVE  CountInv'
    <2>1. maxhops' = maxhops
      BY <1>4 DEF maxhops, Bmtr
    <2> QED BY <1>4, <2>1 DEF CountInv
  <1>5. CASE ReadEof \/ Locate \/ CycleEnds \/ Pause \/ BmtrReport \/ BtracerouteSummary
    BY <1>4, <1>5, Zenon DEF ReadEof, AfterRead, Locate, CycleEnds, Pause, BmtrReport,
                             BtracerouteSummary, route
  <1>6. CASE ProbeTimeout \/ ProbeInterrupted \/ \E r \in Rtts : ProbeAnswer(r)
    BY <1>4, <1>6, Zenon DEF ProbeTimeout, ProbeInterrupted, ProbeAnswer, route
  <1>7. CASE Interrupt
    BY <1>4, <1>7, Zenon DEF Interrupt, route
  <1>8. CASE UNCHANGED vars
    BY <1>4, <1>8, Zenon DEF vars, route
  <1> QED BY <1>1, <1>2, <1>3, <1>5, <1>6, <1>7, <1>8, Zenon DEF Next, Step

(* A tuple falls where its first differing component does.                 *)
LEMMA Falls ==
    ASSUME NEW a \in Nat, NEW b \in Nat, NEW c \in Nat, NEW d \in Nat,
           NEW p \in Nat, NEW q \in Nat, NEW r \in Nat, NEW s \in Nat,
           \/ a < p
           \/ a = p /\ b < q
           \/ a = p /\ b = q /\ c < r
           \/ a = p /\ b = q /\ c = r /\ d < s
    PROVE  LexLess(<<a, b, c, d>>, <<p, q, r, s>>)
  <1> DEFINE u == <<a, b, c, d>>
             v == <<p, q, r, s>>
  <1>1. /\ Len(v) = 4
        /\ u[1] = a /\ u[2] = b /\ u[3] = c /\ u[4] = d
        /\ v[1] = p /\ v[2] = q /\ v[3] = r /\ v[4] = s
    OBVIOUS
  <1> SUFFICES LexLess(u, v)
    OBVIOUS
  <1> HIDE DEF u, v
  <1>2. ASSUME NEW k \in 1..4, u[k] \in 0..(v[k] - 1), \A j \in 1..(k - 1) : u[j] = v[j]
        PROVE  LexLess(u, v)
    BY <1>1, <1>2 DEF LexLess
  <1>3. CASE a < p
    <2>1. 1 \in 1..4 /\ u[1] \in 0..(v[1] - 1)
      BY <1>1, <1>3
    <2>2. \A j \in 1..(1 - 1) : u[j] = v[j]
      <3> SUFFICES ASSUME NEW j \in 1..(1 - 1) PROVE u[j] = v[j]
        OBVIOUS
      <3>1. FALSE
        OBVIOUS
      <3> QED BY <1>1, <1>3, <3>1
    <2> QED BY <1>2, <2>1, <2>2, Zenon
  <1>4. CASE a = p /\ b < q
    <2>1. 2 \in 1..4 /\ u[2] \in 0..(v[2] - 1)
      BY <1>1, <1>4
    <2>2. \A j \in 1..(2 - 1) : u[j] = v[j]
      <3> SUFFICES ASSUME NEW j \in 1..(2 - 1) PROVE u[j] = v[j]
        OBVIOUS
      <3>1. j = 1
        OBVIOUS
      <3> QED BY <1>1, <1>4, <3>1
    <2> QED BY <1>2, <2>1, <2>2, Zenon
  <1>5. CASE a = p /\ b = q /\ c < r
    <2>1. 3 \in 1..4 /\ u[3] \in 0..(v[3] - 1)
      BY <1>1, <1>5
    <2>2. \A j \in 1..(3 - 1) : u[j] = v[j]
      <3> SUFFICES ASSUME NEW j \in 1..(3 - 1) PROVE u[j] = v[j]
        OBVIOUS
      <3>1. j = 1 \/ j = 2
        OBVIOUS
      <3> QED BY <1>1, <1>5, <3>1
    <2> QED BY <1>2, <2>1, <2>2, Zenon
  <1>6. CASE a = p /\ b = q /\ c = r /\ d < s
    <2>1. 4 \in 1..4 /\ u[4] \in 0..(v[4] - 1)
      BY <1>1, <1>6
    <2>2. \A j \in 1..(4 - 1) : u[j] = v[j]
      <3> SUFFICES ASSUME NEW j \in 1..(4 - 1) PROVE u[j] = v[j]
        OBVIOUS
      <3>1. j = 1 \/ j = 2 \/ j = 3
        OBVIOUS
      <3> QED BY <1>1, <1>6, <3>1
    <2> QED BY <1>2, <2>1, <2>2, Zenon
  <1> QED BY <1>3, <1>4, <1>5, <1>6

(* The measure is made of naturals.                                        *)
LEMMA LeftType ==
    ASSUME IInv, CountInv
    PROVE  Phase \in Nat /\ Rounds \in Nat /\ Turns \in Nat
  <1>1. /\ maxhops \in Nat /\ cl.c \in Int /\ MaxOther \in Nat /\ cycle \in Nat /\ i \in Nat
        /\ Len(hops) \in Nat
    BY MaxhopsType, HopToolAssumption DEF IInv, TypeOK
  <1>2. Phase \in Nat
    BY DEF Phase
  <1>3. Rounds \in Nat
    <2>1. CASE pc = "read"
      <3>1. Rounds = (maxhops - seen) + (MaxOther - other)
        BY <2>1 DEF Rounds
      <3> QED BY <1>1, <3>1 DEF CountInv
    <2>2. CASE pc # "read"
      <3>1. Rounds = IF g_stop THEN IF pc = "probe" THEN 1 ELSE 0
                     ELSE IF cycle < cl.c THEN cl.c - cycle ELSE 0
        BY <2>2 DEF Rounds
      <3> QED BY <1>1, <3>1
    <2> QED BY <2>1, <2>2
  <1>4. Turns \in Nat
    <2>1. pc = "probe" => i <= Len(hops) + 1
      BY DEF IInv, ProbesInv
    <2>2. \/ pc = "probe" /\ Turns = Len(hops) + 1 - i
          \/ Turns = Len(hops) + 2 \/ Turns = Len(hops) + 1 \/ Turns = 0
      BY DEF Turns
    <2> QED BY <1>1, <2>1, <2>2
  <1> QED BY <1>2, <1>3, <1>4

(* The step lemma of WindsDown: which component falls, action by action.   *)
LEMMA LeftFalls ==
    ASSUME IInv, CountInv, IInv', CountInv', Next, ~(UNCHANGED vars),
           ~Bmtr \/ cl.c # 0 \/ g_stop'
    PROVE  LexLess(Left', Left)
  <1> DEFINE S == IF g_stop THEN 0 ELSE 1
             T == IF g_stop' THEN 0 ELSE 1
  <1>1. /\ Phase \in Nat /\ Rounds \in Nat /\ Turns \in Nat
        /\ Phase' \in Nat /\ Rounds' \in Nat /\ Turns' \in Nat
    <2>1. Phase \in Nat /\ Rounds \in Nat /\ Turns \in Nat
      BY LeftType, Zenon
    <2>2. (IInv /\ CountInv => Phase \in Nat /\ Rounds \in Nat /\ Turns \in Nat)'
      BY LeftType, PTL
    <2> QED BY <2>1, <2>2
  <1>2. S \in Nat /\ T \in Nat
    OBVIOUS
  <1>3. Left = <<S, Phase, Rounds, Turns>> /\ Left' = <<T, Phase', Rounds', Turns'>>
    BY DEF Left
  <1> SUFFICES \/ T < S
               \/ T = S /\ Phase' < Phase
               \/ T = S /\ Phase' = Phase /\ Rounds' < Rounds
               \/ T = S /\ Phase' = Phase /\ Rounds' = Rounds /\ Turns' < Turns
    <2> HIDE DEF S, T
    <2> QED BY <1>1, <1>2, <1>3, Falls, Zenon
  <1>4. /\ seen \in Nat /\ other \in Nat /\ maxhops \in Nat /\ MaxOther \in Nat
        /\ cl.c \in Int /\ cycle \in Nat /\ i \in Nat /\ Len(hops) \in Nat
    BY MaxhopsType, HopToolAssumption DEF IInv, TypeOK, CountInv
  <1>5. cl' = cl => maxhops' = maxhops
    BY DEF maxhops, Bmtr
  <1>6. ASSUME NEW l \in Lines, ReadHop(l)
        PROVE  T = S /\ (Phase' < Phase \/ (Phase' = Phase /\ Rounds' < Rounds))
    <2>1. /\ pc = "read" /\ seen' = seen + 1 /\ other' = other /\ cl' = cl /\ g_stop' = g_stop
          /\ pc' \in {"read", "failed", "locate", "report"}
      BY <1>6, Zenon DEF ReadHop, AfterRead
    <2>2. Phase = 4 /\ (pc' = "read" \/ Phase' < 4)
      BY <2>1 DEF Phase
    <2>3. pc' = "read" => Phase' = 4 /\ Rounds' < Rounds
      BY <1>4, <1>5, <2>1 DEF Phase, Rounds
    <2> QED BY <2>1, <2>2, <2>3
  <1>7. CASE ReadOther
    <2>1. /\ pc = "read" /\ seen' = seen /\ other' = other + 1 /\ cl' = cl /\ g_stop' = g_stop
          /\ pc' \in {"read", "failed", "locate", "report"}
      BY <1>7, Zenon DEF ReadOther, AfterRead
    <2>2. Phase = 4 /\ (pc' = "read" \/ Phase' < 4)
      BY <2>1 DEF Phase
    <2>3. pc' = "read" => Phase' = 4 /\ Rounds' < Rounds
      BY <1>4, <1>5, <2>1 DEF Phase, Rounds
    <2> QED BY <2>1, <2>2, <2>3
  <1>8. CASE ReadEof \/ Locate \/ BmtrReport \/ BtracerouteSummary
    <2>1. /\ g_stop' = g_stop
          /\ \/ pc = "read" /\ pc' \in {"failed", "locate", "report"}
             \/ pc = "locate" /\ pc' = "while"
             \/ pc = "report" /\ pc' = "done"
      BY <1>8, Zenon DEF ReadEof, AfterRead, Locate, BmtrReport, BtracerouteSummary
    <2>2. Phase' < Phase
      BY <2>1 DEF Phase
    <2> QED BY <2>1, <2>2
  <1>9. CASE While
    <2>1. /\ pc = "while" /\ cl' = cl /\ g_stop' = g_stop /\ cycle' = cycle /\ hops' = hops
          /\ \/ pc' = "report"
             \/ pc' = "probe" /\ i' = 1 /\ ~g_stop
      BY <1>9, Zenon DEF While, route
    <2>2. CASE pc' = "report"
      BY <2>1, <2>2 DEF Phase
    <2>3. CASE pc' = "probe"
      <3>1. ~g_stop /\ i' = 1
        BY <2>1, <2>3, Zenon
      <3>2. Phase' = Phase /\ Rounds' = Rounds
        BY <2>1, <2>3, <3>1 DEF Phase, Rounds
      <3>3. Turns' = Len(hops) + 1 - 1 /\ Turns = Len(hops) + 1
        BY <2>1, <2>3, <3>1 DEF Turns
      <3> QED BY <1>4, <2>1, <3>2, <3>3
    <2> QED BY <2>1, <2>2, <2>3
  <1>10. CASE ProbeTimeout \/ \E r \in Rtts : ProbeAnswer(r)
    <2>1. /\ pc = "probe" /\ pc' = "probe" /\ cl' = cl /\ g_stop' = g_stop /\ cycle' = cycle
          /\ hops' = hops /\ i' = i + 1
      BY <1>10, Zenon DEF ProbeTimeout, ProbeAnswer, NextProbe, route
    <2>2. Phase' = Phase /\ Rounds' = Rounds
      BY <2>1 DEF Phase, Rounds
    <2>3. Turns' = Len(hops) + 1 - (i + 1) /\ Turns = Len(hops) + 1 - i
      BY <2>1 DEF Turns
    <2> QED BY <1>4, <2>1, <2>2, <2>3
  <1>11. CASE CycleEnds
    <2>1. /\ pc = "probe" /\ pc' = "drawn" /\ cl' = cl /\ g_stop' = g_stop /\ cycle' = cycle + 1
      BY <1>11, Zenon DEF CycleEnds
    <2>2. Phase' = Phase
      BY <2>1 DEF Phase
    <2>3. Rounds' < Rounds
      <3>1. CASE g_stop
        BY <2>1, <3>1 DEF Rounds
      <3>2. CASE ~g_stop
        <4>1. Bmtr
          BY <2>1, Zenon DEF IInv, ProbesInv
        <4>2. cycle < cl.c
          BY <2>1, <3>2, <4>1, Zenon DEF CountInv
        <4>3. Rounds = cl.c - cycle
          BY <2>1, <3>2, <4>2 DEF Rounds
        <4>4. Rounds' = IF cycle + 1 < cl.c THEN cl.c - (cycle + 1) ELSE 0
          BY <2>1, <3>2 DEF Rounds
        <4> QED BY <1>4, <4>2, <4>3, <4>4
      <3> QED BY <3>1, <3>2
    <2> QED BY <2>1, <2>2, <2>3
  <1>12. CASE Pause
    <2>1. /\ pc = "drawn" /\ pc' = "while" /\ cl' = cl /\ g_stop' = g_stop /\ cycle' = cycle
          /\ hops' = hops
      BY <1>12, Zenon DEF Pause, route
    <2>2. Phase' = Phase /\ Rounds' = Rounds
      BY <2>1 DEF Phase, Rounds
    <2>3. Turns' = Len(hops) + 1 /\ Turns = Len(hops) + 2
      BY <2>1 DEF Turns
    <2> QED BY <1>4, <2>1, <2>2, <2>3
  <1>13. CASE ProbeInterrupted
    <2>1. ~g_stop /\ g_stop' = TRUE
      BY <1>13, Zenon DEF ProbeInterrupted
    <2> QED BY <2>1
  <1>14. CASE Interrupt
    <2>1. \/ ~g_stop /\ g_stop' = TRUE
          \/ pc \in {"read", "locate"} /\ pc' = "killed" /\ g_stop' = g_stop
      BY <1>14, Zenon DEF Interrupt
    <2>2. pc \in {"read", "locate"} /\ pc' = "killed" => Phase' < Phase
      BY DEF Phase
    <2> QED BY <2>1, <2>2
  <1> QED
    BY <1>6, <1>7, <1>8, <1>9, <1>10, <1>11, <1>12, <1>13, <1>14, Zenon DEF Next, Step

(* Neither tool can run on: every step of btraceroute, of a bmtr with a    *)
(* count and of a bmtr that got SIGINT lowers a measure without infinite   *)
(* descent, for every -m, -c, route and moment of SIGINT.                  *)
THEOREM LoopsWindDown == Spec => WindsDown
  <1>1. Init => CountInv
    <2> SUFFICES ASSUME Init PROVE CountInv
      OBVIOUS
    <2>1. maxhops \in Nat /\ MaxOther \in Nat
      BY MaxhopsType, HopToolAssumption DEF Init
    <2> QED BY <2>1 DEF Init, CountInv
  <1>2. IInv => TypeOK
    BY DEF IInv
  <1>3. /\ IInv /\ CountInv /\ IInv' /\ CountInv' /\ [Next]_vars
        => [~Bmtr \/ cl.c # 0 \/ g_stop' => LexLess(Left', Left)]_vars
    BY LeftFalls, Zenon
  <1> QED BY <1>1, <1>2, <1>3, Inductive, CountNext, PTL DEF Spec, WindsDown
=============================================================================
