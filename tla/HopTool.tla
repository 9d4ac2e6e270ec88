------------------------------ MODULE HopTool ------------------------------
(***************************************************************************)
(* The two tools that keep a table of hops: btraceroute lists what a child *)
(* traceroute prints and sums it up; bmtr fills its table the same way and *)
(* then sends a child ping to every hop, cycle after cycle, until its      *)
(* count or SIGINT ends it.                                                *)
(*                                                                         *)
(* The children are external.  A line of traceroute is a hop number with   *)
(* or without a host and a time, or a line without a hop number; a ping    *)
(* answers with a time, is lost, or is ended by the SIGINT that the        *)
(* terminal sends to every process of the foreground group.                *)
(***************************************************************************)
EXTENDS Integers, Sequences, FiniteSets, Descent

CONSTANTS
    Commandlines,     \* records [tool, m, c, report]; c = 0: run for ever
    MAX_HOPS,         \* room in hops[]
    MAX_SAMPLES,      \* room in samples[]
    Rtts,             \* times a probe may take
    MaxOther,         \* bound: lines of traceroute that name no hop
    MaxCycles         \* bound: cycles of a bmtr that runs for ever

ASSUME HopToolAssumption ==
    /\ MAX_HOPS \in Nat \ {0}
    /\ MAX_SAMPLES \in Nat \ {0}
    /\ Rtts \subseteq Nat \ {0}
    /\ MaxOther \in Nat /\ MaxCycles \in Nat
    /\ \A c \in Commandlines : c.m \in Int /\ c.c \in Int /\ c.report \in BOOLEAN

VARIABLES
    pc,               \* where main is (see Places)
    cl,               \* the command line
    seen,             \* hop lines traceroute has printed
    other,            \* lines without a hop number it has printed
    over,             \* traceroute has reached the destination
    hops,             \* num, host, rtt and geo of the entries filled: nhops of them
    nprobes, ntimeout, nsamp,   \* counters of each entry of hops[]
    agg,              \* sum, sumsq, smin, smax and samples[] of each entry
    i,                \* the hop being probed
    cycle,
    g_stop,
    screen,           \* the rows bmtr showed last (see Row)
    out,              \* the lines of btraceroute's summary
    heard,            \* history: the hops traceroute printed
    answers           \* history: the times each hop's pings took, oldest first

route == <<seen, other, over, hops, heard>>
stats == <<nprobes, ntimeout, nsamp, agg, answers>>
vars == <<pc, cl, route, stats, i, cycle, g_stop, screen, out>>

Places == {"read", "locate", "while", "probe", "drawn", "report", "done", "failed", "killed"}
Slots == 1..MAX_HOPS
NoAgg == [sum |-> 0, sumsq |-> 0, smin |-> 0, smax |-> 0, samples |-> <<>>]

Bmtr == cl.tool = "bmtr"

\* Faulty variant: a -m beyond the table is taken as it is.
maxhopsUnclamped == cl.m

\* The -m option: each tool replaces what it does not accept.
maxhops ==
    IF Bmtr THEN IF cl.m \in Slots THEN cl.m ELSE MAX_HOPS
    ELSE IF cl.m \in 1..255 THEN cl.m ELSE 30

\* Lines are read while the table has room: bmtr stops at -m, btraceroute at
\* the end of its array.
cap == IF Bmtr THEN maxhops ELSE MAX_HOPS

Init ==
    /\ pc = "read"
    /\ cl \in Commandlines
    /\ seen = 0 /\ other = 0 /\ over = FALSE
    /\ hops = <<>>
    /\ nprobes = [s \in Slots |-> 0]
    /\ ntimeout = [s \in Slots |-> 0]
    /\ nsamp = [s \in Slots |-> 0]
    /\ agg = [s \in Slots |-> NoAgg]
    /\ i = 1 /\ cycle = 0 /\ g_stop = FALSE
    /\ screen = {} /\ out = {}
    /\ heard = <<>>
    /\ answers = [s \in Slots |-> <<>>]

-----------------------------------------------------------------------------
(* Reading traceroute (discover_hops, and the loop in btraceroute's main). *)

\* What the line of one TTL may say: all probes lost; a host and its time;
\* or, with several probes, a lost one first, which hides the host.
Lines == {[host |-> "star", rtt |-> -1]}
         \cup {[host |-> "ip", rtt |-> r] : r \in Rtts}
         \cup (IF Bmtr THEN {} ELSE {[host |-> "star", rtt |-> r] : r \in Rtts})

\* The loop is left: bmtr needs a hop, btraceroute goes on without.
AfterRead == IF Bmtr THEN IF hops = <<>> THEN "failed" ELSE "locate" ELSE "report"

\* Faulty variant: a hop that did not answer is left out of the table.
ReadHopAnswering(l) ==
    /\ pc = "read" /\ ~over /\ seen < maxhops
    /\ seen' = seen + 1
    /\ over' \in IF l.host = "ip" THEN BOOLEAN ELSE {FALSE}
    /\ heard' = Append(heard, seen + 1)
    /\ hops' = IF l.host = "ip" /\ Len(hops) < cap
               THEN Append(hops, [num |-> seen + 1, host |-> "ip", rtt |-> l.rtt, geo |-> FALSE])
               ELSE hops
    /\ UNCHANGED <<pc, cl, other, stats, i, cycle, g_stop, screen, out>>

\* The next TTL's line: fgets has taken it from the pipe before the room in
\* the table is looked at.  btraceroute locates the host at once.
ReadHop(l) ==
    /\ pc = "read" /\ ~over /\ seen < maxhops
    /\ seen' = seen + 1
    /\ over' \in IF l.host = "ip" THEN BOOLEAN ELSE {FALSE}
    /\ heard' = Append(heard, seen + 1)
    /\ IF Len(hops) < cap
       THEN /\ \E g \in IF l.host = "ip" /\ ~Bmtr THEN BOOLEAN ELSE {FALSE} :
                  hops' = Append(hops, [num |-> seen + 1, host |-> l.host, rtt |-> l.rtt, geo |-> g])
            /\ UNCHANGED pc
       ELSE pc' = AfterRead /\ UNCHANGED hops
    /\ UNCHANGED <<cl, other, stats, i, cycle, g_stop, screen, out>>

\* The heading, an empty line or a message: no hop number.
ReadOther ==
    /\ pc = "read" /\ other < MaxOther
    /\ other' = other + 1
    /\ pc' = IF Len(hops) < cap THEN pc ELSE AfterRead
    /\ UNCHANGED <<cl, seen, over, hops, heard, stats, i, cycle, g_stop, screen, out>>

\* Faulty variant: the end of the output is read over like an empty line.
ReadEofSkipped ==
    /\ pc = "read"
    /\ UNCHANGED <<pc, cl, route, stats, i, cycle, g_stop, screen, out>>

\* traceroute has ended (it may also fail to start, or give up early).
ReadEof ==
    /\ pc = "read"
    /\ pc' = AfterRead
    /\ UNCHANGED <<cl, route, stats, i, cycle, g_stop, screen, out>>

-----------------------------------------------------------------------------
(* bmtr's probing.                                                         *)

\* geolocate_hops for the hops with a host; then SIGINT gets its handler.
Locate ==
    /\ pc = "locate"
    /\ \E g \in [DOMAIN hops -> BOOLEAN] :
          hops' = [k \in DOMAIN hops |->
                      [hops[k] EXCEPT !.geo = g[k] /\ hops[k].host = "ip"]]
    /\ pc' = "while"
    /\ UNCHANGED <<cl, seen, other, over, heard, stats, i, cycle, g_stop, screen, out>>

\* Faulty variant: the count is tested for equality.
WhileUnequal ==
    /\ pc = "while"
    /\ IF ~g_stop /\ (cl.c = 0 \/ cycle # cl.c)
       THEN cycle < MaxCycles /\ pc' = "probe" /\ i' = 1
       ELSE pc' = "report" /\ UNCHANGED i
    /\ UNCHANGED <<cl, route, stats, cycle, g_stop, screen, out>>

\* The loop of main is entered once more, or left.
While ==
    /\ pc = "while"
    /\ IF ~g_stop /\ (cl.c = 0 \/ cycle < cl.c)
       THEN cycle < MaxCycles /\ pc' = "probe" /\ i' = 1
       ELSE pc' = "report" /\ UNCHANGED i
    /\ UNCHANGED <<cl, route, stats, cycle, g_stop, screen, out>>

\* hop_add_sample for a time r: the ring, the sums and the extremes.
Sampled(k, r) ==
    LET a == agg[k]
        idx == (nsamp[k] % MAX_SAMPLES) + 1
        first == nsamp[k] = 0
    IN  [sum |-> a.sum + r,
         sumsq |-> a.sumsq + r * r,
         smin |-> IF first \/ r < a.smin THEN r ELSE a.smin,
         smax |-> IF first \/ r > a.smax THEN r ELSE a.smax,
         samples |-> IF idx > Len(a.samples) THEN Append(a.samples, r)
                     ELSE [a.samples EXCEPT ![idx] = r]]

\* hop_add_sample for a probe without an answer.
hop_add_timeout(k) ==
    /\ nprobes' = [nprobes EXCEPT ![k] = @ + 1]
    /\ ntimeout' = [ntimeout EXCEPT ![k] = @ + 1]
    /\ UNCHANGED <<nsamp, agg, answers>>

\* Faulty variant: the extremes start from the cleared record.
hop_add_sample_unset(k, r) ==
    /\ nprobes' = [nprobes EXCEPT ![k] = @ + 1]
    /\ nsamp' = [nsamp EXCEPT ![k] = @ + 1]
    /\ agg' = [agg EXCEPT ![k] = [Sampled(k, r) EXCEPT
                                     !.smin = IF r < agg[k].smin THEN r ELSE agg[k].smin]]
    /\ answers' = [answers EXCEPT ![k] = Append(@, r)]
    /\ UNCHANGED ntimeout

hop_add_sample(k, r) ==
    /\ nprobes' = [nprobes EXCEPT ![k] = @ + 1]
    /\ nsamp' = [nsamp EXCEPT ![k] = @ + 1]
    /\ agg' = [agg EXCEPT ![k] = Sampled(k, r)]
    /\ answers' = [answers EXCEPT ![k] = Append(@, r)]
    /\ UNCHANGED ntimeout

\* Faulty variant: an unanswering hop is passed over without a sample.
NextProbeSkips == i' = IF i < Len(hops) /\ hops[i + 1].host = "star" THEN i + 2 ELSE i + 1

\* The for loop goes on to the next hop.
NextProbe == i' = i + 1

\* probe_hop: a hop without an address, or a ping that is lost, cannot be
\* started or prints no time, is a timeout.
ProbeTimeout ==
    /\ pc = "probe" /\ i <= Len(hops) /\ ~g_stop
    /\ hop_add_timeout(i)
    /\ NextProbe
    /\ UNCHANGED <<pc, cl, route, cycle, g_stop, screen, out>>

ProbeAnswer(r) ==
    /\ pc = "probe" /\ i <= Len(hops) /\ ~g_stop
    /\ hops[i].host = "ip"
    /\ hop_add_sample(i, r)
    /\ NextProbe
    /\ UNCHANGED <<pc, cl, route, cycle, g_stop, screen, out>>

\* SIGINT while a ping runs: bmtr's handler sets g_stop, the ping ends as well
\* and prints no time, which probe_hop takes for a timeout.
ProbeInterrupted ==
    /\ pc = "probe" /\ i <= Len(hops) /\ ~g_stop
    /\ hops[i].host = "ip"
    /\ g_stop' = TRUE
    /\ hop_add_timeout(i)
    /\ NextProbe
    /\ UNCHANGED <<pc, cl, route, cycle, screen, out>>

\* One row of bmtr's output: the loss in percent, and times only from a hop
\* that gave any ("?" otherwise).
Row(k) ==
    [num |-> hops[k].num,
     loss |-> IF nprobes[k] > 0 THEN (100 * ntimeout[k]) \div nprobes[k] ELSE 100,
     timed |-> nsamp[k] > 0]

\* Faulty variant: hops without a time are not drawn.
draw_table_timed == {Row(k) : k \in {j \in DOMAIN hops : nsamp[j] > 0}}

\* The live table leaves out hops that were not probed yet ...
draw_table == {Row(k) : k \in {j \in DOMAIN hops : nprobes[j] > 0}}

\* ... and the report does not.
draw_report == {Row(k) : k \in DOMAIN hops}

\* The for loop is left: the cycle counts, whole or not, and is drawn.
CycleEnds ==
    /\ pc = "probe"
    /\ i > Len(hops) \/ g_stop
    /\ cycle' = cycle + 1
    /\ screen' = IF cl.report THEN screen ELSE draw_table
    /\ pc' = "drawn"
    /\ UNCHANGED <<cl, route, stats, i, g_stop, out>>

\* The pause between cycles, cut short by SIGINT; none after the last cycle.
Pause ==
    /\ pc = "drawn"
    /\ pc' = "while"
    /\ UNCHANGED <<cl, route, stats, i, cycle, g_stop, screen, out>>

\* SIGINT at any other moment: default action before the handler is there
\* (btraceroute has none), g_stop after.
Interrupt ==
    /\ pc \in {"read", "locate", "while", "probe", "drawn"}
    /\ IF pc \in {"read", "locate"}
       THEN pc' = "killed" /\ UNCHANGED g_stop
       ELSE ~g_stop /\ g_stop' = TRUE /\ UNCHANGED pc
    /\ UNCHANGED <<cl, route, stats, i, cycle, screen, out>>

-----------------------------------------------------------------------------
(* The end of main.                                                        *)

\* bmtr prints its report only when asked to or interrupted.
BmtrReport ==
    /\ pc = "report" /\ Bmtr
    /\ screen' = IF cl.report \/ g_stop THEN draw_report ELSE screen
    /\ pc' = "done"
    /\ UNCHANGED <<cl, route, stats, i, cycle, g_stop, out>>

\* The hops a path length can be measured between, this host (me) first.
Located(me) == {k \in DOMAIN hops : hops[k].geo} \cup (IF me THEN {0} ELSE {})

\* The light floor comes from the last hop that answered.
Reachable == \E k \in DOMAIN hops : hops[k].rtt >= 0

\* btraceroute's summary: the direct distance, with the efficiency when some
\* hop answered, and the path length from two segments on.  Distances of
\* nothing are left out.
BtracerouteSummary ==
    /\ pc = "report" /\ ~Bmtr
    /\ \E me, direct, length \in BOOLEAN :
          out' = (IF me /\ direct THEN {"distance"} ELSE {})
                 \cup (IF me /\ direct /\ Reachable THEN {"efficiency"} ELSE {})
                 \cup (IF length /\ Cardinality(Located(me)) > 2 THEN {"path"} ELSE {})
    /\ pc' = "done"
    /\ UNCHANGED <<cl, route, stats, i, cycle, g_stop, screen>>

-----------------------------------------------------------------------------
Stopped == pc \in {"done", "failed", "killed"}

Step ==
    \/ \E l \in Lines : ReadHop(l)
    \/ ReadOther \/ ReadEof
    \/ Locate \/ While
    \/ ProbeTimeout \/ \E r \in Rtts : ProbeAnswer(r)
    \/ CycleEnds \/ Pause
    \/ BmtrReport \/ BtracerouteSummary

Next == Step \/ ProbeInterrupted \/ Interrupt \/ (Stopped /\ UNCHANGED vars)

Spec == Init /\ [][Next]_vars

\* The tool is scheduled and its children end: traceroute after -m hops, ping
\* -c 1 -W 1 after a second.  Nobody need press Ctrl-C.
FairSpec == Spec /\ WF_vars(Step)

-----------------------------------------------------------------------------
Hop == [num : Nat, host : {"ip", "star"}, rtt : Int, geo : BOOLEAN]
Agg == [sum : Nat, sumsq : Nat, smin : Nat, smax : Nat, samples : Seq(Rtts)]
Rows == [num : Nat, loss : 0..100, timed : BOOLEAN]

(* The places, the counters and the table of either tool; samples[] is     *)
(* never written past its end.                                             *)
TypeOK ==
    /\ pc \in Places
    /\ cl \in Commandlines
    /\ seen \in Nat /\ other \in Nat /\ over \in BOOLEAN
    /\ hops \in Seq(Hop)
    /\ nprobes \in [Slots -> Nat] /\ ntimeout \in [Slots -> Nat] /\ nsamp \in [Slots -> Nat]
    /\ agg \in [Slots -> Agg] /\ answers \in [Slots -> Seq(Rtts)]
    /\ \A s \in Slots : Len(agg[s].samples) <= MAX_SAMPLES
    /\ i \in Nat \ {0} /\ cycle \in Nat
    /\ g_stop \in BOOLEAN
    /\ screen \subseteq Rows
    /\ out \subseteq {"distance", "efficiency", "path"}
    /\ heard \in Seq(Nat)

(* Whatever -m says and however much traceroute prints, hops[] is never    *)
(* written or probed past its end.                                         *)
TableBounded ==
    /\ Len(hops) <= MAX_HOPS
    /\ pc = "probe" => i <= Len(hops) + 1

(* The table lists the first hops of the route in order, none missing and  *)
(* none twice, up to its limit.                                            *)
RouteKept ==
    /\ \A k \in DOMAIN hops : hops[k].num = heard[k]
    /\ pc \notin {"read", "killed"} => Len(hops) = Len(heard) \/ Len(hops) = cap

(* bmtr's statistics, updated sample by sample, fit all the answers a hop  *)
(* gave: they are counted, the extremes are two of them, the average lies  *)
(* between the extremes, the variance is not negative, and the ring holds  *)
(* the latest samples.                                                     *)
StatsExact ==
    \A k \in DOMAIN hops :
       LET a == answers[k]
           n == Len(a)
           kept == agg[k].samples IN
       /\ nsamp[k] = n
       /\ n > 0 => /\ \A j \in 1..n : agg[k].smin <= a[j] /\ a[j] <= agg[k].smax
                   /\ \E j \in 1..n : a[j] = agg[k].smin
                   /\ \E j \in 1..n : a[j] = agg[k].smax
                   /\ n * agg[k].smin <= agg[k].sum /\ agg[k].sum <= n * agg[k].smax
                   /\ n * agg[k].sumsq >= agg[k].sum * agg[k].sum
       /\ Len(kept) = IF n < MAX_SAMPLES THEN n ELSE MAX_SAMPLES
       /\ \A j \in 1..n : j > n - MAX_SAMPLES => kept[((j - 1) % MAX_SAMPLES) + 1] = a[j]

(* Loss rates of different hops can be compared: every hop was probed once *)
(* in every cycle, and only a SIGINT leaves the last cycle short, for the  *)
(* hops behind the one it met.                                             *)
CyclesAgree ==
    \A k \in DOMAIN hops :
       /\ pc \in {"while", "drawn", "report", "done"} /\ Bmtr =>
             nprobes[k] \in {cycle} \cup (IF g_stop THEN {cycle - 1} ELSE {})
       /\ nprobes[k] = nsamp[k] + ntimeout[k]
       /\ \A j \in DOMAIN hops : j < k => nprobes[k] \in {nprobes[j] - 1, nprobes[j]}

(* What bmtr shows: every hop has its row, and a row says all was lost     *)
(* only of a hop that was probed in vain.  The exception is a first cycle  *)
(* that SIGINT or a negative -c kept from being completed: the report      *)
(* shows hops that were never probed as lost.                              *)
RowsTell ==
    Bmtr /\ pc \in {"drawn", "done"} /\ screen # {} /\ cycle > (IF g_stop THEN 1 ELSE 0) =>
       /\ {row.num : row \in screen} = {hops[k].num : k \in DOMAIN hops}
       /\ \A k \in DOMAIN hops : Row(k).loss = 100 => ntimeout[k] > 0 /\ nsamp[k] = 0

(* btraceroute ends; bmtr ends by itself after -c cycles, and soon after   *)
(* SIGINT.                                                                 *)
Ends == (~Bmtr \/ cl.c # 0 \/ g_stop) ~> Stopped

\* How far main is, from reading traceroute to its end.
Phase ==
    CASE pc = "read" -> 4
      [] pc = "locate" -> 3
      [] pc \in {"while", "probe", "drawn"} -> 2
      [] pc = "report" -> 1
      [] OTHER -> 0

\* Lines to read, or cycles to probe: a count below zero and SIGINT leave none
\* but the one being probed.
Rounds ==
    IF pc = "read" THEN (maxhops - seen) + (MaxOther - other)
    ELSE IF g_stop THEN IF pc = "probe" THEN 1 ELSE 0
    ELSE IF cycle < cl.c THEN cl.c - cycle ELSE 0

\* Steps to the end of the round; a cycle is counted where it ends.
Turns ==
    CASE pc = "drawn" -> Len(hops) + 2
      [] pc = "while" -> Len(hops) + 1
      [] pc = "probe" -> Len(hops) + 1 - i
      [] OTHER -> 0

Left == <<IF g_stop THEN 0 ELSE 1, Phase, Rounds, Turns>>

(* Every step of btraceroute, of bmtr with a count, and of bmtr after      *)
(* SIGINT brings its end nearer, whatever the children print and whenever  *)
(* SIGINT comes: the loops of main cannot run on.                          *)
WindsDown == [][~Bmtr \/ cl.c # 0 \/ g_stop' => LexLess(Left', Left)]_vars

(* BSPACE.md:307, "Shows rolling loss%, average RTT, stddev": the figures  *)
(* are those of a window, so the least time shown is one of the samples    *)
(* the window holds.                                                       *)
Rolling ==
    \A k \in DOMAIN hops :
       nsamp[k] > 0 => \E j \in DOMAIN agg[k].samples : agg[k].samples[j] = agg[k].smin
=============================================================================
