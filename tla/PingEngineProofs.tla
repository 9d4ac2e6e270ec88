-------------------------- MODULE PingEngineProofs --------------------------
(***************************************************************************)
(* The probe engine for every count, interval, preload and timeout, with   *)
(* the code's 65536 sequence numbers (and the small moduli TLC runs with). *)
(***************************************************************************)
EXTENDS PingEngine, FiniteSetTheorems, TLAPS

-----------------------------------------------------------------------------
(* Arithmetic modulo SeqMod.  The modulus is split into its values, which  *)
(* leaves the solver linear arithmetic.                                    *)

(* A uint16_t is in range.                                                 *)
LEMMA ModRange ==
    ASSUME NEW x \in Int
    PROVE  U16(x) \in 0 .. SeqMod - 1
  <1>1. SeqMod = 4 => U16(x) \in Int /\ 0 <= U16(x) /\ U16(x) < SeqMod
    BY DEF U16
  <1>2. SeqMod = 8 => U16(x) \in Int /\ 0 <= U16(x) /\ U16(x) < SeqMod
    BY DEF U16
  <1>3. SeqMod = 65536 => U16(x) \in Int /\ 0 <= U16(x) /\ U16(x) < SeqMod
    BY DEF U16
  <1>4. SeqMod \in Int /\ U16(x) \in Int /\ 0 <= U16(x) /\ U16(x) < SeqMod
    BY <1>1, <1>2, <1>3, PingAssumption
  <1> QED
    BY <1>4

(* Fewer than SeqMod probes in a row have different sequence numbers.      *)
LEMMA ModDistinct ==
    ASSUME NEW a \in Int, NEW b \in Int, a < b, b - a < SeqMod
    PROVE  U16(a) # U16(b)
  <1>1. CASE SeqMod = 4
    BY <1>1 DEF U16
  <1>2. CASE SeqMod = 8
    BY <1>2 DEF U16
  <1>3. CASE SeqMod = 65536
    BY <1>3 DEF U16
  <1> QED
    BY <1>1, <1>2, <1>3, PingAssumption

(* Inside half the sequence space a difference of sequence numbers is the  *)
(* difference of the probes, and acked is not taken for overrun.           *)
LEMMA WindowExact ==
    ASSUME NEW nt \in Nat, NEW t \in Nat, t <= nt, nt - t < Half
    PROVE  /\ U16(Behind(nt, U16(t))) = nt - t
           /\ Behind(nt, U16(t)) < Half
  <1>1. CASE SeqMod = 4
    BY <1>1 DEF U16, Behind, Half
  <1>2. CASE SeqMod = 8
    BY <1>2 DEF U16, Behind, Half
  <1>3. CASE SeqMod = 65536
    BY <1>3 DEF U16, Behind, Half
  <1> QED
    BY <1>1, <1>2, <1>3, PingAssumption

(* Sequence numbers compare like their probes, for a probe inside the      *)
(* window and the newest answered one; a probe outside it is recognised.   *)
LEMMA CompareExact ==
    ASSUME NEW nt \in Nat, NEW t \in Nat, NEW n \in Nat,
           t <= nt, nt - t < Half, n <= nt, nt - n < SeqMod
    PROVE  /\ (U16(U16(nt) - U16(n)) < Half) <=> (nt - n < Half)
           /\ nt - n < Half => ((S16(U16(n) - U16(t)) > 0) <=> (n > t))
  <1>1. CASE SeqMod = 4
    BY <1>1 DEF U16, S16, Half
  <1>2. CASE SeqMod = 8
    BY <1>2 DEF U16, S16, Half
  <1>3. CASE SeqMod = 65536
    BY <1>3 DEF U16, S16, Half
  <1> QED
    BY <1>1, <1>2, <1>3, PingAssumption

(* A token bucket of Preload probes is one probe and Preload - 1 more.     *)
LEMMA BurstSplit ==
    /\ Burst \in Nat
    /\ Interval * (Preload - 1) \in Nat
    /\ Interval * (Preload - 1) = Burst - Interval
  <1>1. PICK k \in Nat : Preload = k + 1
    BY PingAssumption
  <1>2. Interval * (k + 1) = Interval * k + Interval /\ Interval * k \in Nat
    BY PingAssumption
  <1> QED
    BY <1>1, <1>2, PingAssumption DEF Burst

(* The modulus and half of it.                                             *)
LEMMA Moduli == SeqMod \in Nat /\ Half \in Nat /\ Half > 0 /\ Half < SeqMod
  <1>1. SeqMod = 4 => Half = 2
    BY DEF Half
  <1>2. SeqMod = 8 => Half = 4
    BY DEF Half
  <1>3. SeqMod = 65536 => Half = 32768
    BY DEF Half
  <1> QED
    BY <1>1, <1>2, <1>3, PingAssumption

-----------------------------------------------------------------------------
(* What the steps have in common.                                          *)

Sends ==
    \/ SendOk \/ SendNoBufs \/ SendAgain \/ SendTooLong \/ SendLocalError
    \/ \E n \in wire : SendIcmpError(n)

(* The send was counted: ntransmitted advanced from acked = a, top = t.    *)
Counted(a, t) ==
    /\ advance_ntransmitted(a, t)
    /\ bucket' = bucket - Interval

(* pinger()'s three outcomes: sent; not sent and to be tried again; failed *)
(* and counted as sent.                                                    *)
LEMMA SendShape ==
    ASSUME Sends, nerrors \in Nat
    PROVE  /\ Attempt
           /\ \E next \in {Interval - Change, nores_interval, MinInterval,
                            SCHINT(Interval)} : Scheduled(next)
           /\ \/ /\ Counted(acked, top) /\ tokens' = Change
                 /\ wire' = Young(wire \union {ntransmitted + 1}, ntransmitted + 1)
                 /\ UNCHANGED <<nerrors, localq, faults>>
              \/ /\ UNCHANGED <<ntransmitted, acked, lapsed, wire, bucket, top,
                                 nerrors, localq>>
                 /\ tokens' \in {0, Change + Interval}
                 /\ faults' = faults \/ (faults > 0 /\ faults' = faults - 1)
              \/ /\ \/ Counted(acked, top)
                    \/ \E n \in wire : AckErrors /\ Counted(acknowledge(n), Newest(n))
                 /\ wire' = Young(wire, ntransmitted + 1)
                 /\ tokens' = 0
                 /\ nerrors' \in {nerrors, nerrors + 1}
                 /\ localq' = localq \/ localq' = localq + 1
                        \/ (localq > 0 /\ localq' = localq - 1)
                 /\ faults' = faults \/ (faults > 0 /\ faults' = faults - 1)
           /\ oom' \in {0, oom, oom + 1}
  <1>1. CASE SendOk
    BY <1>1 DEF SendOk, Counted
  <1>2. CASE SendNoBufs
    BY <1>2 DEF SendNoBufs, HardLocalError, Counted
  <1>3. CASE SendAgain
    BY <1>3 DEF SendAgain
  <1>4. CASE SendTooLong
    BY <1>4 DEF SendTooLong, HardLocalError, Counted
  <1>5. CASE SendLocalError
    BY <1>5 DEF SendLocalError, HardLocalError, Counted
  <1>6. ASSUME NEW n \in wire, SendIcmpError(n)
        PROVE  /\ Attempt /\ Scheduled(SCHINT(Interval)) /\ tokens' = 0
               /\ \/ Counted(acked, top)
                  \/ AckErrors /\ Counted(acknowledge(n), Newest(n))
               /\ wire' = Young(wire, ntransmitted + 1)
               /\ nerrors' = nerrors + 1 /\ localq' = localq
               /\ faults > 0 /\ faults' = faults - 1 /\ oom' = oom
    BY <1>6 DEF SendIcmpError, HardLocalError, Counted
  <1> QED
    BY <1>1, <1>2, <1>3, <1>4, <1>5, <1>6 DEF Sends

Receives ==
    \/ \E n \in wire, rtt \in Rtts : Reply(n, rtt)
    \/ CorruptReply
    \/ \E n \in wire : ErrorPacket(n) \/ IcmpError(n) \/ IcmpError6(n)
    \/ LocalError \/ NotOurs \/ NotOurs6

(* A packet or an error is received: acked moves only by acknowledge(),    *)
(* and only a reply touches what is counted.                               *)
LEMMA ReceiveShape ==
    ASSUME Receives, nerrors \in Nat
    PROVE  /\ UNCHANGED Kept
           /\ Receiving /\ Again
           /\ \/ UNCHANGED <<acked, top>>
              \/ \E n \in wire : acked' = acknowledge(n) /\ top' = Newest(n)
           /\ \/ UNCHANGED <<nreceived, nrepeats, rcvd, answered, tmax>>
              \/ \E n \in wire, rtt \in Rtts : Reply(n, rtt)
           /\ nchecksum' \in {nchecksum, nchecksum + 1}
           /\ nerrors' \in {nerrors, nerrors + 1}
           /\ localq' = localq \/ (localq > 0 /\ localq' = localq - 1)
           /\ faults' = faults \/ (faults > 0 /\ faults' = faults - 1)
  <1>1. ASSUME NEW n \in wire, NEW rtt \in Rtts, Reply(n, rtt)
        PROVE  /\ UNCHANGED Kept /\ Receiving /\ Again
               /\ acked' = acknowledge(n) /\ top' = Newest(n)
               /\ UNCHANGED <<nchecksum, nerrors, localq>>
               /\ faults' = faults \/ (faults > 0 /\ faults' = faults - 1)
    BY <1>1 DEF Reply
  <1>2. CASE CorruptReply
    BY <1>2 DEF CorruptReply
  <1>4. CASE LocalError
    BY <1>4 DEF LocalError
  <1>5. CASE NotOurs \/ NotOurs6
    BY <1>5 DEF NotOurs, NotOurs6, stats
  <1>3. ASSUME NEW n \in wire, ErrorPacket(n) \/ IcmpError(n) \/ IcmpError6(n)
        PROVE  /\ UNCHANGED Kept /\ Receiving /\ Again
               /\ \/ UNCHANGED <<acked, top>>
                  \/ acked' = acknowledge(n) /\ top' = Newest(n)
               /\ UNCHANGED <<nreceived, nrepeats, rcvd, answered, tmax>>
               /\ UNCHANGED <<nchecksum, localq>>
               /\ nerrors' \in {nerrors, nerrors + 1}
               /\ faults > 0 /\ faults' = faults - 1
    BY <1>3 DEF ErrorPacket, IcmpError, IcmpError6, stats
  <1> QED
    BY <1>1, <1>2, <1>3, <1>4, <1>5 DEF Receives

(* The steps that neither send nor receive nor let time pass.              *)
Moves == Top \/ PingerDone \/ PingerHeld \/ Nothing \/ SigAlarm \/ SigInt

(* They leave the counters, the window and the rate limiter alone.         *)
LEMMA MoveShape ==
    ASSUME Moves
    PROVE  UNCHANGED <<ntransmitted, nreceived, nrepeats, nchecksum, nerrors,
                       tmax, acked, rcvd, tokens, oom, elapsed, wire, localq,
                       faults, answered, bucket, top, lapsed>>
    BY DEF Moves, Top, PingerDone, PingerHeld, Nothing, SigAlarm, SigInt,
           sigexit, Kept, stats, env

(* Every step is one of these, a tick, or no step.                         *)
LEMMA NextShape ==
    ASSUME [Next]_vars
    PROVE  Sends \/ Receives \/ Moves \/ Tick \/ UNCHANGED vars
    BY DEF Next, Process, Sends, Receives, Moves, Finished

-----------------------------------------------------------------------------
(* Type correctness.                                                       *)

(* The tokens left after a probe is paid for are a natural number.         *)
LEMMA ChangeNat ==
    ASSUME TypeOK, ~Held
    PROVE  Change \in Nat
  <1>1. CASE elapsed = Unset
    BY <1>1, BurstSplit DEF Change
  <1>2. CASE elapsed # Unset
    <2>1. elapsed \in Nat /\ tokens \in Nat /\ ~(ntokens < Interval)
      BY <1>2 DEF TypeOK, Held
    <2>2. ntokens \in Nat
      BY <2>1, BurstSplit DEF ntokens, Lesser
    <2> QED
      BY <1>2, <2>1, <2>2, PingAssumption DEF Change
  <1> QED
    BY <1>1, <1>2

(* What schedule_exit() and the choice of the timeout leave.               *)
LEMMA ScheduledType ==
    ASSUME TypeOK, NEW next \in Int, Scheduled(next)
    PROVE  /\ pc' \in {"pinger", "wait"} /\ armed' \in BOOLEAN
           /\ alarm' \in Nat \union {NoAlarm} /\ wake' \in Nat
  <1>1. WaitTime \in Nat
    BY PingAssumption DEF TypeOK, WaitTime, Greater
  <1>2. \A e : \A d \in Int : d > 0 => Patience(d, e) \in Nat
    BY PingAssumption DEF Patience, SCHINT
  <1>3. pc' \in {"pinger", "wait"}
    BY DEF Scheduled
  <1>4. armed' \in BOOLEAN
    BY DEF Scheduled
  <1>5. alarm' \in Nat \union {NoAlarm}
    BY <1>1 DEF Scheduled, TypeOK
  <1>6. wake' \in Nat
    BY <1>1, <1>2 DEF Scheduled, Greater
  <1> QED
    BY <1>3, <1>4, <1>5, <1>6

(* A probe's acknowledgement leaves acked a uint16_t and top a probe sent. *)
LEMMA AckType ==
    ASSUME TypeOK, NEW n \in wire
    PROVE  acknowledge(n) \in 0 .. SeqMod - 1 /\ Newest(n) \in 0 .. ntransmitted
  <1>1. n \in Nat /\ n <= ntransmitted /\ ntransmitted \in Nat
    BY DEF TypeOK
  <1>2. U16(n) \in 0 .. SeqMod - 1
    BY <1>1, ModRange
  <1>3. acknowledge(n) \in 0 .. SeqMod - 1
    BY <1>2 DEF acknowledge, TypeOK
  <1>4. Newest(n) \in 0 .. ntransmitted
    BY <1>1 DEF Newest, TypeOK
  <1> QED
    BY <1>3, <1>4

(* Counting a probe as sent keeps the window's types.                      *)
LEMMA CountedType ==
    ASSUME TypeOK, NEW a \in 0 .. SeqMod - 1, NEW t \in 0 .. ntransmitted,
           Counted(a, t)
    PROVE  /\ ntransmitted' = ntransmitted + 1 /\ ntransmitted' \in Nat
           /\ acked' \in 0 .. SeqMod - 1
           /\ top' \in 0 .. ntransmitted'
           /\ lapsed' \in BOOLEAN /\ bucket' \in Int
  <1>1. ntransmitted \in Nat /\ bucket \in Int /\ Interval \in Nat
    BY PingAssumption DEF TypeOK
  <1>2. ntransmitted' = ntransmitted + 1 /\ ntransmitted' \in Nat
    BY <1>1 DEF Counted, advance_ntransmitted
  <1>3. U16(ntransmitted + 1) \in Int
    BY <1>1, ModRange
  <1>4. U16(U16(ntransmitted + 1) + 1) \in 0 .. SeqMod - 1
    BY <1>3, ModRange
  <1>5. acked' \in 0 .. SeqMod - 1
    BY <1>4 DEF Counted, advance_ntransmitted
  <1>6. top' \in 0 .. ntransmitted'
    BY <1>1, <1>2 DEF Counted, advance_ntransmitted
  <1>7. lapsed' \in BOOLEAN
    BY DEF Counted, advance_ntransmitted
  <1>8. bucket' \in Int
    BY <1>1 DEF Counted
  <1> QED
    BY <1>2, <1>5, <1>6, <1>7, <1>8

(* A send keeps the types.                                                 *)
LEMMA SendType == TypeOK /\ Sends => TypeOK'
  <1> SUFFICES ASSUME TypeOK, Sends PROVE TypeOK'
    OBVIOUS
  <1>1. nerrors \in Nat /\ localq \in Nat /\ faults \in Nat /\ oom \in Nat
    BY DEF TypeOK
  <1>2. Attempt
    BY <1>1, SendShape
  <1>3. Change \in Nat /\ Interval \in Nat
    BY <1>2, ChangeNat, PingAssumption DEF Attempt
  <1>4. PICK next \in {Interval - Change, nores_interval, MinInterval,
                       SCHINT(Interval)} : Scheduled(next)
    BY <1>1, SendShape
  <1>5. nores_interval \in Int
    BY PingAssumption DEF nores_interval, Lesser, SCHINT
  <1>6. next \in Int
    BY <1>3, <1>4, <1>5, PingAssumption DEF SCHINT
  <1>7. /\ pc' \in {"pinger", "wait"} /\ armed' \in BOOLEAN
        /\ alarm' \in Nat \union {NoAlarm} /\ wake' \in Nat
    BY <1>4, <1>6, ScheduledType
  <1>8. /\ UNCHANGED <<nreceived, nrepeats, nchecksum, tmax, exiting, answered>>
        /\ elapsed' = 0 /\ rcvd' \subseteq 0 .. SeqMod - 1
    BY <1>2, Zenon DEF Attempt, TypeOK
  <1>9. tokens' \in Nat
    BY <1>1, <1>3, SendShape
  <1>10. oom' \in Nat /\ nerrors' \in Nat
    BY <1>1, SendShape
  <1>11. localq' \in Nat /\ faults' \in Nat
    BY <1>1, SendShape
  <1>12. \/ UNCHANGED <<ntransmitted, acked, lapsed, wire, bucket, top>>
         \/ /\ ntransmitted' = ntransmitted + 1 /\ ntransmitted' \in Nat
            /\ acked' \in 0 .. SeqMod - 1
            /\ top' \in 0 .. ntransmitted'
            /\ lapsed' \in BOOLEAN /\ bucket' \in Int
            /\ wire' \subseteq wire \union {ntransmitted + 1}
    <2>1. acked \in 0 .. SeqMod - 1 /\ top \in 0 .. ntransmitted
      BY DEF TypeOK
    <2>2. ASSUME Counted(acked, top)
          PROVE  /\ ntransmitted' = ntransmitted + 1 /\ ntransmitted' \in Nat
                 /\ acked' \in 0 .. SeqMod - 1
                 /\ top' \in 0 .. ntransmitted'
                 /\ lapsed' \in BOOLEAN /\ bucket' \in Int
      BY <2>1, <2>2, CountedType
    <2>3. ASSUME NEW n \in wire, Counted(acknowledge(n), Newest(n))
          PROVE  /\ ntransmitted' = ntransmitted + 1 /\ ntransmitted' \in Nat
                 /\ acked' \in 0 .. SeqMod - 1
                 /\ top' \in 0 .. ntransmitted'
                 /\ lapsed' \in BOOLEAN /\ bucket' \in Int
      BY <2>3, AckType, CountedType
    <2>4. \A ns, nt : Young(ns, nt) \subseteq ns
      BY DEF Young
    <2> QED
      BY <1>1, <2>2, <2>3, <2>4, SendShape
  <1>13. /\ ntransmitted' \in Nat /\ acked' \in 0 .. SeqMod - 1
         /\ top' \in 0 .. ntransmitted' /\ bucket' \in Int
    BY <1>12 DEF TypeOK
  <1>14. lapsed' \in BOOLEAN
    BY <1>12 DEF TypeOK
  <1>15. wire' \subseteq 1 .. ntransmitted' /\ answered' \subseteq 1 .. ntransmitted'
    <2>1. /\ wire \subseteq 1 .. ntransmitted /\ answered \subseteq 1 .. ntransmitted
          /\ ntransmitted \in Nat
      BY DEF TypeOK
    <2>2. CASE UNCHANGED <<ntransmitted, wire>>
      BY <1>8, <2>1, <2>2
    <2>3. CASE /\ ntransmitted' = ntransmitted + 1
               /\ wire' \subseteq wire \union {ntransmitted + 1}
      <3>1. 1 .. ntransmitted \subseteq 1 .. ntransmitted + 1
        BY <2>1
      <3>2. ntransmitted + 1 \in 1 .. ntransmitted + 1
        BY <2>1
      <3> QED
        BY <1>8, <2>1, <2>3, <3>1, <3>2
    <2> QED
      BY <1>12, <2>2, <2>3
  <1> QED
    BY <1>7, <1>8, <1>9, <1>10, <1>11, <1>13, <1>14, <1>15 DEF TypeOK

(* A received packet or error keeps the types.                             *)
LEMMA ReceiveType == TypeOK /\ Receives => TypeOK'
  <1> SUFFICES ASSUME TypeOK, Receives PROVE TypeOK'
    OBVIOUS
  <1>1. nerrors \in Nat /\ localq \in Nat /\ faults \in Nat /\ nchecksum \in Nat
    BY DEF TypeOK
  <1>2. UNCHANGED Kept /\ Again
    BY <1>1, ReceiveShape
  <1>3. UNCHANGED <<ntransmitted, tokens, oom, elapsed, exiting, armed, alarm,
                    wire, bucket, lapsed>>
    BY <1>2 DEF Kept
  <1>4. pc' \in {"top", "recv"} /\ wake' = 0
    BY <1>2 DEF Again
  <1>5. nerrors' \in Nat /\ nchecksum' \in Nat
    BY <1>1, ReceiveShape
  <1>6. localq' \in Nat /\ faults' \in Nat
    BY <1>1, ReceiveShape
  <1>7. acked' \in 0 .. SeqMod - 1 /\ top' \in 0 .. ntransmitted
    <2>1. CASE UNCHANGED <<acked, top>>
      BY <2>1 DEF TypeOK
    <2>2. CASE \E n \in wire : acked' = acknowledge(n) /\ top' = Newest(n)
      BY <2>2, AckType
    <2> QED
      BY <1>1, <2>1, <2>2, ReceiveShape
  <1>8. /\ nreceived' \in Nat /\ nrepeats' \in Nat /\ tmax' \in Nat
        /\ rcvd' \subseteq 0 .. SeqMod - 1
        /\ answered' \subseteq 1 .. ntransmitted
    <2>1. CASE UNCHANGED <<nreceived, nrepeats, rcvd, answered, tmax>>
      BY <2>1 DEF TypeOK
    <2>2. ASSUME NEW n \in wire, NEW rtt \in Rtts, Reply(n, rtt)
          PROVE  /\ nreceived' \in Nat /\ nrepeats' \in Nat /\ tmax' \in Nat
                 /\ rcvd' \subseteq 0 .. SeqMod - 1
                 /\ answered' \subseteq 1 .. ntransmitted
      <3>1. n \in 1 .. ntransmitted /\ n \in Int /\ rtt \in Nat
        BY PingAssumption DEF TypeOK
      <3>2. U16(n) \in 0 .. SeqMod - 1
        BY <3>1, ModRange
      <3>3. nreceived' \in Nat /\ nrepeats' \in Nat
        BY <2>2 DEF Reply, TypeOK
      <3>4. tmax' \in Nat
        BY <2>2, <3>1 DEF Reply, Greater, TypeOK
      <3>5. rcvd' \subseteq 0 .. SeqMod - 1 /\ answered' \subseteq 1 .. ntransmitted
        BY <2>2, <3>1, <3>2, Zenon DEF Reply, TypeOK
      <3> QED
        BY <3>3, <3>4, <3>5
    <2> QED
      BY <1>1, <2>1, <2>2, ReceiveShape
  <1> QED
    BY <1>3, <1>4, <1>5, <1>6, <1>7, <1>8 DEF TypeOK

(* The remaining steps keep the types.                                     *)
LEMMA MoveType == TypeOK /\ Moves => TypeOK'
  <1> SUFFICES ASSUME TypeOK, Moves PROVE TypeOK'
    OBVIOUS
  <1>1. /\ pc' \in {"top", "pinger", "wait", "recv", "done"}
        /\ armed' \in BOOLEAN /\ exiting' \in BOOLEAN
        /\ alarm' \in Nat \union {NoAlarm} /\ wake' \in Nat
    <2>1. CASE Top
      BY <2>1 DEF Top, TypeOK
    <2>2. CASE PingerDone
      <3>1. MaxNap \in Int /\ Scheduled(MaxNap) /\ UNCHANGED exiting
        BY <2>2 DEF PingerDone, MaxNap
      <3> QED
        BY <3>1, ScheduledType DEF TypeOK
    <2>3. CASE PingerHeld
      <3>1. elapsed \in Nat /\ tokens \in Nat
        BY <2>3 DEF PingerHeld, Held, TypeOK
      <3>2. ntokens \in Int
        BY <3>1, BurstSplit DEF ntokens, Lesser
      <3>3. PICK next \in {MinInterval - elapsed, Interval - ntokens} :
               Scheduled(next)
        BY <2>3 DEF PingerHeld
      <3>4. next \in Int /\ UNCHANGED exiting
        BY <2>3, <3>1, <3>2, <3>3, PingAssumption DEF PingerHeld
      <3> QED
        BY <3>3, <3>4, ScheduledType DEF TypeOK
    <2>4. CASE Nothing
      BY <2>4 DEF Nothing, Kept, TypeOK
    <2>5. CASE SigAlarm \/ SigInt
      BY <2>5, Zenon DEF SigAlarm, SigInt, sigexit, TypeOK
    <2> QED
      BY <2>1, <2>2, <2>3, <2>4, <2>5 DEF Moves
  <1> QED
    BY <1>1, MoveShape, Zenon DEF TypeOK

(* So does the passing of time.                                            *)
LEMMA TickType == TypeOK /\ Tick => TypeOK'
  <1> SUFFICES ASSUME TypeOK, Tick PROVE TypeOK'
    OBVIOUS
  <1>1. wake' \in Nat /\ alarm' \in Nat \union {NoAlarm}
    BY DEF Tick, TypeOK, Greater, NoAlarm
  <1>2. elapsed' \in Nat \union {Unset} /\ bucket' \in Int
    BY BurstSplit, PingAssumption DEF Tick, TypeOK, Lesser, Greater
  <1> QED
    BY <1>1, <1>2 DEF Tick, TypeOK, stats, env

(* Types of the counters, the window, the timers and the network, for      *)
(* every setting of the options.                                           *)
THEOREM TypeCorrect == Spec => []TypeOK
  <1>1. Init => TypeOK
    <2>1. Deadline \in Nat /\ MaxFaults \in Nat
      BY PingAssumption
    <2>2. 0 \in 0 .. SeqMod - 1
      BY Moduli
    <2> SUFFICES ASSUME Init PROVE TypeOK
      OBVIOUS
    <2>3. alarm \in Nat \union {NoAlarm} /\ elapsed \in Nat \union {Unset}
      BY <2>1 DEF Init
    <2>4. top \in 0 .. ntransmitted /\ bucket \in Int /\ wake \in Nat
      BY BurstSplit DEF Init
    <2>5. /\ wire \subseteq 1 .. ntransmitted /\ answered \subseteq 1 .. ntransmitted
          /\ acked \in 0 .. SeqMod - 1 /\ rcvd \subseteq 0 .. SeqMod - 1
      BY <2>2 DEF Init
    <2>6. exiting \in BOOLEAN /\ armed \in BOOLEAN /\ lapsed \in BOOLEAN
      BY Zenon DEF Init
    <2> QED
      BY <2>1, <2>3, <2>4, <2>5, <2>6 DEF Init, TypeOK
  <1>2. TypeOK /\ [Next]_vars => TypeOK'
    <2>1. TypeOK /\ UNCHANGED vars => TypeOK'
      BY DEF vars, stats, env, TypeOK
    <2> QED
      BY <2>1, NextShape, SendType, ReceiveType, MoveType, TickType
  <1> QED
    BY <1>1, <1>2, PTL DEF Spec

-----------------------------------------------------------------------------
(* The rate limiter.                                                       *)

(* pinger()'s own tokens, with those the time since cur_time is worth,     *)
(* never exceed what the reference bucket holds.                           *)
RateInv ==
    /\ 0 <= bucket /\ bucket <= Burst
    /\ elapsed = Unset => bucket = Burst
    /\ elapsed # Unset => ntokens <= bucket

(* Every step keeps pinger() within the reference bucket.                  *)
LEMMA NextRateInv == TypeOK /\ RateInv /\ [Next]_vars => RateInv'
  <1> SUFFICES ASSUME TypeOK, RateInv, [Next]_vars PROVE RateInv'
    OBVIOUS
  <1>1. /\ bucket \in Int /\ tokens \in Nat /\ elapsed \in Nat \union {Unset}
        /\ nerrors \in Nat
    BY DEF TypeOK
  <1>2. Burst \in Nat /\ Interval \in Nat /\ MinInterval \in Nat
    BY BurstSplit, PingAssumption
  <1>3. CASE Sends
    <2>1. Attempt
      BY <1>1, <1>3, SendShape
    <2>2. elapsed' = 0
      BY <2>1 DEF Attempt
    <2>3. Change \in Nat
      BY <2>1, ChangeNat DEF Attempt
    <2>4. Change + Interval <= bucket
      <3>1. CASE elapsed = Unset
        BY <1>1, <1>2, <3>1, BurstSplit DEF Change, RateInv
      <3>2. CASE elapsed # Unset
        <4>1. ntokens \in Int
          BY <1>1, <1>2, <3>2 DEF ntokens, Lesser
        <4> QED
          BY <1>1, <1>2, <3>2, <4>1 DEF Change, RateInv
      <3> QED
        BY <3>1, <3>2
    <2>5. \/ bucket' = bucket - Interval /\ tokens' \in {0, Change}
          \/ bucket' = bucket /\ tokens' \in {0, Change + Interval}
      BY <1>1, <1>3, SendShape DEF Counted
    <2>6. 0 <= bucket' /\ bucket' <= Burst /\ tokens' <= bucket' /\ tokens' \in Nat
      BY <1>1, <1>2, <2>3, <2>4, <2>5 DEF RateInv
    <2>7. ntokens' <= bucket'
      <3>1. Burst' = Burst
        BY DEF Burst
      <3>2. ntokens' = Lesser(tokens', Burst)
        BY <2>2, <2>6, <3>1 DEF ntokens
      <3>3. bucket' \in Int
        BY <1>1, <1>2, <2>3, <2>5
      <3> QED
        BY <1>2, <2>6, <3>2, <3>3 DEF Lesser
    <2> QED
      BY <2>2, <2>6, <2>7 DEF RateInv, Unset, Burst
  <1>4. CASE Tick
    <2>1. bucket' = Lesser(bucket + 1, Burst) /\ tokens' = tokens
      BY <1>4 DEF Tick
    <2>2. elapsed = Unset => elapsed' = Unset
      BY <1>4 DEF Tick
    <2>3. elapsed # Unset =>
             /\ elapsed' = Lesser(elapsed + 1, Greater(Burst, MinInterval))
             /\ elapsed' # Unset
      BY <1>1, <1>2, <1>4 DEF Tick, Lesser, Greater, Unset
    <2>4. 0 <= bucket' /\ bucket' <= Burst /\ bucket' \in Int
      BY <1>1, <1>2, <2>1 DEF RateInv, Lesser
    <2>5. elapsed = Unset => bucket' = Burst
      BY <1>1, <1>2, <2>1 DEF RateInv, Lesser
    <2>6. elapsed # Unset => ntokens' <= bucket'
      BY <1>1, <1>2, <2>1, <2>3 DEF RateInv, ntokens, Lesser, Greater, Burst
    <2> QED
      BY <2>2, <2>3, <2>4, <2>5, <2>6 DEF RateInv, Burst
  <1>5. CASE UNCHANGED <<elapsed, tokens, bucket>>
    BY <1>5 DEF RateInv, ntokens, Lesser, Burst
  <1>6. Receives \/ Moves => UNCHANGED <<elapsed, tokens, bucket>>
    BY <1>1, ReceiveShape, MoveShape DEF Kept
  <1>7. UNCHANGED vars => UNCHANGED <<elapsed, tokens, bucket>>
    BY DEF vars
  <1> QED
    BY <1>3, <1>4, <1>5, <1>6, <1>7, NextShape

(* "packets < rate*time + preload": in every stretch of every run, for     *)
(* every interval and preload, whatever sends fail and replies come.       *)
THEOREM RateLimited == Spec => []RateBound
  <1>1. Init => RateInv
    BY BurstSplit DEF Init, RateInv, Unset
  <1>2. RateInv => RateBound
    BY DEF RateInv, RateBound
  <1> QED
    BY <1>1, <1>2, NextRateInv, TypeCorrect, PTL DEF Spec

-----------------------------------------------------------------------------
(* The end of a run.                                                       *)

(* With -c and no -w no more than count probes are sent.                   *)
THEOREM CountRespected == Spec => []NeverTooMany
  <1>1. Init => NeverTooMany
    BY PingAssumption DEF Init, NeverTooMany
  <1>2. TypeOK /\ NeverTooMany /\ [Next]_vars => NeverTooMany'
    <2> SUFFICES ASSUME TypeOK, NeverTooMany, [Next]_vars PROVE NeverTooMany'
      OBVIOUS
    <2>1. ntransmitted \in Nat /\ nerrors \in Nat /\ NPackets \in Nat
      BY PingAssumption DEF TypeOK
    <2>2. CASE Sends
      <3>1. ~SentEnough
        BY <2>1, <2>2, SendShape DEF Attempt
      <3>2. ntransmitted' \in {ntransmitted, ntransmitted + 1}
        BY <2>1, <2>2, SendShape DEF Counted, advance_ntransmitted
      <3> QED
        BY <2>1, <3>1, <3>2 DEF SentEnough, NeverTooMany
    <2>3. CASE UNCHANGED ntransmitted
      BY <2>3 DEF NeverTooMany
    <2>4. Receives \/ Moves => UNCHANGED ntransmitted
      BY <2>1, ReceiveShape, MoveShape DEF Kept
    <2>5. Tick \/ UNCHANGED vars => UNCHANGED ntransmitted
      BY DEF Tick, vars
    <2> QED
      BY <2>2, <2>3, <2>4, <2>5, NextShape
  <1> QED
    BY <1>1, <1>2, TypeCorrect, PTL DEF Spec

(* The timer that ends the run is pending once it is armed, and armed      *)
(* before main_loop blocks with nothing left to send.                      *)
ExitInv ==
    /\ armed => alarm # NoAlarm \/ exiting
    /\ pc = "wait" /\ NPackets > 0 /\ ntransmitted >= NPackets /\ Deadline = 0
          => armed

(* What Scheduled leaves, when the time to wait is never 0.                *)
LEMMA ScheduledExit ==
    ASSUME Interval > 0, Linger > 0, TypeOK, ExitInv, UNCHANGED exiting,
           NEW next \in Int, Scheduled(next)
    PROVE  ExitInv'
  <1>1. WaitTime \in Nat /\ WaitTime > 0
    BY PingAssumption DEF TypeOK, WaitTime, Greater
  <1>2. armed' => alarm' # NoAlarm \/ exiting'
    <2>1. \/ alarm' = WaitTime
          \/ alarm' = alarm /\ (armed' => armed)
      BY <1>1, Zenon DEF Scheduled
    <2>2. alarm' = WaitTime => alarm' # NoAlarm
      BY <1>1 DEF NoAlarm
    <2> QED
      BY <2>1, <2>2 DEF ExitInv
  <1>3. NPackets > 0 /\ ntransmitted' >= NPackets /\ Deadline = 0 => armed'
    BY <1>1, Zenon DEF Scheduled
  <1> QED
    BY <1>2, <1>3 DEF ExitInv

(* Every step keeps the exit timer's invariant.                            *)
LEMMA NextExitInv ==
    ASSUME Interval > 0, Linger > 0
    PROVE  TypeOK /\ ExitInv /\ [Next]_vars => ExitInv'
  <1> SUFFICES ASSUME TypeOK, ExitInv, [Next]_vars PROVE ExitInv'
    OBVIOUS
  <1>1. nerrors \in Nat
    BY DEF TypeOK
  <1>2. CASE Sends
    <2>1. Attempt
      BY <1>1, <1>2, SendShape
    <2>2. Change \in Nat /\ UNCHANGED exiting
      BY <2>1, ChangeNat DEF Attempt
    <2>3. PICK next \in {Interval - Change, nores_interval, MinInterval,
                         SCHINT(Interval)} : Scheduled(next)
      BY <1>1, <1>2, SendShape
    <2>4. nores_interval \in Int
      BY PingAssumption DEF nores_interval, Lesser, SCHINT
    <2>5. next \in Int
      BY <2>2, <2>3, <2>4, PingAssumption DEF SCHINT
    <2> QED
      BY <2>2, <2>3, <2>5, ScheduledExit
  <1>3. CASE Receives
    <2>1. pc' # "wait" /\ UNCHANGED <<armed, alarm, exiting>>
      BY <1>1, <1>3, ReceiveShape DEF Again, Kept
    <2> QED
      BY <2>1 DEF ExitInv
  <1>4. CASE Top \/ Nothing
    BY <1>4 DEF Top, Nothing, Kept, ExitInv
  <1>5. CASE PingerDone
    <2>1. MaxNap \in Int /\ Scheduled(MaxNap) /\ UNCHANGED exiting
      BY <1>5 DEF PingerDone, MaxNap
    <2> QED
      BY <2>1, ScheduledExit
  <1>6. CASE PingerHeld
    <2>1. elapsed \in Nat /\ tokens \in Nat
      BY <1>6 DEF PingerHeld, Held, TypeOK
    <2>2. ntokens \in Int
      BY <2>1, BurstSplit DEF ntokens, Lesser
    <2>3. PICK next \in {MinInterval - elapsed, Interval - ntokens} :
             Scheduled(next)
      BY <1>6 DEF PingerHeld
    <2>4. next \in Int /\ UNCHANGED exiting
      BY <1>6, <2>1, <2>2, <2>3, PingAssumption DEF PingerHeld
    <2> QED
      BY <2>3, <2>4, ScheduledExit
  <1>7. CASE SigAlarm \/ SigInt
    BY <1>7 DEF SigAlarm, SigInt, sigexit, ExitInv
  <1>8. CASE Tick
    <2>1. alarm # NoAlarm => alarm' # NoAlarm
      BY <1>8 DEF Tick, TypeOK, NoAlarm
    <2> QED
      BY <1>8, <2>1 DEF Tick, ExitInv
  <1>9. CASE UNCHANGED vars
    BY <1>9 DEF vars, ExitInv
  <1> QED
    BY <1>2, <1>3, <1>4, <1>5, <1>6, <1>7, <1>8, <1>9, NextShape DEF Moves

(* With an interval and a -W that are not 0, main_loop never blocks after  *)
(* its last probe without a timer that ends the run.                       *)
THEOREM ExitIsArmed ==
    ASSUME Interval > 0, Linger > 0
    PROVE  Spec => []ExitArmed
  <1>1. Init => ExitInv
    BY DEF Init, ExitInv
  <1>2. ExitInv => ExitArmed
    BY DEF ExitInv, ExitArmed
  <1> QED
    BY <1>1, <1>2, NextExitInv, TypeCorrect, PTL DEF Spec

-----------------------------------------------------------------------------
(* The window of unanswered probes.                                        *)

(* A reply comes while its sequence number has not been used again, nor is *)
(* about to be.                                                            *)
FreshReplies == MaxAge < SeqMod

(* No probe on the wire is older than MaxAge.                              *)
AgeInv == \A n \in wire : ntransmitted - n < MaxAge

(* acked is the sequence number of the newest probe answered.              *)
WindowInv ==
    ~lapsed => ntransmitted - top < Half /\ acked = U16(top)

(* acknowledge() follows the newest answered probe.                        *)
LEMMA AckExact ==
    ASSUME FreshReplies, TypeOK, WindowInv, ~lapsed,
           NEW n \in wire, ntransmitted - n < MaxAge
    PROVE  acknowledge(n) = U16(Newest(n)) /\ ntransmitted - Newest(n) < Half
  <1>1. /\ n \in Nat /\ n <= ntransmitted /\ ntransmitted \in Nat
        /\ top \in Nat /\ top <= ntransmitted
    BY DEF TypeOK
  <1>2. ntransmitted - n < SeqMod /\ SeqMod \in Nat /\ Half \in Nat
    BY <1>1, Moduli, PingAssumption DEF FreshReplies
  <1>3. acked = U16(top) /\ ntransmitted - top < Half
    BY DEF WindowInv
  <1>4. /\ (U16(U16(ntransmitted) - U16(n)) < Half) <=> (ntransmitted - n < Half)
        /\ ntransmitted - n < Half => ((S16(U16(n) - acked) > 0) <=> (n > top))
    BY <1>1, <1>2, <1>3, CompareExact
  <1>5. ~(Behind(ntransmitted, acked) >= Half)
    <2>1. Behind(ntransmitted, acked) < Half
      BY <1>1, <1>3, WindowExact
    <2>2. Behind(ntransmitted, acked) \in Int
      BY <1>1, ModRange DEF Behind, TypeOK
    <2> QED
      BY <1>2, <2>1, <2>2
  <1>6. CASE ntransmitted - n < Half /\ n > top
    BY <1>4, <1>6 DEF acknowledge, Newest
  <1>7. CASE ~(ntransmitted - n < Half /\ n > top)
    BY <1>3, <1>4, <1>5, <1>7 DEF acknowledge, Newest
  <1> QED
    BY <1>6, <1>7

(* Counting one more probe keeps the window exact until it is half full.   *)
LEMMA AdvanceExact ==
    ASSUME TypeOK, NEW a, NEW t \in 0 .. ntransmitted, Counted(a, t),
           ~lapsed => a = U16(t)
    PROVE  WindowInv'
  <1>1. ntransmitted \in Nat /\ t \in Nat /\ t <= ntransmitted
    BY DEF TypeOK
  <1>2. ntransmitted' = ntransmitted + 1 /\ top' = t
    BY DEF Counted, advance_ntransmitted
  <1>3. lapsed \/ Overrun(ntransmitted + 1, t) => lapsed'
    BY Zenon DEF Counted, advance_ntransmitted
  <1> SUFFICES ASSUME ~lapsed' PROVE ntransmitted' - top' < Half /\ acked' = U16(top')
    BY Moduli DEF WindowInv, Half, U16
  <1>4. ~lapsed /\ ~Overrun(ntransmitted + 1, t)
    BY Zenon, <1>3
  <1>5. ntransmitted + 1 - t < Half
    BY <1>1, <1>4, Moduli DEF Overrun
  <1>6. Behind(ntransmitted + 1, a) < Half
    BY <1>1, <1>4, <1>5, WindowExact
  <1>7. Behind(ntransmitted + 1, a) \in Int
    BY <1>1, <1>4, ModRange DEF Behind
  <1>8. acked' = a
    BY <1>6, <1>7, Moduli DEF Counted, advance_ntransmitted
  <1>9. acked' = U16(top')
    <2>1. a = U16(t)
      BY <1>4
    <2> QED
      BY <1>2, <1>8, <2>1
  <1>10. ntransmitted' - top' < Half
    BY <1>1, <1>2, <1>5, Moduli
  <1> QED
    BY <1>9, <1>10

(* Every step keeps the ages of the probes on the wire.                    *)
LEMMA NextAgeInv == TypeOK /\ AgeInv /\ [Next]_vars => AgeInv'
  <1> SUFFICES ASSUME TypeOK, AgeInv, [Next]_vars PROVE AgeInv'
    OBVIOUS
  <1>1. nerrors \in Nat
    BY DEF TypeOK
  <1>2. CASE Sends
    <2>1. CASE UNCHANGED <<ntransmitted, wire>>
      BY <2>1 DEF AgeInv
    <2>2. CASE /\ ntransmitted' = ntransmitted + 1
               /\ \E ns : wire' = Young(ns, ntransmitted + 1)
      BY <2>2 DEF AgeInv, Young
    <2> QED
      BY <1>1, <1>2, <2>1, <2>2, SendShape DEF Counted, advance_ntransmitted
  <1>3. Receives \/ Moves => UNCHANGED <<ntransmitted, wire>>
    BY <1>1, ReceiveShape, MoveShape DEF Kept
  <1>4. Tick \/ UNCHANGED vars => UNCHANGED <<ntransmitted, wire>>
    BY DEF Tick, vars, env
  <1>5. CASE UNCHANGED <<ntransmitted, wire>>
    BY <1>5 DEF AgeInv
  <1> QED
    BY <1>2, <1>3, <1>4, <1>5, NextShape

(* No reply comes for a probe older than MaxAge.                           *)
LEMMA AgeInvariance == Spec => []AgeInv
  <1>1. Init => AgeInv
    BY DEF Init, AgeInv
  <1> QED
    BY <1>1, NextAgeInv, TypeCorrect, PTL DEF Spec

(* Every step keeps acked at the newest answered probe.                    *)
LEMMA NextWindowInv ==
    ASSUME FreshReplies
    PROVE  TypeOK /\ AgeInv /\ WindowInv /\ [Next]_vars => WindowInv'
  <1> SUFFICES ASSUME TypeOK, AgeInv, WindowInv, [Next]_vars PROVE WindowInv'
    OBVIOUS
  <1>1. nerrors \in Nat /\ top \in 0 .. ntransmitted
    BY DEF TypeOK
  <1>2. CASE UNCHANGED <<ntransmitted, acked, top, lapsed>>
    BY <1>2 DEF WindowInv, Half, U16
  <1>3. ASSUME NEW n \in wire, ~lapsed
        PROVE  acknowledge(n) = U16(Newest(n)) /\ ntransmitted - Newest(n) < Half
    BY <1>3, AckExact DEF AgeInv
  <1>4. CASE Sends
    <2>1. CASE Counted(acked, top)
      <3>1. ~lapsed => acked = U16(top)
        BY DEF WindowInv
      <3> QED
        BY <1>1, <2>1, <3>1, AdvanceExact
    <2>2. ASSUME NEW n \in wire, Counted(acknowledge(n), Newest(n))
          PROVE  WindowInv'
      <3>1. Newest(n) \in 0 .. ntransmitted
        BY AckType
      <3>2. ~lapsed => acknowledge(n) = U16(Newest(n))
        BY <1>3
      <3> QED
        BY <2>2, <3>1, <3>2, AdvanceExact
    <2> QED
      BY <1>1, <1>2, <1>4, <2>1, <2>2, SendShape
  <1>5. CASE Receives
    <2>1. UNCHANGED <<ntransmitted, lapsed>>
      BY <1>1, <1>5, ReceiveShape DEF Kept
    <2>2. ASSUME NEW n \in wire, acked' = acknowledge(n), top' = Newest(n)
          PROVE  WindowInv'
      BY <1>3, <2>1, <2>2 DEF WindowInv, Half, U16
    <2> QED
      BY <1>1, <1>2, <1>5, <2>1, <2>2, ReceiveShape
  <1>6. Moves \/ Tick \/ UNCHANGED vars
            => UNCHANGED <<ntransmitted, acked, top, lapsed>>
    BY MoveShape DEF Tick, vars
  <1> QED
    BY <1>2, <1>4, <1>5, <1>6, NextShape

(* in_flight() counts the probes since the newest one answered, for any    *)
(* number of probes, any reordering and any wraps of the 16-bit sequence   *)
(* number, as long as fewer than 32768 were outstanding at once.           *)
THEOREM InFlightIsExact ==
    ASSUME FreshReplies
    PROVE  Spec => []InFlightExact
  <1>1. Init => WindowInv
    <2>1. U16(0) = 0
      <3>1. SeqMod = 4 => U16(0) = 0
        BY DEF U16
      <3>2. SeqMod = 8 => U16(0) = 0
        BY DEF U16
      <3>3. SeqMod = 65536 => U16(0) = 0
        BY DEF U16
      <3> QED
        BY <3>1, <3>2, <3>3, PingAssumption
    <2> QED
      BY <2>1, Moduli DEF Init, WindowInv
  <1>2. TypeOK /\ WindowInv => InFlightExact
    <2> SUFFICES ASSUME TypeOK, WindowInv, ~lapsed
                 PROVE  in_flight = ntransmitted - top
      BY DEF InFlightExact
    <2>1. ntransmitted \in Nat /\ top \in Nat /\ top <= ntransmitted
      BY DEF TypeOK
    <2>2. ntransmitted - top < Half /\ acked = U16(top)
      BY DEF WindowInv
    <2>3. U16(Behind(ntransmitted, acked)) = ntransmitted - top
      BY <2>1, <2>2, WindowExact
    <2> QED
      BY <2>2, <2>3 DEF in_flight
  <1> QED
    BY <1>1, <1>2, NextWindowInv, AgeInvariance, TypeCorrect, PTL DEF Spec

-----------------------------------------------------------------------------
(* The accounting.                                                         *)

(* A probe's bit is set exactly when it has been answered, for every probe  *)
(* a reply may still come for.                                             *)
CountInv ==
    /\ IsFiniteSet(answered)
    /\ nreceived = Cardinality(answered)
    /\ \A n \in wire : (U16(n) \in rcvd) <=> (n \in answered)

(* Two probes on the wire, or one and the next to be sent, have different  *)
(* sequence numbers.                                                       *)
LEMMA WireDistinct ==
    ASSUME FreshReplies, TypeOK, AgeInv, NEW n \in wire
    PROVE  /\ U16(n) # U16(ntransmitted + 1)
           /\ \A m \in wire : m # n => U16(m) # U16(n)
  <1>1. \A m \in wire : m \in Int /\ m <= ntransmitted /\ ntransmitted - m < MaxAge
    BY DEF TypeOK, AgeInv
  <1>2. ntransmitted \in Nat /\ MaxAge \in Nat /\ SeqMod \in Nat /\ MaxAge < SeqMod
    BY Moduli, PingAssumption DEF TypeOK, FreshReplies
  <1>3. U16(n) # U16(ntransmitted + 1)
    <2>1. n < ntransmitted + 1 /\ ntransmitted + 1 - n < SeqMod
      BY <1>1, <1>2
    <2> QED
      BY <1>1, <1>2, <2>1, ModDistinct
  <1>4. ASSUME NEW m \in wire, m # n PROVE U16(m) # U16(n)
    <2>1. (m < n /\ n - m < SeqMod) \/ (n < m /\ m - n < SeqMod)
      BY <1>1, <1>2, <1>4
    <2> QED
      BY <1>1, <2>1, ModDistinct
  <1> QED
    BY <1>3, <1>4

(* Every step keeps the accounting.                                        *)
LEMMA NextCountInv ==
    ASSUME FreshReplies
    PROVE  TypeOK /\ AgeInv /\ CountInv /\ [Next]_vars => CountInv'
  <1> SUFFICES ASSUME TypeOK, AgeInv, CountInv, [Next]_vars PROVE CountInv'
    OBVIOUS
  <1>1. nerrors \in Nat /\ ntransmitted \in Nat /\ nreceived \in Nat
    BY DEF TypeOK
  <1>2. CASE UNCHANGED <<nreceived, rcvd, wire, answered>>
    BY <1>2 DEF CountInv, U16
  <1>3. CASE Sends
    <2>1. /\ rcvd' = rcvd \ {U16(ntransmitted + 1)}
          /\ UNCHANGED <<nreceived, answered>>
      BY <1>1, <1>3, SendShape DEF Attempt
    <2>2. wire' \subseteq wire \union {ntransmitted + 1}
      BY <1>1, <1>3, SendShape DEF Young
    <2>3. ASSUME NEW n \in wire PROVE (U16(n) \in rcvd') <=> (n \in answered')
      <3>1. U16(n) # U16(ntransmitted + 1)
        BY WireDistinct
      <3> QED
        BY <2>1, <3>1 DEF CountInv
    <2>4. /\ U16(ntransmitted + 1) \notin rcvd'
          /\ ntransmitted + 1 \notin answered'
      BY <1>1, <2>1 DEF TypeOK
    <2>5. \A n \in wire' : (U16(n) \in rcvd') <=> (n \in answered')
      BY <2>2, <2>3, <2>4
    <2> QED
      BY <2>1, <2>5 DEF CountInv, U16
  <1>4. ASSUME NEW n \in wire, NEW rtt \in Rtts, Reply(n, rtt), UNCHANGED Kept
        PROVE  CountInv'
    <2>1. wire' = wire /\ rcvd' = rcvd \union {U16(n)}
      BY <1>4 DEF Kept, Reply
    <2>2. CASE U16(n) \in rcvd
      <3>1. n \in answered
        BY <2>2 DEF CountInv
      <3>2. UNCHANGED <<nreceived, rcvd, wire, answered>>
        BY <1>4, <2>1, <2>2, <3>1 DEF Reply
      <3> QED
        BY <1>2, <3>2
    <2>3. CASE U16(n) \notin rcvd
      <3>1. answered' = answered \union {n} /\ nreceived' = nreceived + 1
        BY <1>4, <2>3 DEF Reply
      <3>2. n \notin answered
        BY <2>3 DEF CountInv
      <3>3. IsFiniteSet(answered') /\ Cardinality(answered') = Cardinality(answered) + 1
        BY <3>1, <3>2, FS_AddElement DEF CountInv
      <3>4. ASSUME NEW m \in wire PROVE (U16(m) \in rcvd') <=> (m \in answered')
        <4>1. m # n => U16(m) # U16(n)
          BY WireDistinct
        <4> QED
          BY <2>1, <3>1, <4>1 DEF CountInv
      <3> QED
        BY <2>1, <3>1, <3>3, <3>4 DEF CountInv, U16
    <2> QED
      BY <2>2, <2>3
  <1>5. CASE Receives
    <2>1. UNCHANGED Kept /\ UNCHANGED wire
      BY <1>1, <1>5, ReceiveShape DEF Kept
    <2> QED
      BY <1>1, <1>2, <1>4, <1>5, <2>1, ReceiveShape
  <1>6. Moves \/ Tick \/ UNCHANGED vars
            => UNCHANGED <<nreceived, rcvd, wire, answered>>
    BY MoveShape DEF Tick, vars, stats, env
  <1> QED
    BY <1>2, <1>3, <1>5, <1>6, NextShape

(* Every answered probe is counted as received once and the loss is never  *)
(* negative, for any number of probes and duplicates, as long as no reply  *)
(* is 65535 or more probes late.                                           *)
THEOREM AccountingExact ==
    ASSUME FreshReplies
    PROVE  Spec => []CountedOnce
  <1>1. Init => CountInv
    BY FS_EmptySet DEF Init, CountInv
  <1>2. TypeOK /\ CountInv => CountedOnce
    <2> SUFFICES ASSUME TypeOK, CountInv PROVE CountedOnce
      OBVIOUS
    <2>1. ntransmitted \in Nat /\ answered \subseteq 1 .. ntransmitted
      BY DEF TypeOK
    <2>2. IsFiniteSet(1 .. ntransmitted) /\ Cardinality(1 .. ntransmitted) = ntransmitted
      BY <2>1, FS_Interval
    <2>3. Cardinality(answered) <= ntransmitted
      BY <2>1, <2>2, FS_Subset, Zenon
    <2> QED
      BY <2>3 DEF CountInv, CountedOnce
  <1> QED
    BY <1>1, <1>2, NextCountInv, AgeInvariance, TypeCorrect, PTL DEF Spec
=============================================================================
