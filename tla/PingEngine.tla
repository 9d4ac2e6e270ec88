----------------------------- MODULE PingEngine -----------------------------
(***************************************************************************)
(* The probe engine of ping: pinger() and main_loop() of                   *)
(* ping/ping_common.c with the sequence-number window of ping/ping.h, the  *)
(* send, reply and error-queue handlers of ping/ping.c (AckErrors) or of   *)
(* ping/ping6_common.c (~AckErrors), and the two signals that end it.      *)
(*                                                                         *)
(* Time is counted in ticks and passes only while the process blocks.      *)
(* Every stored instant is kept as the distance from now: `elapsed` is the *)
(* clock minus cur_time, `alarm` and `wake` are what is left of the        *)
(* interval timer and of the blocking call.  The network may lose, delay,  *)
(* reorder, duplicate and corrupt replies.                                 *)
(***************************************************************************)
EXTENDS Integers, FiniteSets

CONSTANTS
    SeqMod,       \* number of ICMP sequence numbers, 65536 in the code
    NPackets,     \* -c, 0 when not given
    Deadline,     \* -w in ticks, 0 when not given
    Preload,      \* -l
    Interval,     \* -i in ticks, 0 for -f
    MinInterval,  \* MIN_INTERVAL_MS (1000/HZ is the same 10 ms)
    MaxNores,     \* the 500 ms that bound the pause after ENOBUFS
    Linger,       \* -W in ticks
    Timing,       \* the payload has room for a timestamp
    Quiet,        \* -q
    AckErrors,    \* an ICMP error acknowledges its probe: IPv4, not IPv6
    Rtts,         \* the round-trip times the network shows
    MaxAge,       \* a reply comes before MaxAge more probes are counted
    MaxFaults     \* bound: duplicates, corruptions, errors, failed sends

NoAlarm == -1
Unset == -1

ASSUME PingAssumption ==
    /\ SeqMod \in {4, 8, 65536}
    /\ NPackets \in Nat /\ Deadline \in Nat /\ Interval \in Nat
    /\ Preload \in Nat \ {0} /\ MinInterval \in Nat \ {0}
    /\ MaxNores \in Nat \ {0} /\ Linger \in Nat /\ MaxFaults \in Nat
    /\ Timing \in BOOLEAN /\ Quiet \in BOOLEAN /\ AckErrors \in BOOLEAN
    /\ Rtts \subseteq Nat
    /\ MaxAge \in Nat

VARIABLES
    pc,            \* where main_loop is: top, pinger, wait, recv, done
    ntransmitted, nreceived, nrepeats, nchecksum, nerrors,
    acked,         \* uint16_t
    rcvd,          \* the sequence numbers whose bit is set in rcvd_tbl
    tmax,
    tokens, oom,   \* the statics of pinger()
    elapsed,       \* now - cur_time, Unset before the first probe
    exiting,
    armed,         \* the static waittime of __schedule_exit is not 0
    alarm, wake,
    wire,          \* the probes a reply may still come for
    localq,        \* locally generated errors in the socket's error queue
    faults,        \* how much the environment may still misbehave
    answered,      \* history: the probes an intact reply came for
    bucket,        \* history: a reference rate limiter
    top,           \* history: the newest probe acknowledged
    lapsed         \* history: half the sequence space was once outstanding

env == <<wire, localq, faults>>
stats == <<nreceived, nrepeats, nchecksum, nerrors, tmax>>
vars == <<pc, ntransmitted, acked, rcvd, stats, tokens, oom, elapsed, exiting,
          armed, alarm, wake, env, answered, bucket, top, lapsed>>

-----------------------------------------------------------------------------
(* The sequence-number window: C's uint16_t, int16_t and int arithmetic.   *)

Half == SeqMod \div 2
U16(x) == x % SeqMod
S16(x) == IF U16(x) >= Half THEN U16(x) - SeqMod ELSE U16(x)

(* uint16_t operands are promoted: this difference is an int, not a        *)
(* uint16_t, and is negative when acked is the larger of the two.          *)
Behind(nt, a) == U16(nt) - a

in_flight ==
    IF U16(Behind(ntransmitted, acked)) < Half
    THEN U16(Behind(ntransmitted, acked))
    ELSE ntransmitted - nreceived - nerrors

(* Faulty variant: sequence numbers are compared as plain numbers.         *)
acknowledgePlain(n) == IF U16(n) > acked THEN U16(n) ELSE acked

(* acked once the reply to, or an error for, probe n is acknowledged.      *)
acknowledge(n) ==
    LET seq == U16(n)
    IN  IF /\ U16(U16(ntransmitted) - seq) < Half
           /\ S16(seq - acked) > 0 \/ Behind(ntransmitted, acked) >= Half
        THEN seq ELSE acked

Newest(n) == IF ntransmitted - n < Half /\ n > top THEN n ELSE top

Overrun(nt, t) == nt - t >= Half

(* One more probe counted, acked being a and the newest answer t so far.   *)
advance_ntransmitted(a, t) ==
    LET nt == ntransmitted + 1
    IN  /\ ntransmitted' = nt
        /\ acked' = IF Behind(nt, a) >= Half THEN U16(U16(nt) + 1) ELSE a
        /\ top' = t
        /\ lapsed' = (lapsed \/ Overrun(nt, t))

-----------------------------------------------------------------------------
(* The end of a pass through main_loop's do-while.                         *)

SCHINT(a) == IF a <= MinInterval THEN MinInterval ELSE a
Lesser(a, b) == IF a < b THEN a ELSE b
Greater(a, b) == IF a > b THEN a ELSE b

(* Faulty variant: nothing received, no time to wait.                      *)
WaitTimeAnswered == IF nreceived > 0 THEN Greater(2 * tmax, Interval) ELSE 0

WaitTime == IF nreceived > 0 THEN Greater(2 * tmax, Interval) ELSE Linger

(* How long main_loop blocks when the next probe is due in `next`.         *)
Patience(next, expected) ==
    IF next >= SCHINT(Interval) THEN SCHINT(Interval)
    ELSE IF next > MinInterval THEN next
    ELSE IF expected # 0 THEN MinInterval ELSE 0

(* pinger() returned `next`: schedule_exit(), then send again or block.    *)
Scheduled(next) ==
    LET late == NPackets > 0 /\ ntransmitted' >= NPackets /\ Deadline = 0
        arm == late /\ ~armed
        due == IF arm THEN Greater(next, WaitTime) ELSE next
    IN  /\ armed' = (armed \/ (arm /\ WaitTime > 0))
        /\ alarm' = IF arm /\ WaitTime > 0 THEN WaitTime ELSE alarm
        /\ pc' = IF due <= 0 THEN "pinger" ELSE "wait"
        /\ wake' = IF due <= 0 THEN 0 ELSE Patience(due, in_flight')

Burst == Interval * Preload

Init ==
    /\ pc = "top"
    /\ ntransmitted = 0 /\ nreceived = 0 /\ nrepeats = 0
    /\ nchecksum = 0 /\ nerrors = 0 /\ acked = 0 /\ tmax = 0
    /\ rcvd = {} /\ tokens = 0 /\ oom = 0 /\ elapsed = Unset
    /\ exiting = FALSE /\ armed = FALSE /\ wake = 0
    /\ alarm = IF Deadline > 0 THEN Deadline ELSE NoAlarm
    /\ wire = {} /\ localq = 0 /\ faults = MaxFaults
    /\ answered = {} /\ bucket = Burst /\ top = 0 /\ lapsed = FALSE

-----------------------------------------------------------------------------
(* main_loop's exit conditions.                                            *)

Enough == NPackets > 0 /\ nreceived + nerrors >= NPackets

(* Faulty variant: only the counters end the loop.                         *)
TopDeaf ==
    /\ pc = "top"
    /\ pc' = IF Enough \/ (Deadline > 0 /\ nerrors > 0) THEN "done" ELSE "pinger"
    /\ UNCHANGED <<ntransmitted, acked, rcvd, stats, tokens, oom, elapsed,
                   exiting, armed, alarm, wake, env, answered, bucket, top,
                   lapsed>>

Top ==
    /\ pc = "top"
    /\ pc' = IF exiting \/ Enough \/ (Deadline > 0 /\ nerrors > 0)
             THEN "done" ELSE "pinger"
    /\ UNCHANGED <<ntransmitted, acked, rcvd, stats, tokens, oom, elapsed,
                   exiting, armed, alarm, wake, env, answered, bucket, top,
                   lapsed>>

-----------------------------------------------------------------------------
(* pinger().  MaxNap stands for the arbitrary positive value (1000) that   *)
(* it returns when there is nothing left to send.                          *)

MaxNap == 1000

(* Faulty variant: one probe too many.                                     *)
SentEnoughLate ==
    exiting \/ (NPackets > 0 /\ ntransmitted > NPackets /\ Deadline = 0)

SentEnough ==
    exiting \/ (NPackets > 0 /\ ntransmitted >= NPackets /\ Deadline = 0)

FloodHeld ==
    Interval = 0 /\ elapsed < MinInterval /\ in_flight >= Preload

(* Faulty variant: tokens pile up without bound.                           *)
ntokensUncapped == elapsed + tokens

ntokens == Lesser(elapsed + tokens, Burst)

Held == elapsed # Unset /\ (FloodHeld \/ ntokens < Interval)

PingerDone ==
    /\ pc = "pinger"
    /\ SentEnough
    /\ UNCHANGED <<ntransmitted, acked, rcvd, stats, tokens, oom, elapsed,
                   exiting, env, answered, bucket, top, lapsed>>
    /\ Scheduled(MaxNap)

PingerHeld ==
    /\ pc = "pinger"
    /\ ~SentEnough /\ Held
    /\ UNCHANGED <<ntransmitted, acked, rcvd, stats, tokens, oom, elapsed,
                   exiting, env, answered, bucket, top, lapsed>>
    /\ Scheduled(IF FloodHeld THEN MinInterval - elapsed
                              ELSE Interval - ntokens)

(* Faulty variant: send_probe() does not clear the bit.                    *)
AttemptStale ==
    /\ pc = "pinger"
    /\ ~SentEnough /\ ~Held
    /\ elapsed' = 0
    /\ UNCHANGED <<rcvd, nreceived, nrepeats, nchecksum, tmax, exiting,
                   answered>>

(* pinger() up to its call of send_probe(), which first clears the bit of  *)
(* the sequence number it is about to use.                                 *)
Attempt ==
    /\ pc = "pinger"
    /\ ~SentEnough /\ ~Held
    /\ elapsed' = 0
    /\ rcvd' = rcvd \ {U16(ntransmitted + 1)}
    /\ UNCHANGED <<nreceived, nrepeats, nchecksum, tmax, exiting, answered>>

(* The tokens left once this probe is paid for.                            *)
Change ==
    IF elapsed = Unset THEN Interval * (Preload - 1) ELSE ntokens - Interval

Young(ns, nt) == {n \in ns : nt - n < MaxAge}

SendOk ==
    /\ Attempt
    /\ advance_ntransmitted(acked, top)
    /\ oom' = 0
    /\ tokens' = Change
    /\ wire' = Young(wire \union {ntransmitted + 1}, ntransmitted + 1)
    /\ bucket' = bucket - Interval
    /\ UNCHANGED <<nerrors, localq, faults>>
    /\ Scheduled(Interval - Change)

(* The label hard_local_error: pretend the probe was sent.                 *)
HardLocalError(a, t) ==
    /\ advance_ntransmitted(a, t)
    /\ tokens' = 0
    /\ wire' = Young(wire, ntransmitted + 1)
    /\ bucket' = bucket - Interval
    /\ Scheduled(SCHINT(Interval))

nores_interval == Lesser(SCHINT(Interval \div 2), MaxNores)

(* Faulty variant: a full device queue is retried for ever.                *)
SendNoBufsForever ==
    /\ Attempt
    /\ tokens' = 0
    /\ UNCHANGED <<ntransmitted, acked, lapsed, nerrors, oom, env, bucket, top>>
    /\ Scheduled(nores_interval)

(* ENOBUFS or ENOMEM: the device queue is full.                            *)
SendNoBufs ==
    /\ Attempt
    /\ oom' = oom + 1
    /\ UNCHANGED <<nerrors, localq, faults>>
    /\ \/ /\ (oom + 1) * nores_interval < Linger
          /\ tokens' = 0
          /\ UNCHANGED <<ntransmitted, acked, lapsed, wire, bucket, top>>
          /\ Scheduled(nores_interval)
       \/ /\ (oom + 1) * nores_interval >= Linger
          /\ HardLocalError(acked, top)

(* EAGAIN: the socket buffer stayed full for SO_SNDTIMEO.                  *)
SendAgain ==
    /\ faults > 0
    /\ Attempt
    /\ tokens' = Change + Interval
    /\ faults' = faults - 1
    /\ UNCHANGED <<ntransmitted, acked, lapsed, nerrors, oom, wire, localq,
                   bucket, top>>
    /\ Scheduled(MinInterval)

(* EMSGSIZE: counted here; the kernel may also queue a local error.        *)
SendTooLong ==
    /\ faults > 0
    /\ Attempt
    /\ nerrors' = nerrors + 1
    /\ faults' = faults - 1
    /\ localq' \in {localq, localq + 1}
    /\ UNCHANGED oom
    /\ HardLocalError(acked, top)

(* Any other errno with nothing, or a local error, in the error queue.     *)
SendLocalError ==
    /\ faults > 0
    /\ Attempt
    /\ faults' = faults - 1
    /\ \/ UNCHANGED <<localq, nerrors>>
       \/ /\ localq > 0
          /\ localq' = localq - 1
          /\ nerrors' = nerrors + (IF Quiet THEN 0 ELSE 1)
    /\ UNCHANGED oom
    /\ HardLocalError(acked, top)

(* Any other errno with an ICMP error for probe n in the error queue: the  *)
(* error is taken, its probe acknowledged, and the failed send counted.    *)
SendIcmpError(n) ==
    /\ faults > 0
    /\ n \in wire
    /\ Attempt
    /\ faults' = faults - 1
    /\ nerrors' = nerrors + 1
    /\ UNCHANGED <<oom, localq>>
    /\ HardLocalError(IF AckErrors THEN acknowledge(n) ELSE acked,
                      IF AckErrors THEN Newest(n) ELSE top)

-----------------------------------------------------------------------------
(* The receive loop.  In "wait" the process blocks in poll() or in its     *)
(* first recvmsg(); in "recv" recvmsg() no longer blocks.                  *)

Receiving == pc \in {"wait", "recv"}

(* What a received packet or error never touches.                          *)
Kept == <<ntransmitted, tokens, oom, elapsed, exiting, armed, alarm, wire,
          bucket, lapsed>>

(* Nothing in flight: back to pinger().  Otherwise recvmsg() again.        *)
Again ==
    /\ pc' = IF in_flight' = 0 THEN "top" ELSE "recv"
    /\ wake' = 0

(* gather_statistics() on an intact reply to probe n: counted in nreceived *)
(* or, when its bit is already set, in nrepeats.  Only the network's       *)
(* duplicates use up faults.                                               *)
Reply(n, rtt) ==
    LET dup == U16(n) \in rcvd
    IN  /\ Receiving
        /\ n \in wire
        /\ n \in answered => faults > 0
        /\ faults' = IF n \in answered THEN faults - 1 ELSE faults
        /\ acked' = acknowledge(n)
        /\ top' = Newest(n)
        /\ tmax' = IF Timing THEN Greater(tmax, rtt) ELSE tmax
        /\ nreceived' = IF dup THEN nreceived ELSE nreceived + 1
        /\ nrepeats' = IF dup THEN nrepeats + 1 ELSE nrepeats
        /\ rcvd' = rcvd \union {U16(n)}
        /\ answered' = answered \union {n}
        /\ UNCHANGED <<Kept, nchecksum, nerrors, localq>>
        /\ Again

(* gather_statistics() on a reply whose checksum is wrong.                 *)
CorruptReply ==
    /\ Receiving
    /\ faults > 0 /\ wire # {}
    /\ faults' = faults - 1
    /\ nchecksum' = nchecksum + 1
    /\ UNCHANGED <<Kept, acked, rcvd, nreceived, nrepeats, nerrors, tmax,
                   localq, answered, top>>
    /\ Again

(* An ICMP error for probe n read as a packet from a raw IPv4 socket: it   *)
(* acknowledges the probe and is not counted.                              *)
ErrorPacket(n) ==
    /\ Receiving
    /\ AckErrors
    /\ faults > 0
    /\ n \in wire
    /\ faults' = faults - 1
    /\ acked' = acknowledge(n)
    /\ top' = Newest(n)
    /\ UNCHANGED <<Kept, rcvd, stats, localq, answered>>
    /\ Again

(* ping4_receive_error_msg() on an ICMP error for probe n.                 *)
IcmpError(n) ==
    /\ Receiving
    /\ AckErrors
    /\ faults > 0
    /\ n \in wire
    /\ faults' = faults - 1
    /\ nerrors' = nerrors + 1
    /\ acked' = acknowledge(n)
    /\ top' = Newest(n)
    /\ UNCHANGED <<Kept, rcvd, nreceived, nrepeats, nchecksum, tmax, localq,
                   answered>>
    /\ Again

(* ping6_receive_error_msg() on an ICMPv6 error: counted, but the probe    *)
(* stays in flight.                                                        *)
IcmpError6(n) ==
    /\ Receiving
    /\ ~AckErrors
    /\ faults > 0
    /\ n \in wire
    /\ faults' = faults - 1
    /\ nerrors' = nerrors + 1
    /\ UNCHANGED <<Kept, acked, rcvd, nreceived, nrepeats, nchecksum, tmax,
                   localq, answered, top>>
    /\ Again

(* receive_error_msg() on an error the local stack queued.                 *)
LocalError ==
    /\ Receiving
    /\ localq > 0
    /\ localq' = localq - 1
    /\ nerrors' = nerrors + (IF Quiet THEN 0 ELSE 1)
    /\ UNCHANGED <<Kept, acked, rcvd, nreceived, nrepeats, nchecksum, tmax,
                   faults, answered, top>>
    /\ Again

(* A packet that ping4_parse_reply() drops, or an error of someone else.   *)
NotOurs ==
    /\ Receiving
    /\ AckErrors
    /\ UNCHANGED <<Kept, acked, rcvd, stats, localq, faults, answered, top>>
    /\ Again

(* The same in ping6_parse_reply(): too short, another ident, or a nonce   *)
(* that is not of our node information queries.  The socket's filter keeps *)
(* every other type of packet away, so no error is read here.              *)
NotOurs6 ==
    /\ Receiving
    /\ ~AckErrors
    /\ UNCHANGED <<Kept, acked, rcvd, stats, localq, faults, answered, top>>
    /\ Again

(* The blocking call timed out, or nothing more is queued.                 *)
Nothing ==
    /\ pc = "recv" \/ (pc = "wait" /\ wake = 0)
    /\ pc' = "top"
    /\ UNCHANGED <<Kept, acked, rcvd, stats, localq, faults, answered, top,
                   wake>>

-----------------------------------------------------------------------------
(* Time and signals.                                                       *)

Tick ==
    /\ pc = "wait"
    /\ alarm # 0
    /\ wake' = Greater(wake - 1, 0)
    /\ alarm' = IF alarm = NoAlarm THEN NoAlarm ELSE alarm - 1
    /\ elapsed' = IF elapsed = Unset THEN Unset
                  ELSE Lesser(elapsed + 1, Greater(Burst, MinInterval))
    /\ bucket' = Lesser(bucket + 1, Burst)
    /\ UNCHANGED <<pc, ntransmitted, acked, rcvd, stats, tokens, oom, exiting,
                   armed, env, answered, top, lapsed>>

(* sigexit().  A signal that comes while the process blocks interrupts the *)
(* call; one that comes just before it does not.                           *)
sigexit ==
    /\ exiting' = TRUE
    /\ pc' \in (IF pc = "wait" THEN {"wait", "top"} ELSE {pc})
    /\ UNCHANGED <<ntransmitted, acked, rcvd, stats, tokens, oom, elapsed,
                   armed, wake, env, answered, bucket, top, lapsed>>

SigAlarm ==
    /\ pc # "done" /\ alarm = 0
    /\ alarm' = NoAlarm
    /\ sigexit

SigInt ==
    /\ pc # "done" /\ ~exiting
    /\ UNCHANGED alarm
    /\ sigexit

Finished == pc = "done" /\ UNCHANGED vars

-----------------------------------------------------------------------------

Process ==
    \/ Top \/ PingerDone \/ PingerHeld
    \/ SendOk \/ SendNoBufs \/ SendAgain \/ SendTooLong \/ SendLocalError
    \/ \E n \in wire : SendIcmpError(n)
    \/ \E n \in wire, rtt \in Rtts : Reply(n, rtt)
    \/ CorruptReply
    \/ \E n \in wire : ErrorPacket(n) \/ IcmpError(n) \/ IcmpError6(n)
    \/ LocalError \/ NotOurs \/ NotOurs6 \/ Nothing

Next == Process \/ Tick \/ SigAlarm \/ SigInt \/ Finished

Spec == Init /\ [][Next]_vars

(* The kernel schedules a runnable process and delivers the signal of an   *)
(* expired timer; and time does not stand still: going round main_loop     *)
(* forever takes forever, hence strong fairness of Tick.  Nothing is       *)
(* assumed of the network or of the user.                                  *)
FairSpec == Spec /\ WF_vars(Process) /\ SF_vars(Tick) /\ WF_vars(SigAlarm)

-----------------------------------------------------------------------------
(* Properties.                                                             *)

(* The ranges of ping's counters, timers and sequence-number window: acked *)
(* stays a uint16_t, tokens never goes negative, and every reply that may  *)
(* still come is for a probe that was sent.                                *)
TypeOK ==
    /\ pc \in {"top", "pinger", "wait", "recv", "done"}
    /\ ntransmitted \in Nat /\ nreceived \in Nat /\ nrepeats \in Nat
    /\ nchecksum \in Nat /\ nerrors \in Nat /\ tmax \in Nat
    /\ acked \in 0 .. SeqMod - 1
    /\ rcvd \subseteq 0 .. SeqMod - 1
    /\ tokens \in Nat /\ oom \in Nat
    /\ elapsed \in Nat \union {Unset}
    /\ exiting \in BOOLEAN /\ armed \in BOOLEAN /\ lapsed \in BOOLEAN
    /\ alarm \in Nat \union {NoAlarm} /\ wake \in Nat
    /\ wire \subseteq 1 .. ntransmitted
    /\ answered \subseteq 1 .. ntransmitted
    /\ localq \in Nat /\ faults \in Nat
    /\ bucket \in Int /\ top \in 0 .. ntransmitted

(* pinger() keeps its promise "packets < rate*time + preload": over every  *)
(* stretch of the run, not only from its start, no more probes are counted *)
(* as sent than a bucket of Preload probes refilled every Interval allows. *)
RateBound == bucket >= 0

(* gather_statistics() counts every answered probe as received once,       *)
(* however often and in whatever order its replies come, across wraps of   *)
(* the 16-bit sequence number and failed sends, so the loss that ping      *)
(* prints is exact and never negative.                                     *)
CountedOnce == nreceived = Cardinality(answered) /\ nreceived <= ntransmitted

(* in_flight() is the number of probes sent since the newest one answered, *)
(* across wraps and reordering, until half the sequence space has been     *)
(* outstanding at once.                                                    *)
InFlightExact == ~lapsed => in_flight = ntransmitted - top

(* With -c and no -w no more than count probes are ever sent.              *)
NeverTooMany == NPackets > 0 /\ Deadline = 0 => ntransmitted <= NPackets

(* Once the last probe is out, main_loop never blocks without the timer    *)
(* that will end the run, or its signal taken.                             *)
ExitArmed ==
    pc = "wait" /\ NPackets > 0 /\ ntransmitted >= NPackets /\ Deadline = 0
        => alarm # NoAlarm \/ exiting

(* With -c or -w the run ends, whatever the network loses.                 *)
Terminates == <>(pc = "done")

(* The comment in pinger(): an unlimited flood that sees no reply is       *)
(* limited to one probe every MinInterval.                                 *)
FloodLimited ==
    [][/\ Interval = 0 /\ top = 0 /\ answered = {}
       /\ ntransmitted >= Preload /\ ntransmitted' > ntransmitted
       => elapsed >= MinInterval]_vars

(* The manual on -c: "Stop after sending count ECHO_REQUEST packets".      *)
StopsAfterCount ==
    pc = "done" /\ ~exiting /\ NPackets > 0 /\ Deadline = 0
        => ntransmitted >= NPackets
=============================================================================
