-------------------------- MODULE TracepathProofs ---------------------------
(***************************************************************************)
(* For every path, every number of slots and every TTL: tracepath credits  *)
(* an error to the probe that drew it, as long as an answer cannot be so   *)
(* late that the ring of slots has come round; and over a path that keeps  *)
(* the order of answers it finds the path's MTU and winds down to its end, *)
(* as long as the TTL cannot wrap.                                         *)
(***************************************************************************)
EXTENDS Tracepath, FiniteSetTheorems, TLAPS

(* How often hisptr has moved on to h since it stood at slot s.            *)
Back(h, s) == IF s < h THEN h - 1 - s ELSE h - 1 - s + Slots

(* hisptr moves on without a new probe only after a send that failed for a *)
(* passing reason: the faults so far, without the one not yet accounted    *)
(* for, bound such moves.                                                  *)
Unsettled == pc = "drain" /\ after = "send" /\ errq = <<>> /\ ~progress
Moves == MaxFaults - faults - (IF Unsettled THEN 1 ELSE 0)

(* A slot belongs to the probe that took it until it is released.          *)
Holds(h, s, t) == h[s] = 0 \/ h[s] = t

NetInv == \A p \in net : Back(hisptr, p.slot) <= p.age + Moves /\ Holds(his, p.slot, p.ttl)

ErrInv ==
    \A i \in 1 .. Len(errq) :
       errq[i].kind # "local" =>
          /\ Back(hisptr, errq[i].slot) <= MaxAge - 1 + Moves
          /\ Holds(his, errq[i].slot, errq[i].ttl)

(* A fault that is not settled has been counted.                           *)
FaultInv == Unsettled => faults < MaxFaults

IInv == TypeOK /\ FaultInv /\ NetInv /\ ErrInv /\ Attribution

-----------------------------------------------------------------------------
(* Arithmetic.                                                             *)

LEMMA Constants ==
    /\ Slots \in Nat /\ Slots > 0 /\ TtlMod \in Nat /\ TtlMod > 1
    /\ MaxProbes \in Nat /\ MaxProbes > 0 /\ Tries \in Nat /\ Tries > 0
    /\ StartMtu \in Nat \ {0} /\ MaxHops \in Nat
    /\ MaxAge \in Nat /\ MaxAge > 0 /\ MaxFaults \in Nat
  BY TracepathAssumption

(* The ring's end.                                                         *)
LEMMA RingNext ==
    ASSUME NEW n \in Nat, n > 0, NEW x \in 0 .. n - 1
    PROVE  (x + 1) % n = (IF x + 1 = n THEN 0 ELSE x + 1) /\ (x + 1) % n \in 0 .. n - 1
  <1>1. CASE x + 1 = n
    BY <1>1
  <1>2. CASE x + 1 # n
    BY <1>2
  <1> QED BY <1>1, <1>2

LEMMA HopNext ==
    ASSUME ttl \in 0 .. TtlMod - 1
    PROVE  (ttl + 1) % TtlMod \in 0 .. TtlMod - 1
  BY Constants, RingNext

LEMMA RethopsType == rethops(ReturnTtl) \in 1 .. 127
  BY TracepathAssumption DEF rethops

(* Advancing adds one to every distance that is not the longest, and the   *)
(* slot just left is the nearest.                                          *)
LEMMA BackType ==
    ASSUME hisptr \in 0 .. Slots - 1, NEW s \in 0 .. Slots - 1
    PROVE  Back(hisptr, s) \in 0 .. Slots - 1 /\ (Back(hisptr, s) < Slots - 1 => s # hisptr)
  BY Constants DEF Back

LEMMA BackInt ==
    ASSUME NEW h \in Int, NEW s \in Int
    PROVE  Back(h, s) \in Int
  BY Constants DEF Back

LEMMA BackAdvances ==
    ASSUME hisptr \in 0 .. Slots - 1, Advance, NEW s \in 0 .. Slots - 1
    PROVE  /\ hisptr' \in 0 .. Slots - 1
           /\ Back(hisptr', s) <= Back(hisptr, s) + 1
           /\ s = hisptr => Back(hisptr', s) = 0
  <1>1. hisptr' = (IF hisptr + 1 = Slots THEN 0 ELSE hisptr + 1)
    BY Constants, RingNext DEF Advance
  <1> QED BY <1>1, Constants DEF Back

-----------------------------------------------------------------------------
(* Types.                                                                  *)

LoopOK ==
    /\ pc \in {"send", "wait", "drain", "done", "failed"}
    /\ ttl \in 0 .. TtlMod - 1
    /\ tries \in 0 .. Tries - 1 /\ fails \in 0 .. MaxProbes - 1
    /\ oldMtu \in Nat \ {0}

SlotsOK == his \in [0 .. Slots - 1 -> 0 .. TtlMod - 1] /\ hisptr \in 0 .. Slots - 1

FoundOK ==
    /\ hopsTo \in -1 .. TtlMod - 1 /\ hopsFrom \in {Unknown} \union 1 .. 127
    /\ refused \in -1 .. TtlMod - 1
    /\ line \in [hops : -1 .. TtlMod - 1, sent : -1 .. TtlMod - 1]

WorldOK ==
    /\ after \in {"send", "wait"} /\ progress \in BOOLEAN
    /\ mtu \in Nat \ {0}
    /\ net \subseteq Probes /\ errq \in Seq(Errors)
    /\ faults \in 0 .. MaxFaults /\ fifo \in BOOLEAN

LEMMA TypeSplit == TypeOK <=> LoopOK /\ SlotsOK /\ FoundOK /\ WorldOK
  BY Zenon DEF TypeOK, LoopOK, SlotsOK, FoundOK, WorldOK

LEMMA TypeJoined == LoopOK' /\ SlotsOK' /\ FoundOK' /\ WorldOK' => TypeOK'
  BY Zenon DEF TypeOK, LoopOK, SlotsOK, FoundOK, WorldOK

(* probe_ttl() returns into main()'s loops.                                *)
LEMMA ProbeReturnsOK ==
    ASSUME LoopOK, mtu \in Nat \ {0}, NEW res, ProbeReturns(res)
    PROVE  LoopOK' /\ pc' # "drain"
  <1>1. CASE SameHop(0)
    BY <1>1, Constants DEF SameHop, LoopOK
  <1>2. CASE Finish
    BY <1>2 DEF Finish, LoopOK
  <1>3. CASE tries + 1 < Tries /\ SameHop(tries + 1)
    BY <1>3, Constants DEF SameHop, LoopOK
  <1>4. CASE NextHop
    <2>1. ttl' \in 0 .. TtlMod - 1
      BY <1>4, HopNext DEF NextHop, LoopOK
    <2>2. 0 \in 0 .. Tries - 1 /\ 0 \in 0 .. MaxProbes - 1
      BY Constants
    <2>3. /\ tries' = 0 /\ fails' = 0 /\ oldMtu' = mtu /\ pc' \in {"done", "failed", "send"}
      BY <1>4 DEF NextHop
    <2> QED BY <2>1, <2>2, <2>3 DEF LoopOK
  <1> QED BY <1>1, <1>2, <1>3, <1>4 DEF ProbeReturns

(* So does recverr(): the ring moves on only when MAX_PROBES sends failed. *)
LEMMA DrainReturnsOK ==
    ASSUME LoopOK, mtu \in Nat \ {0}, hisptr \in 0 .. Slots - 1, after \in {"send", "wait"},
           NEW res \in {"over", "progress", "silence"}, DrainReturns(res)
    PROVE  /\ LoopOK' /\ pc' # "drain"
           /\ hisptr' = hisptr \/ (Advance /\ after = "send" /\ res = "silence")
  <1>1. CASE after = "wait"
    BY <1>1, ProbeReturnsOK DEF DrainReturns
  <1>2. CASE after = "send"
    <2>1. CASE res = "over"
      BY <1>2, <2>1, ProbeReturnsOK DEF DrainReturns
    <2>2. CASE res = "progress"
      <3>1. fails' = 0 /\ pc' = "send" /\ UNCHANGED <<ttl, tries, oldMtu, hisptr>>
        BY <1>2, <2>2 DEF DrainReturns
      <3> QED BY <3>1, Constants DEF LoopOK
    <2>3. CASE res = "silence" /\ fails + 1 < MaxProbes
      <3>1. fails' = fails + 1 /\ pc' = "send" /\ UNCHANGED <<ttl, tries, oldMtu, hisptr>>
        BY <1>2, <2>3 DEF DrainReturns
      <3> QED BY <2>3, <3>1, Constants DEF LoopOK
    <2>4. CASE res = "silence" /\ ~(fails + 1 < MaxProbes)
      <3>1. ProbeReturns("over") /\ Advance
        BY <1>2, <2>4 DEF DrainReturns
      <3> QED BY <1>2, <2>4, <3>1, ProbeReturnsOK
    <2> QED BY <2>1, <2>2, <2>3, <2>4
  <1> QED BY <1>1, <1>2

(* An error at the head of the queue.                                      *)
LEMMA HeadParts ==
    ASSUME WorldOK, errq # <<>>
    PROVE  LET e == Head(errq) IN
           /\ e = errq[1] /\ 1 \in 1 .. Len(errq) /\ e \in Errors
           /\ e.kind \in {"local", "toobig", "exceeded", "refused", "fatal"}
           /\ e.slot \in 0 .. Slots - 1 /\ e.ttl \in 0 .. TtlMod - 1
           /\ e.kind \in {"local", "toobig"} => e.info \in Nat \ {0}
           /\ Tail(errq) \in Seq(Errors)
           /\ Len(Tail(errq)) = Len(errq) - 1
           /\ \A i \in 1 .. Len(errq) - 1 : Tail(errq)[i] = errq[i + 1]
  <1>1. errq \in Seq(Errors) /\ Len(errq) \in Nat /\ Len(errq) > 0
    BY DEF WorldOK
  <1>2. Head(errq) = errq[1] /\ 1 \in 1 .. Len(errq) /\ errq[1] \in Errors
    BY <1>1
  <1>3. /\ Tail(errq) \in Seq(Errors) /\ Len(Tail(errq)) = Len(errq) - 1
        /\ \A i \in 1 .. Len(errq) - 1 : Tail(errq)[i] = errq[i + 1]
    BY <1>1
  <1> DEFINE e == Head(errq)
  <1>4. e \in Errors
    BY <1>2
  <1> HIDE DEF e
  <1>5. /\ e.kind \in {"local", "toobig", "exceeded", "refused", "fatal"}
        /\ e.slot \in 0 .. Slots - 1 /\ e.ttl \in 0 .. TtlMod - 1
        /\ e.kind \in {"local", "toobig"} => e.info \in Nat \ {0}
    BY <1>4 DEF Errors
  <1> QED BY <1>2, <1>3, <1>4, <1>5 DEF e

(* The hop shown for an error, and the slot it gives back.                 *)
LEMMA SndhopsType ==
    ASSUME SlotsOK, NEW e, e.slot \in 0 .. Slots - 1, e.ttl \in 0 .. TtlMod - 1, NEW echo
    PROVE  sndhops(e, echo) \in -1 .. TtlMod - 1
  BY Constants DEF sndhops, SlotsOK, Unknown

LEMMA ReleaseTypes ==
    ASSUME SlotsOK, NEW e, e.slot \in 0 .. Slots - 1
    PROVE  /\ Consumed(e) \in [0 .. Slots - 1 -> 0 .. TtlMod - 1]
           /\ Released(Consumed(e)) \in [0 .. Slots - 1 -> 0 .. TtlMod - 1]
           /\ Released(his) \in [0 .. Slots - 1 -> 0 .. TtlMod - 1]
           /\ Recorded \in [0 .. Slots - 1 -> 0 .. TtlMod - 1] \/ ttl \notin 0 .. TtlMod - 1
           /\ \A s \in 0 .. Slots - 1 :
                 /\ Consumed(e)[s] \in {0, his[s]}
                 /\ Released(Consumed(e))[s] \in {0, his[s]}
                 /\ Released(his)[s] \in {0, his[s]}
  <1>1. 0 \in 0 .. TtlMod - 1
    BY Constants
  <1>2. /\ Consumed(e) \in [0 .. Slots - 1 -> 0 .. TtlMod - 1]
        /\ \A s \in 0 .. Slots - 1 : Consumed(e)[s] \in {0, his[s]}
    BY <1>1 DEF Consumed, SlotsOK
  <1>3. ASSUME NEW h \in [0 .. Slots - 1 -> 0 .. TtlMod - 1]
        PROVE  /\ Released(h) \in [0 .. Slots - 1 -> 0 .. TtlMod - 1]
               /\ \A s \in 0 .. Slots - 1 : Released(h)[s] \in {0, h[s]}
    BY <1>1 DEF Released, SlotsOK
  <1>4. Recorded \in [0 .. Slots - 1 -> 0 .. TtlMod - 1] \/ ttl \notin 0 .. TtlMod - 1
    BY DEF Recorded, SlotsOK
  <1> QED BY <1>2, <1>3, <1>4, Zenon DEF SlotsOK

LEMMA InitTypeOK == Init => TypeOK
  <1> SUFFICES ASSUME Init PROVE TypeOK
    OBVIOUS
  <1>1. /\ 1 \in 0 .. TtlMod - 1 /\ 0 \in 0 .. TtlMod - 1 /\ 0 \in 0 .. Tries - 1
        /\ 0 \in 0 .. MaxProbes - 1 /\ 0 \in 0 .. Slots - 1 /\ -1 \in -1 .. TtlMod - 1
        /\ MaxFaults \in 0 .. MaxFaults /\ StartMtu \in Nat \ {0}
    BY Constants
  <1>2. LoopOK
    BY <1>1 DEF Init, LoopOK
  <1>3. SlotsOK
    BY <1>1 DEF Init, SlotsOK
  <1>4. FoundOK
    BY <1>1 DEF Init, FoundOK, Unknown
  <1>5. WorldOK
    <2>1. errq \in Seq(Errors)
      BY DEF Init
    <2>2. fifo \in BOOLEAN
      BY TracepathAssumption DEF Init
    <2> QED BY <1>1, <2>1, <2>2, Zenon DEF Init, WorldOK
  <1> QED BY <1>2, <1>3, <1>4, <1>5, TypeSplit

(* What the network may answer.                                            *)
LEMMA QueuedType ==
    ASSUME WorldOK, NEW p \in net, NEW kind, NEW info, Queued(p, kind, info),
           \/ kind = "toobig" /\ info \in Nat \ {0}
           \/ kind \in {"exceeded", "refused", "fatal"} /\ info = 0
    PROVE  /\ errq' \in Seq(Errors) /\ Len(errq') = Len(errq) + 1 /\ Len(errq) \in Nat
           /\ \A i \in 1 .. Len(errq) : errq'[i] = errq[i]
           /\ LET e == errq'[Len(errq) + 1] IN e.slot = p.slot /\ e.ttl = p.ttl
  <1> DEFINE e == [kind |-> kind, info |-> info, slot |-> p.slot, ttl |-> p.ttl]
  <1>1. p \in Probes /\ errq \in Seq(Errors) /\ Len(errq) \in Nat
    BY DEF WorldOK
  <1>2. e \in Errors /\ e.slot = p.slot /\ e.ttl = p.ttl
    BY <1>1 DEF Errors, Probes
  <1>3. errq' = Append(errq, e)
    BY DEF Queued
  <1> HIDE DEF e
  <1> QED BY <1>1, <1>2, <1>3

LEMMA AnswersType ==
    ASSUME NEW p, NEW a \in Answers(p)
    PROVE  \/ a.kind = "toobig" /\ a.info \in Nat \ {0}
           \/ a.kind \in {"exceeded", "refused", "fatal"} /\ a.info = 0
  <1>1. \/ a = [kind |-> "refused", info |-> 0]
        \/ \E k \in 1 .. Dist - 1 :
              a = [kind |-> "exceeded", info |-> 0] \/ a = [kind |-> "toobig", info |-> Links[k + 1]]
    BY DEF Answers
  <1>2. \A k \in 1 .. Dist - 1 : Links[k + 1] \in Nat \ {0}
    BY TracepathAssumption DEF Dist
  <1> QED BY <1>1, <1>2

LEMMA SendTypes ==
    ASSUME TypeOK, SendOk \/ SendFails, fifo' = fifo
    PROVE  TypeOK'
  <1>1. LoopOK /\ SlotsOK /\ FoundOK /\ WorldOK
    BY TypeSplit
  <1>2. /\ UNCHANGED <<ttl, tries, fails, mtu, oldMtu, hopsTo, hopsFrom, refused, line>>
        /\ his' = Recorded /\ pc' \in {"wait", "drain"}
        /\ after' \in {after, "send"} /\ progress' \in {progress, FALSE}
    BY Zenon DEF SendOk, SendFails, loop, found
  <1>3. LoopOK' /\ FoundOK'
    BY <1>1, <1>2 DEF LoopOK, FoundOK
  <1>4. hisptr' \in 0 .. Slots - 1
    BY <1>1, Constants, RingNext DEF SendOk, SendFails, SlotsOK, Advance
  <1>5. SlotsOK'
    <2>1. Recorded \in [0 .. Slots - 1 -> 0 .. TtlMod - 1]
      BY <1>1 DEF Recorded, SlotsOK, LoopOK
    <2> QED BY <1>2, <1>4, <2>1 DEF SlotsOK
  <1>6. errq' \in Seq(Errors)
    <2>1. Links[1] \in Nat \ {0}
      BY TracepathAssumption
    <2>2. [kind |-> "local", info |-> Links[1], slot |-> hisptr, ttl |-> ttl] \in Errors
      BY <1>1, <2>1 DEF Errors, SlotsOK, LoopOK
    <2> QED BY <1>1, <2>2 DEF SendOk, SendFails, WorldOK
  <1>7. net' \subseteq Probes
    <2>1. [age |-> 0, slot |-> hisptr, ttl |-> ttl, size |-> mtu] \in Probes
      <3>1. 0 \in 0 .. MaxAge - 1
        BY Constants
      <3> QED BY <1>1, <3>1 DEF Probes, SlotsOK, LoopOK, WorldOK
    <2>2. Aged \subseteq Probes
      <3> SUFFICES ASSUME NEW x \in Aged PROVE x \in Probes
        OBVIOUS
      <3>1. PICK p \in net : p.age + 1 < MaxAge /\ x = [p EXCEPT !.age = p.age + 1]
        BY DEF Aged
      <3>2. p \in Probes
        BY <1>1 DEF WorldOK
      <3>3. p.age + 1 \in 0 .. MaxAge - 1
        BY <3>1, <3>2, Constants DEF Probes
      <3> QED BY <3>1, <3>2, <3>3 DEF Probes
    <2> QED BY <1>1, <2>1, <2>2 DEF SendOk, SendFails, WorldOK
  <1>8. faults' \in 0 .. MaxFaults
    BY <1>1, Constants DEF SendOk, SendFails, WorldOK
  <1>9. WorldOK'
    BY <1>1, <1>2, <1>6, <1>7, <1>8, Zenon DEF WorldOK
  <1> QED BY <1>3, <1>5, <1>9, TypeJoined

LEMMA WaitTypes ==
    ASSUME TypeOK, WaitEnds \/ DataReply, fifo' = fifo
    PROVE  TypeOK'
  <1>1. LoopOK /\ SlotsOK /\ FoundOK /\ WorldOK
    BY TypeSplit
  <1>2. /\ UNCHANGED <<mtu, his, hisptr, hopsTo, hopsFrom, refused, line, net, errq>>
        /\ after' \in {after, "wait"} /\ progress' \in {progress, FALSE}
    BY Zenon DEF WaitEnds, DataReply, found, loop
  <1>3. LoopOK'
    <2>1. CASE WaitEnds
      BY <1>1, <2>1 DEF WaitEnds, LoopOK, loop
    <2>2. CASE DataReply
      BY <1>1, <2>2, ProbeReturnsOK DEF DataReply, WorldOK
    <2> QED BY <2>1, <2>2
  <1>4. faults' \in 0 .. MaxFaults
    BY <1>1, Constants DEF WaitEnds, DataReply, WorldOK
  <1>5. SlotsOK' /\ FoundOK'
    BY <1>1, <1>2 DEF SlotsOK, FoundOK
  <1>6. WorldOK'
    BY <1>1, <1>2, <1>4, Zenon DEF WorldOK
  <1> QED BY <1>3, <1>5, <1>6, TypeJoined

(* What reading one error does, whatever its kind.                         *)
LEMMA DrainErrorParts ==
    ASSUME TypeOK, NEW echo, DrainError(echo)
    PROVE  LET e == Head(errq) IN
           /\ pc = "drain" /\ errq # <<>> /\ errq' = Tail(errq) /\ progress' = TRUE
           /\ UNCHANGED <<after, net, faults, hisptr>>
           /\ line' = line \/ (e.kind # "local" /\ line' = [hops |-> sndhops(e, echo), sent |-> e.ttl])
           /\ his' = Consumed(e) \/ his' = Released(Consumed(e))
           /\ LoopOK' /\ mtu' \in Nat \ {0}
           /\ UNCHANGED found \/ (/\ hopsTo' \in {ttl, sndhops(e, echo)}
                                  /\ hopsFrom' = rethops(ReturnTtl) /\ refused' = e.ttl)
  <1> DEFINE e == Head(errq)
  <1>1. LoopOK /\ SlotsOK /\ FoundOK /\ WorldOK
    BY TypeSplit
  <1>2. /\ pc = "drain" /\ errq # <<>> /\ errq' = Tail(errq) /\ progress' = TRUE
        /\ UNCHANGED <<after, net, faults>>
        /\ line' = line \/ (e.kind # "local" /\ line' = [hops |-> sndhops(e, echo), sent |-> e.ttl])
    BY DEF DrainError
  <1>3. /\ e.kind \in {"local", "toobig", "exceeded", "refused", "fatal"}
        /\ e.kind \in {"local", "toobig"} => e.info \in Nat \ {0}
    BY <1>1, <1>2, HeadParts
  <1>4. /\ mtu \in Nat \ {0} /\ hisptr \in 0 .. Slots - 1 /\ after \in {"send", "wait"}
    BY <1>1 DEF WorldOK, SlotsOK
  <1>5. CASE e.kind \in {"local", "toobig"}
    <2>1. /\ mtu' = e.info /\ his' = Consumed(e)
          /\ UNCHANGED <<pc, ttl, tries, fails, oldMtu, hisptr, found>>
      BY <1>5 DEF DrainError, NewMtu
    <2> QED BY <1>1, <1>2, <1>3, <1>5, <2>1 DEF LoopOK
  <1>6. CASE e.kind = "exceeded"
    <2>1. his' = Consumed(e) /\ UNCHANGED <<pc, ttl, tries, fails, mtu, oldMtu, hisptr, found>>
      BY <1>6 DEF DrainError, loop
    <2> QED BY <1>1, <1>2, <1>4, <2>1 DEF LoopOK
  <1>7. CASE e.kind = "refused"
    <2>1. /\ hopsTo' = IF sndhops(e, echo) = Unknown THEN ttl ELSE sndhops(e, echo)
          /\ hopsFrom' = rethops(ReturnTtl) /\ refused' = e.ttl
          /\ his' = Released(Consumed(e)) /\ DrainReturns("over") /\ mtu' = mtu
      BY <1>7 DEF DrainError
    <2>2. LoopOK' /\ hisptr' = hisptr
      BY <1>1, <1>4, <2>1, DrainReturnsOK
    <2> QED BY <1>2, <1>4, <2>1, <2>2
  <1>8. CASE e.kind = "fatal"
    <2>1. his' = Released(Consumed(e)) /\ DrainReturns("over") /\ UNCHANGED <<mtu, found>>
      BY <1>8 DEF DrainError
    <2>2. LoopOK' /\ hisptr' = hisptr
      BY <1>1, <1>4, <2>1, DrainReturnsOK
    <2> QED BY <1>2, <1>4, <2>1, <2>2
  <1> QED BY <1>3, <1>5, <1>6, <1>7, <1>8, Zenon

LEMMA DrainTypes ==
    ASSUME TypeOK, NEW echo, DrainError(echo) \/ DrainEmpty, fifo' = fifo
    PROVE  TypeOK'
  <1>1. LoopOK /\ SlotsOK /\ FoundOK /\ WorldOK
    BY TypeSplit
  <1>2. CASE DrainError(echo)
    <2> DEFINE e == Head(errq)
    <2>1. /\ errq # <<>> /\ errq' = Tail(errq) /\ progress' = TRUE
          /\ UNCHANGED <<after, net, faults, hisptr>>
          /\ line' = line \/ line' = [hops |-> sndhops(e, echo), sent |-> e.ttl]
          /\ his' = Consumed(e) \/ his' = Released(Consumed(e))
          /\ LoopOK' /\ mtu' \in Nat \ {0}
          /\ UNCHANGED found \/ (/\ hopsTo' \in {ttl, sndhops(e, echo)}
                                 /\ hopsFrom' = rethops(ReturnTtl) /\ refused' = e.ttl)
      BY <1>2, DrainErrorParts, Zenon
    <2>2. e.slot \in 0 .. Slots - 1 /\ e.ttl \in 0 .. TtlMod - 1 /\ Tail(errq) \in Seq(Errors)
      BY <1>1, <2>1, HeadParts
    <2>3. sndhops(e, echo) \in -1 .. TtlMod - 1
      BY <1>1, <2>2, SndhopsType
    <2> HIDE DEF e
    <2>4. SlotsOK'
      BY <1>1, <2>1, <2>2, ReleaseTypes DEF SlotsOK
    <2>5. ttl \in -1 .. TtlMod - 1 /\ e.ttl \in -1 .. TtlMod - 1 /\ rethops(ReturnTtl) \in 1 .. 127
      BY <1>1, <2>2, RethopsType DEF LoopOK
    <2>6. line' \in [hops : -1 .. TtlMod - 1, sent : -1 .. TtlMod - 1]
      BY <1>1, <2>1, <2>3, <2>5 DEF FoundOK
    <2>7. FoundOK'
      <3>1. CASE UNCHANGED found
        BY <1>1, <2>6, <3>1, Zenon DEF FoundOK, found
      <3>2. CASE /\ hopsTo' \in {ttl, sndhops(e, echo)}
                 /\ hopsFrom' = rethops(ReturnTtl) /\ refused' = e.ttl
        BY <2>3, <2>5, <2>6, <3>2, Zenon DEF FoundOK
      <3> QED BY <2>1, <3>1, <3>2, Zenon
    <2>8. WorldOK'
      BY <1>1, <2>1, <2>2 DEF WorldOK
    <2> QED BY <2>1, <2>4, <2>7, <2>8, TypeJoined
  <1>3. CASE DrainEmpty
    <2>1. /\ his' = Released(his) /\ DrainReturns(IF progress THEN "progress" ELSE "silence")
          /\ UNCHANGED <<after, mtu, progress, hopsTo, hopsFrom, refused, net, errq, faults, line>>
      BY <1>3 DEF DrainEmpty, found
    <2>2. LoopOK' /\ (hisptr' = hisptr \/ Advance)
      BY <1>1, <2>1, DrainReturnsOK DEF WorldOK, SlotsOK
    <2>3. his' \in [0 .. Slots - 1 -> 0 .. TtlMod - 1]
      BY <1>1, <2>1, Constants DEF Released, SlotsOK
    <2>4. SlotsOK'
      BY <1>1, <2>2, <2>3, Constants, RingNext DEF SlotsOK, Advance
    <2>5. FoundOK' /\ WorldOK'
      BY <1>1, <2>1 DEF FoundOK, WorldOK
    <2> QED BY <2>2, <2>4, <2>5, TypeJoined
  <1> QED BY <1>2, <1>3

LEMMA NetworkTypes ==
    ASSUME TypeOK, NEW p \in net, Deliver(p) \/ Lose(p), fifo' = fifo
    PROVE  TypeOK'
  <1>1. LoopOK /\ SlotsOK /\ FoundOK /\ WorldOK
    BY TypeSplit
  <1>2. /\ UNCHANGED <<pc, after, ttl, tries, fails, mtu, oldMtu, his, hisptr, progress, hopsTo,
                       hopsFrom, refused, line>>
        /\ net' \subseteq net /\ faults' \in {faults} \union (IF faults > 0 THEN {faults - 1} ELSE {})
    BY DEF Deliver, Lose, loop, found
  <1>3. errq' \in Seq(Errors)
    <2>1. CASE Lose(p)
      BY <1>1, <2>1 DEF Lose, WorldOK
    <2>2. CASE Deliver(p)
      BY <1>1, <2>2, AnswersType, QueuedType DEF Deliver
    <2> QED BY <2>1, <2>2
  <1>4. faults' \in 0 .. MaxFaults
    BY <1>1, <1>2, Constants DEF WorldOK
  <1>5. LoopOK' /\ SlotsOK' /\ FoundOK'
    BY <1>1, <1>2 DEF LoopOK, SlotsOK, FoundOK
  <1>6. WorldOK'
    BY <1>1, <1>2, <1>3, <1>4 DEF WorldOK
  <1> QED BY <1>5, <1>6, TypeJoined

LEMMA NextTypeOK == TypeOK /\ [Next]_vars => TypeOK'
  <1> SUFFICES ASSUME TypeOK, [Next]_vars PROVE TypeOK'
    OBVIOUS
  <1>1. CASE UNCHANGED vars
    BY <1>1 DEF TypeOK, vars, loop, found
  <1>2. CASE (Process \/ Network) /\ UNCHANGED fifo
    BY <1>2, SendTypes, WaitTypes, DrainTypes, NetworkTypes DEF Process, Network
  <1> QED BY <1>1, <1>2 DEF Next, Stopped

-----------------------------------------------------------------------------
(* The ring.                                                               *)

(* An answer comes before the ring has come round.                         *)
Roomy == MaxAge + MaxFaults < Slots

SlotInv == FaultInv /\ NetInv /\ ErrInv

LEMMA MovesType ==
    ASSUME TypeOK, FaultInv
    PROVE  Moves \in 0 .. MaxFaults
  <1>1. faults \in 0 .. MaxFaults /\ MaxFaults \in Nat
    BY Constants DEF TypeOK
  <1>2. CASE Unsettled
    BY <1>1, <1>2 DEF Moves, FaultInv
  <1>3. CASE ~Unsettled
    BY <1>1, <1>3 DEF Moves
  <1> QED BY <1>2, <1>3

LEMMA Members ==
    ASSUME TypeOK
    PROVE  /\ \A p \in net : p.slot \in 0 .. Slots - 1 /\ p.age \in 0 .. MaxAge - 1 /\ p.ttl \in 0 .. TtlMod - 1
           /\ Len(errq) \in Nat
           /\ \A i \in 1 .. Len(errq) : errq[i].slot \in 0 .. Slots - 1
  <1>1. net \subseteq Probes /\ errq \in Seq(Errors)
    BY DEF TypeOK
  <1>2. \A i \in 1 .. Len(errq) : errq[i] \in Errors
    BY <1>1
  <1>3. \A e \in Errors : e.slot \in 0 .. Slots - 1
    BY DEF Errors
  <1> QED BY <1>1, <1>2, <1>3 DEF Probes

(* With room in the ring the slot at hisptr is nobody's.                   *)
LEMMA PointerFree ==
    ASSUME TypeOK, FaultInv, Roomy, NEW s \in 0 .. Slots - 1, NEW b \in 0 .. MaxAge - 1,
           Back(hisptr, s) <= b + Moves
    PROVE  s # hisptr
  <1>1. hisptr \in 0 .. Slots - 1 /\ Moves \in 0 .. MaxFaults
    BY MovesType DEF TypeOK
  <1>2. Back(hisptr, s) < Slots - 1
    BY <1>1, BackType, Constants DEF Roomy
  <1> QED BY <1>1, <1>2, BackType

(* A step without a new probe: it may write the slot at hisptr, release    *)
(* others, lose probes, queue their answers, read errors, and move the     *)
(* ring on once for a fault it settles.                                    *)
LEMMA NoNewProbe ==
    ASSUME TypeOK, TypeOK', SlotInv, FaultInv',
           \/ hisptr' = hisptr /\ Moves' >= Moves
           \/ Advance /\ Moves' >= Moves + 1,
           \A s \in 0 .. Slots - 1 : (s = hisptr /\ Roomy) \/ his'[s] = 0 \/ his'[s] = his[s],
           net' \subseteq net,
           \A i \in 1 .. Len(errq') :
              \/ errq'[i].kind = "local"
              \/ \E j \in 1 .. Len(errq) : errq'[i] = errq[j]
              \/ \E p \in net : errq'[i].slot = p.slot /\ errq'[i].ttl = p.ttl
    PROVE  SlotInv'
  <1>1. Moves \in Int /\ Moves' \in Int
    <2>1. Moves \in Int
      BY MovesType, Constants DEF SlotInv
    <2>2. faults' \in Int /\ MaxFaults \in Int
      BY Constants DEF TypeOK
    <2> QED BY <2>1, <2>2 DEF Moves
  <1>2. hisptr \in 0 .. Slots - 1 /\ MaxAge \in Nat /\ MaxAge > 0
    BY Constants DEF TypeOK
  <1>3. ASSUME NEW s \in 0 .. Slots - 1, NEW b \in 0 .. MaxAge - 1, Back(hisptr, s) <= b + Moves
        PROVE  Back(hisptr', s) <= b + Moves'
    <2>1. CASE hisptr' = hisptr /\ Moves' >= Moves
      <3>1. Back(hisptr, s) \in Int
        BY <1>2, BackType
      <3> QED BY <1>1, <1>3, <2>1, <3>1
    <2>2. CASE Advance /\ Moves' >= Moves + 1
      <3>1. Back(hisptr', s) <= Back(hisptr, s) + 1 /\ Back(hisptr, s) \in Int
        BY <1>2, <2>2, BackAdvances, BackType
      <3>2. Back(hisptr', s) \in Int
        BY <1>2, <2>2, BackAdvances, Constants DEF Back
      <3> QED BY <1>1, <1>3, <2>2, <3>1, <3>2
    <2> QED BY <2>1, <2>2
  <1>4. ASSUME NEW s \in 0 .. Slots - 1, NEW b \in 0 .. MaxAge - 1, Back(hisptr, s) <= b + Moves,
               NEW t, Holds(his, s, t)
        PROVE  Holds(his', s, t)
    <2>1. Roomy => s # hisptr
      BY <1>4, PointerFree DEF SlotInv
    <2> QED BY <1>4, <2>1 DEF Holds
  <1>5. ASSUME NEW p \in net
        PROVE  Back(hisptr', p.slot) <= p.age + Moves' /\ Holds(his', p.slot, p.ttl)
    <2>1. p.slot \in 0 .. Slots - 1 /\ p.age \in 0 .. MaxAge - 1
      BY Members
    <2>2. Back(hisptr, p.slot) <= p.age + Moves /\ Holds(his, p.slot, p.ttl)
      BY DEF SlotInv, NetInv
    <2> QED BY <1>3, <1>4, <2>1, <2>2
  <1>6. NetInv'
    BY <1>5 DEF NetInv
  <1>7. ErrInv'
    <2> SUFFICES ASSUME NEW i \in 1 .. Len(errq'), errq'[i].kind # "local"
                 PROVE  /\ Back(hisptr', errq'[i].slot) <= MaxAge - 1 + Moves'
                        /\ Holds(his', errq'[i].slot, errq'[i].ttl)
      BY DEF ErrInv
    <2>1. CASE \E j \in 1 .. Len(errq) : errq'[i] = errq[j]
      <3>1. PICK j \in 1 .. Len(errq) : errq'[i] = errq[j]
        BY <2>1
      <3> DEFINE s == errq[j].slot  t == errq[j].ttl
      <3>2. s \in 0 .. Slots - 1 /\ MaxAge - 1 \in 0 .. MaxAge - 1
        BY <1>2, Members
      <3>3. Back(hisptr, s) <= MaxAge - 1 + Moves /\ Holds(his, s, t)
        BY <3>1 DEF SlotInv, ErrInv
      <3>4. Back(hisptr', s) <= MaxAge - 1 + Moves' /\ Holds(his', s, t)
        BY <1>3, <1>4, <3>2, <3>3
      <3> QED BY <3>1, <3>4
    <2>2. CASE \E p \in net : errq'[i].slot = p.slot /\ errq'[i].ttl = p.ttl
      <3>1. PICK p \in net : errq'[i].slot = p.slot /\ errq'[i].ttl = p.ttl
        BY <2>2
      <3>2. Back(hisptr', p.slot) <= p.age + Moves' /\ Holds(his', p.slot, p.ttl)
        BY <1>5
      <3>3. p.age <= MaxAge - 1 /\ p.age \in Int /\ p.slot \in 0 .. Slots - 1
        BY <1>2, Members
      <3>4. Back(hisptr', p.slot) \in Int
        <4>1. hisptr' \in Int
          BY DEF TypeOK
        <4> QED BY <3>3, <4>1, Constants DEF Back
      <3>5. Back(hisptr', p.slot) <= MaxAge - 1 + Moves'
        BY <1>1, <1>2, <3>2, <3>3, <3>4
      <3> QED BY <3>1, <3>2, <3>5
    <2> QED BY <2>1, <2>2
  <1> QED BY <1>6, <1>7 DEF SlotInv

LEMMA WaitSlots ==
    ASSUME IInv, TypeOK', WaitEnds \/ DataReply
    PROVE  SlotInv' /\ Attribution'
  <1>1. TypeOK /\ SlotInv /\ Attribution
    BY DEF IInv, SlotInv
  <1>2. /\ pc = "wait" /\ UNCHANGED <<his, hisptr, net, errq, line>>
        /\ faults' = faults \/ faults' = faults - 1
    BY DEF WaitEnds, DataReply
  <1>3. ~Unsettled /\ ~Unsettled'
    <2>1. after' = "wait" \/ pc' # "drain"
      BY <1>1, TypeSplit, ProbeReturnsOK DEF WaitEnds, DataReply, WorldOK
    <2> QED BY <1>2, <2>1 DEF Unsettled
  <1>4. Moves' >= Moves
    <2>1. MaxFaults \in Int /\ faults \in Int
      BY <1>1, Constants DEF TypeOK
    <2> QED BY <1>2, <1>3, <2>1 DEF Moves
  <1>5. SlotInv'
    BY <1>1, <1>2, <1>3, <1>4, NoNewProbe DEF FaultInv
  <1> QED BY <1>1, <1>2, <1>5 DEF Attribution

LEMMA DrainErrorSlots ==
    ASSUME IInv, TypeOK', NEW echo, DrainError(echo)
    PROVE  SlotInv' /\ Attribution'
  <1> DEFINE e == Head(errq)
  <1>1. TypeOK /\ SlotInv /\ Attribution /\ LoopOK /\ SlotsOK /\ WorldOK
    BY TypeSplit DEF IInv, SlotInv
  <1>2. /\ errq # <<>> /\ errq' = Tail(errq) /\ progress' = TRUE
        /\ UNCHANGED <<net, faults, hisptr>>
        /\ line' = line \/ (e.kind # "local" /\ line' = [hops |-> sndhops(e, echo), sent |-> e.ttl])
        /\ his' = Consumed(e) \/ his' = Released(Consumed(e))
    BY <1>1, DrainErrorParts, Zenon
  <1>3. /\ e = errq[1] /\ 1 \in 1 .. Len(errq) /\ e.slot \in 0 .. Slots - 1 /\ e.ttl \in 0 .. TtlMod - 1
        /\ Len(Tail(errq)) = Len(errq) - 1
        /\ \A i \in 1 .. Len(errq) - 1 : Tail(errq)[i] = errq[i + 1]
    BY <1>1, <1>2, HeadParts
  <1>4. ~Unsettled /\ ~Unsettled'
    BY <1>2 DEF Unsettled
  <1>5. Moves' >= Moves
    BY <1>1, <1>2, <1>4, Constants DEF Moves, TypeOK
  <1>6. \A s \in 0 .. Slots - 1 : his'[s] = 0 \/ his'[s] = his[s]
    BY <1>1, <1>2, <1>3, ReleaseTypes
  <1>7. \A i \in 1 .. Len(errq') : \E j \in 1 .. Len(errq) : errq'[i] = errq[j]
    <2> TAKE i \in 1 .. Len(errq')
    <2>1. Len(errq) \in Nat
      BY <1>1, Members
    <2>2. i \in 1 .. Len(errq) - 1 /\ i + 1 \in 1 .. Len(errq)
      BY <1>2, <1>3, <2>1
    <2>3. errq'[i] = errq[i + 1]
      BY <1>2, <1>3, <2>2
    <2> QED BY <2>2, <2>3
  <1>8. SlotInv'
    BY <1>1, <1>2, <1>4, <1>5, <1>6, <1>7, NoNewProbe DEF FaultInv
  <1>9. Attribution'
    <2>1. CASE line' = line
      BY <1>1, <2>1 DEF Attribution
    <2>2. CASE e.kind # "local" /\ line' = [hops |-> sndhops(e, echo), sent |-> e.ttl]
      <3>1. Holds(his, e.slot, e.ttl)
        BY <1>1, <1>3, <2>2 DEF SlotInv, ErrInv
      <3>2. sndhops(e, echo) = e.ttl \/ sndhops(e, echo) = -1
        BY <3>1 DEF sndhops, Holds, Unknown
      <3>3. sndhops(e, echo) > 0 => sndhops(e, echo) = e.ttl
        BY <3>2
      <3> QED BY <2>2, <3>3 DEF Attribution
    <2> QED BY <1>2, <2>1, <2>2
  <1> QED BY <1>8, <1>9

LEMMA DrainEmptySlots ==
    ASSUME IInv, TypeOK', DrainEmpty
    PROVE  SlotInv' /\ Attribution'
  <1>1. TypeOK /\ SlotInv /\ Attribution /\ LoopOK /\ SlotsOK /\ WorldOK
    BY TypeSplit DEF IInv, SlotInv
  <1> DEFINE res == IF progress THEN "progress" ELSE "silence"
  <1>2. /\ pc = "drain" /\ errq = <<>> /\ his' = Released(his) /\ DrainReturns(res)
        /\ UNCHANGED <<progress, net, errq, faults, line>>
    BY DEF DrainEmpty
  <1>3. /\ pc' # "drain"
        /\ hisptr' = hisptr \/ (Advance /\ after = "send" /\ res = "silence")
    BY <1>1, <1>2, DrainReturnsOK DEF WorldOK, SlotsOK
  <1>4. ~Unsettled'
    BY <1>3 DEF Unsettled
  <1>5. \/ hisptr' = hisptr /\ Moves' >= Moves
        \/ Advance /\ Moves' >= Moves + 1
    <2>1. MaxFaults \in Int /\ faults \in Int
      BY <1>1, Constants DEF TypeOK
    <2>2. Moves' = MaxFaults - faults
      BY <1>2, <1>4, <2>1 DEF Moves
    <2>3. Moves \in {MaxFaults - faults, MaxFaults - faults - 1}
      BY <2>1 DEF Moves
    <2>4. CASE hisptr' = hisptr
      BY <2>1, <2>2, <2>3, <2>4
    <2>5. CASE Advance /\ after = "send" /\ res = "silence"
      <3>1. Unsettled
        BY <1>2, <2>5 DEF Unsettled
      <3>2. Moves = MaxFaults - faults - 1
        BY <3>1 DEF Moves
      <3> QED BY <2>1, <2>2, <2>5, <3>2
    <2> QED BY <1>3, <2>4, <2>5
  <1>6. \A s \in 0 .. Slots - 1 : his'[s] = 0 \/ his'[s] = his[s]
    BY <1>1, <1>2 DEF Released, SlotsOK
  <1>7. SlotInv'
    BY <1>1, <1>2, <1>4, <1>5, <1>6, NoNewProbe DEF FaultInv
  <1> QED BY <1>1, <1>2, <1>7 DEF Attribution

LEMMA NetworkSlots ==
    ASSUME IInv, TypeOK', NEW p \in net, Deliver(p) \/ Lose(p)
    PROVE  SlotInv' /\ Attribution'
  <1>1. TypeOK /\ SlotInv /\ Attribution /\ WorldOK
    BY TypeSplit DEF IInv, SlotInv
  <1>2. /\ UNCHANGED <<pc, after, his, hisptr, progress, line>> /\ net' \subseteq net
        /\ faults' = faults \/ faults' = faults - 1
    BY DEF Deliver, Lose
  <1>3. MaxFaults \in Int /\ faults \in Int /\ Len(errq) \in Nat
    <2>1. MaxFaults \in Nat /\ faults \in 0 .. MaxFaults
      BY <1>1, Constants, Zenon DEF TypeOK
    <2>2. Len(errq) \in Nat
      BY <1>1, Members, Zenon
    <2> QED BY <2>1, <2>2
  <1>4. CASE Lose(p)
    <2>1. UNCHANGED <<errq, faults>>
      BY <1>4 DEF Lose
    <2>2. Unsettled' = Unsettled /\ Moves' = Moves
      BY <1>2, <2>1 DEF Unsettled, Moves
    <2>3. Moves' >= Moves /\ FaultInv'
      BY <1>1, <1>3, <2>1, <2>2 DEF Moves, FaultInv, SlotInv
    <2> QED BY <1>1, <1>2, <2>1, <2>3, NoNewProbe DEF Attribution
  <1>5. CASE Deliver(p)
    <2>1. /\ errq' \in Seq(Errors) /\ Len(errq') = Len(errq) + 1
          /\ \A i \in 1 .. Len(errq) : errq'[i] = errq[i]
          /\ errq'[Len(errq) + 1].slot = p.slot /\ errq'[Len(errq) + 1].ttl = p.ttl
      BY <1>1, <1>5, AnswersType, QueuedType DEF Deliver
    <2>2. ~Unsettled'
      <3>1. errq' # <<>>
        BY <1>3, <2>1
      <3> QED BY <3>1 DEF Unsettled
    <2>3. Moves' >= Moves
      BY <1>2, <1>3, <2>2 DEF Moves
    <2>4. \A i \in 1 .. Len(errq') :
             \/ \E j \in 1 .. Len(errq) : errq'[i] = errq[j]
             \/ \E q \in net : errq'[i].slot = q.slot /\ errq'[i].ttl = q.ttl
      <3> TAKE i \in 1 .. Len(errq')
      <3>1. i \in 1 .. Len(errq) \/ i = Len(errq) + 1
        BY <1>3, <2>1
      <3> QED BY <2>1, <3>1
    <2> QED BY <1>1, <1>2, <2>2, <2>3, <2>4, NoNewProbe DEF FaultInv, Attribution
  <1> QED BY <1>4, <1>5

LEMMA SendFailsSlots ==
    ASSUME IInv, TypeOK', SendFails, Roomy
    PROVE  SlotInv' /\ Attribution'
  <1>1. TypeOK /\ SlotInv /\ Attribution /\ LoopOK /\ SlotsOK /\ WorldOK
    BY TypeSplit DEF IInv, SlotInv
  <1>2. /\ pc = "send" /\ his' = Recorded /\ UNCHANGED <<hisptr, net, line>>
        /\ \/ errq' = Append(errq, [kind |-> "local", info |-> Links[1], slot |-> hisptr, ttl |-> ttl])
              /\ faults' = faults
           \/ errq # <<>> /\ UNCHANGED <<errq, faults>>
           \/ faults' = faults - 1 /\ errq' = errq
    BY DEF SendFails
  <1>3. MaxFaults \in Int /\ faults \in Int /\ faults <= MaxFaults /\ Len(errq) \in Nat /\ errq \in Seq(Errors)
    BY <1>1, Constants, Members DEF TypeOK
  <1>4. ~Unsettled
    BY <1>2 DEF Unsettled
  <1>5. Unsettled' => faults' = faults - 1
    <2>1. ASSUME NEW x PROVE Append(errq, x) # <<>>
      BY <1>3
    <2> QED BY <1>2, <2>1 DEF Unsettled
  <1>6. Moves' >= Moves /\ FaultInv'
    <2>1. Moves = MaxFaults - faults
      BY <1>3, <1>4 DEF Moves
    <2>2. CASE Unsettled'
      BY <1>3, <1>5, <2>1, <2>2 DEF Moves, FaultInv
    <2>3. CASE ~Unsettled'
      <3>1. faults' = faults \/ faults' = faults - 1
        BY <1>2
      <3>2. Moves' = MaxFaults - faults'
        BY <1>3, <2>3, <3>1 DEF Moves
      <3>3. FaultInv'
        BY <2>3 DEF FaultInv
      <3>4. Moves' >= Moves
        <4>1. MaxFaults \in Int /\ faults \in Int
          BY <1>3
        <4>2. MaxFaults - faults' >= MaxFaults - faults
          BY <3>1, <4>1
        <4> QED BY <2>1, <3>2, <4>2
      <3> QED BY <3>3, <3>4
    <2> QED BY <2>2, <2>3
  <1>7. \A s \in 0 .. Slots - 1 : s = hisptr \/ his'[s] = his[s]
    BY <1>1, <1>2 DEF Recorded, SlotsOK
  <1>8. \A i \in 1 .. Len(errq') :
           errq'[i].kind = "local" \/ \E j \in 1 .. Len(errq) : errq'[i] = errq[j]
    <2>1. CASE errq' = errq
      BY <2>1
    <2>2. CASE errq' # errq
      <3> DEFINE e == [kind |-> "local", info |-> Links[1], slot |-> hisptr, ttl |-> ttl]
      <3>1. errq' = Append(errq, e) /\ e.kind = "local"
        BY <1>2, <2>2
      <3> HIDE DEF e
      <3>2. /\ Len(errq') = Len(errq) + 1 /\ errq'[Len(errq) + 1] = e
            /\ \A i \in 1 .. Len(errq) : errq'[i] = errq[i]
        BY <1>3, <3>1
      <3> TAKE i \in 1 .. Len(errq')
      <3>3. i \in 1 .. Len(errq) \/ i = Len(errq) + 1
        BY <1>3, <3>2
      <3> QED BY <3>1, <3>2, <3>3
    <2> QED BY <2>1, <2>2
  <1>9. SlotInv'
    BY <1>1, <1>2, <1>6, <1>7, <1>8, NoNewProbe
  <1> QED BY <1>1, <1>2, <1>9 DEF Attribution

(* A new probe takes the slot at hisptr, which no other probe holds.       *)
LEMMA SendOkSlots ==
    ASSUME IInv, TypeOK', SendOk, Roomy
    PROVE  SlotInv' /\ Attribution'
  <1>1. TypeOK /\ SlotInv /\ Attribution /\ LoopOK /\ SlotsOK /\ WorldOK
    BY TypeSplit DEF IInv, SlotInv
  <1> DEFINE new == [age |-> 0, slot |-> hisptr, ttl |-> ttl, size |-> mtu]
  <1>2. /\ pc = "send" /\ pc' = "wait" /\ his' = Recorded /\ Advance /\ net' = Aged \union {new}
        /\ errq = <<>> /\ UNCHANGED <<errq, faults, line>>
    BY DEF SendOk
  <1>3. ~Unsettled /\ ~Unsettled'
    BY <1>2 DEF Unsettled
  <1>4. Moves' = Moves /\ Moves \in Nat
    <2>1. Moves' = Moves
      BY <1>2, <1>3 DEF Moves
    <2>2. Moves \in Nat
      BY <1>1, MovesType, Constants DEF SlotInv
    <2> QED BY <2>1, <2>2
  <1>5. hisptr \in 0 .. Slots - 1 /\ his \in [0 .. Slots - 1 -> 0 .. TtlMod - 1]
    BY <1>1 DEF SlotsOK
  <1>6. ASSUME NEW x \in Aged
        PROVE  Back(hisptr', x.slot) <= x.age + Moves' /\ Holds(his', x.slot, x.ttl)
    <2>1. PICK p \in net : x = [p EXCEPT !.age = p.age + 1]
      BY DEF Aged
    <2>2. p.slot \in 0 .. Slots - 1 /\ p.age \in 0 .. MaxAge - 1 /\ p \in Probes
      BY <1>1, Members DEF WorldOK
    <2>3. x.slot = p.slot /\ x.ttl = p.ttl /\ x.age = p.age + 1
      BY <2>1, <2>2 DEF Probes
    <2>4. Back(hisptr, p.slot) <= p.age + Moves /\ Holds(his, p.slot, p.ttl)
      BY <1>1 DEF SlotInv, NetInv
    <2>5. p.slot # hisptr
      BY <1>1, <2>2, <2>4, PointerFree DEF SlotInv
    <2>6. Holds(his', p.slot, p.ttl)
      BY <1>2, <1>5, <2>2, <2>4, <2>5 DEF Holds, Recorded
    <2>7. Back(hisptr', p.slot) <= p.age + 1 + Moves
      <3>1. Back(hisptr', p.slot) <= Back(hisptr, p.slot) + 1 /\ hisptr' \in 0 .. Slots - 1
        BY <1>2, <1>5, <2>2, BackAdvances
      <3>2. Back(hisptr', p.slot) \in Int /\ Back(hisptr, p.slot) \in Int
        <4>1. hisptr' \in Int /\ hisptr \in Int /\ p.slot \in Int
          BY <1>5, <2>2, <3>1, Constants
        <4> QED BY <4>1, BackInt, Zenon
      <3> QED BY <1>4, <2>2, <2>4, <3>1, <3>2
    <2> QED BY <1>4, <2>3, <2>6, <2>7
  <1>7. Back(hisptr', new.slot) <= new.age + Moves' /\ Holds(his', new.slot, new.ttl)
    <2>1. Back(hisptr', hisptr) = 0
      BY <1>2, <1>5, BackAdvances
    <2>2. his'[hisptr] = ttl
      BY <1>2, <1>5 DEF Recorded
    <2> QED BY <1>4, <2>1, <2>2 DEF Holds
  <1> HIDE DEF new
  <1>8. NetInv'
    BY <1>2, <1>6, <1>7 DEF NetInv
  <1>9. ErrInv'
    <2>1. Len(errq') = 0
      BY <1>2
    <2> QED BY <2>1 DEF ErrInv
  <1>10. FaultInv'
    BY <1>3 DEF FaultInv
  <1> QED BY <1>1, <1>2, <1>8, <1>9, <1>10 DEF SlotInv, Attribution

-----------------------------------------------------------------------------
LEMMA InitIInv == Init => IInv
  <1> SUFFICES ASSUME Init PROVE IInv
    OBVIOUS
  <1>1. TypeOK
    BY InitTypeOK
  <1>2. FaultInv /\ NetInv
    BY DEF Init, FaultInv, Unsettled, NetInv
  <1>3. ErrInv
    <2>1. Len(errq) = 0
      BY DEF Init
    <2> QED BY <2>1 DEF ErrInv
  <1>4. Attribution
    BY DEF Init, Attribution, Unknown
  <1> QED BY <1>1, <1>2, <1>3, <1>4 DEF IInv

LEMMA NextIInv == Roomy /\ IInv /\ [Next]_vars => IInv'
  <1> SUFFICES ASSUME Roomy, IInv, [Next]_vars PROVE IInv'
    OBVIOUS
  <1>1. TypeOK'
    BY NextTypeOK DEF IInv
  <1>2. CASE UNCHANGED vars
    <2>1. UNCHANGED <<pc, after, progress, errq, faults, net, his, hisptr, line>>
      BY <1>2 DEF vars
    <2>2. Unsettled' = Unsettled /\ Moves' = Moves
      BY <2>1 DEF Unsettled, Moves
    <2> QED BY <1>1, <2>1, <2>2 DEF IInv, FaultInv, NetInv, ErrInv, Attribution
  <1>3. CASE (Process \/ Network) /\ UNCHANGED fifo
    <2>1. SlotInv' /\ Attribution'
      BY <1>1, <1>3, SendOkSlots, SendFailsSlots, WaitSlots, DrainErrorSlots, DrainEmptySlots, NetworkSlots
      DEF Process, Network
    <2> QED BY <1>1, <2>1 DEF IInv, SlotInv
  <1> QED BY <1>2, <1>3 DEF Next, Stopped

(* Types of every trace: the counters stay within their loops, the slots   *)
(* within the ring and the MTU above zero.                                 *)
THEOREM TypeCorrect == Spec => []TypeOK
  BY InitTypeOK, NextTypeOK, PTL DEF Spec

(* An unmarked hop number is the TTL of the probe that drew the error, for *)
(* every path and every order of the answers, if no answer is as many      *)
(* probes (and failed sends) late as the ring has slots.                   *)
THEOREM ErrorsAttributed ==
    ASSUME Roomy
    PROVE  Spec => []Attribution
  <1>1. IInv /\ [Next]_vars => IInv'
    BY NextIInv
  <1>2. IInv => Attribution
    BY DEF IInv
  <1> QED BY InitIInv, <1>1, <1>2, PTL DEF Spec
-----------------------------------------------------------------------------
(* The path MTU, over a path that keeps the order of answers.              *)

Sizes == {StartMtu} \union {Links[k] : k \in 1 .. Dist}

(* Link k + 1 is the first that a datagram of size s does not fit.         *)
Narrow(s, k) == s > Links[k + 1] /\ \A i \in 1 .. k - 1 : s <= Links[i + 1]

(* e brings a new MTU.                                                     *)
Brings(e) == e.kind \in {"local", "toobig"}

(* A probe under way is no smaller than the MTU, fits our own link, and    *)
(* will not raise the MTU.                                                 *)
ProbeInv ==
    \A p \in net :
       /\ mtu <= p.size /\ p.size <= Links[1]
       /\ \A k \in 1 .. Dist - 1 : Narrow(p.size, k) => Links[k + 1] <= mtu

(* A later probe is no larger than an earlier one, and no smaller than the *)
(* MTU that the earlier one will bring.                                    *)
OrderInv ==
    \A p, q \in net :
       /\ q.age = p.age => q = p
       /\ q.age < p.age =>
             /\ q.size <= p.size
             /\ \A k \in 1 .. Dist - 1 : Narrow(p.size, k) => Links[k + 1] <= q.size

(* What is queued will not raise the MTU, and what the probes under way    *)
(* bring will not raise it after that.                                     *)
QueueInv ==
    \A i \in 1 .. Len(errq) : Brings(errq[i]) =>
       /\ errq[i].info \in Sizes /\ errq[i].info <= mtu
       /\ mtu > Links[1] => errq[i].info >= Links[1]
       /\ \A p \in net :
             /\ errq[i].info <= p.size
             /\ \A k \in 1 .. Dist - 1 : Narrow(p.size, k) => Links[k + 1] <= errq[i].info

SortedInv ==
    \A i, j \in 1 .. Len(errq) :
       i < j /\ Brings(errq[i]) /\ Brings(errq[j]) => errq[j].info <= errq[i].info

(* Once a probe has reached the target the MTU is the path's.              *)
Reached == hopsTo # Unknown \/ \E i \in 1 .. Len(errq) : errq[i].kind = "refused"
ReachInv ==
    /\ mtu \in Sizes /\ mtu <= StartMtu
    /\ Reached => \A s \in Sizes : mtu <= s

PathParts == ProbeInv /\ OrderInv /\ QueueInv /\ SortedInv /\ ReachInv
PathInv == fifo => PathParts

LEMMA LinksType ==
    /\ Dist \in Nat /\ Dist > 0 /\ StartMtu \in Nat
    /\ \A k \in 1 .. Dist : Links[k] \in Nat
    /\ Links[1] \in Nat /\ \A k \in 1 .. Dist - 1 : Links[k + 1] \in Nat
  <1>1. Dist \in Nat /\ Dist > 0 /\ StartMtu \in Nat /\ \A k \in 1 .. Dist : Links[k] \in Nat
    BY TracepathAssumption DEF Dist
  <1> QED BY <1>1

LEMMA PathTypes ==
    ASSUME TypeOK
    PROVE  /\ mtu \in Nat /\ Len(errq) \in Nat
           /\ \A p \in net : p.size \in Nat /\ p.age \in Nat
           /\ \A i \in 1 .. Len(errq) : Brings(errq[i]) => errq[i].info \in Nat
  <1>1. mtu \in Nat /\ net \subseteq Probes /\ errq \in Seq(Errors) /\ Len(errq) \in Nat
    BY DEF TypeOK
  <1>2. \A p \in net : p.size \in Nat /\ p.age \in Nat
    BY <1>1, Constants DEF Probes
  <1>3. \A e \in Errors : Brings(e) => e.info \in Nat
    BY DEF Errors, Brings
  <1>4. \A i \in 1 .. Len(errq) : errq[i] \in Errors
    BY <1>1
  <1> QED BY <1>1, <1>2, <1>3, <1>4

(* A smaller datagram gets at least as far, and then meets a link that is  *)
(* at least as narrow.                                                     *)
LEMMA NarrowOrder ==
    ASSUME NEW s \in Nat, NEW t \in Nat, t <= s,
           NEW j \in 1 .. Dist - 1, NEW k \in 1 .. Dist - 1, Narrow(s, j), Narrow(t, k)
    PROVE  Links[k + 1] <= Links[j + 1]
  <1>1. Links[j + 1] \in Nat /\ Links[k + 1] \in Nat /\ Dist \in Nat
    BY LinksType
  <1>2. s > Links[j + 1] /\ t > Links[k + 1]
    BY DEF Narrow
  <1>3. CASE k < j
    <2>1. s <= Links[k + 1]
      BY <1>1, <1>3 DEF Narrow
    <2> QED BY <1>1, <1>2, <2>1
  <1>4. CASE k = j
    BY <1>1, <1>4
  <1>5. CASE k > j
    <2>1. t <= Links[j + 1]
      BY <1>1, <1>5 DEF Narrow
    <2> QED BY <1>1, <1>2, <2>1
  <1> QED BY <1>1, <1>3, <1>4, <1>5

(* What an answer says of the path.                                        *)
LEMMA AnswerSays ==
    ASSUME NEW p, p.size \in Nat, NEW a \in Answers(p)
    PROVE  /\ a.kind \in {"toobig", "exceeded", "refused"}
           /\ a.kind = "toobig" => \E k \in 1 .. Dist - 1 : Narrow(p.size, k) /\ a.info = Links[k + 1]
           /\ a.kind = "refused" => \A k \in 1 .. Dist - 1 : p.size <= Links[k + 1]
  <1> DEFINE stops == {k \in 1 .. Dist - 1 : Stops(p, k)}
  <1>1. \A k \in 1 .. Dist - 1 : Links[k + 1] \in Nat
    BY LinksType
  <1>2. CASE stops = {}
    <2>1. a = [kind |-> "refused", info |-> 0]
      BY <1>2 DEF Answers
    <2>2. \A k \in 1 .. Dist - 1 : ~Stops(p, k)
      BY <1>2
    <2>3. \A k \in 1 .. Dist - 1 : p.size <= Links[k + 1]
      BY <1>1, <2>2 DEF Stops
    <2> QED BY <2>1, <2>3
  <1>3. CASE stops # {}
    <2>1. PICK k \in stops :
             /\ \A i \in stops : k <= i
             /\ a = IF p.ttl <= k THEN [kind |-> "exceeded", info |-> 0]
                    ELSE [kind |-> "toobig", info |-> Links[k + 1]]
      BY <1>3 DEF Answers
    <2>2. \A i \in 1 .. k - 1 : ~Stops(p, i)
      <3> TAKE i \in 1 .. k - 1
      <3>1. i \in 1 .. Dist - 1 /\ ~(k <= i)
        BY LinksType
      <3> QED BY <2>1, <3>1
    <2>3. \A i \in 1 .. k - 1 : p.size <= Links[i + 1]
      <3> TAKE i \in 1 .. k - 1
      <3>1. i \in 1 .. Dist - 1
        BY LinksType
      <3> QED BY <1>1, <2>2, <3>1 DEF Stops
    <2>4. CASE p.ttl <= k
      BY <2>1, <2>4
    <2>5. CASE ~(p.ttl <= k)
      <3>1. a = [kind |-> "toobig", info |-> Links[k + 1]] /\ p.size > Links[k + 1]
        BY <2>1, <2>5 DEF Stops
      <3>2. Narrow(p.size, k)
        BY <2>3, <3>1 DEF Narrow
      <3> QED BY <3>1, <3>2
    <2> QED BY <2>4, <2>5
  <1> QED BY <1>2, <1>3

(* Steps that neither send nor read: they may only lose probes.            *)
LEMMA QuietPath ==
    ASSUME PathParts, UNCHANGED <<mtu, errq, hopsTo>>, net' \subseteq net
    PROVE  PathParts'
  <1>1. ProbeInv'
    BY DEF PathParts, ProbeInv
  <1>2. OrderInv'
    BY DEF PathParts, OrderInv
  <1>3. QueueInv'
    BY DEF PathParts, QueueInv
  <1>4. SortedInv' /\ ReachInv'
    BY DEF PathParts, SortedInv, ReachInv, Reached
  <1> QED BY <1>1, <1>2, <1>3, <1>4 DEF PathParts

(* An error joins the queue.                                               *)
LEMMA AppendPath ==
    ASSUME TypeOK, PathParts, NEW e, errq' = Append(errq, e), net' \subseteq net,
           UNCHANGED <<mtu, hopsTo>>,
           Brings(e) =>
              /\ e.info \in Sizes /\ e.info <= mtu
              /\ mtu > Links[1] => e.info >= Links[1]
              /\ \A p \in net : /\ e.info <= p.size
                                /\ \A k \in 1 .. Dist - 1 : Narrow(p.size, k) => Links[k + 1] <= e.info
              /\ \A i \in 1 .. Len(errq) : Brings(errq[i]) => e.info <= errq[i].info,
           e.kind = "refused" => \A s \in Sizes : mtu <= s
    PROVE  PathParts'
  <1>1. /\ Len(errq) \in Nat /\ Len(errq') = Len(errq) + 1 /\ errq'[Len(errq) + 1] = e
        /\ \A i \in 1 .. Len(errq) : errq'[i] = errq[i]
    BY DEF TypeOK
  <1>2. \A i \in 1 .. Len(errq') :
           (i \in 1 .. Len(errq) /\ errq'[i] = errq[i]) \/ (i = Len(errq) + 1 /\ errq'[i] = e)
    <2> TAKE i \in 1 .. Len(errq')
    <2>1. i \in 1 .. Len(errq) \/ i = Len(errq) + 1
      BY <1>1
    <2> QED BY <1>1, <2>1
  <1>3. ProbeInv' /\ OrderInv'
    BY DEF PathParts, ProbeInv, OrderInv
  <1>4. QueueInv'
    BY <1>2 DEF PathParts, QueueInv
  <1>5. SortedInv'
    <2> SUFFICES ASSUME NEW i \in 1 .. Len(errq'), NEW j \in 1 .. Len(errq'), i < j,
                        Brings(errq'[i]), Brings(errq'[j])
                 PROVE  errq'[j].info <= errq'[i].info
      BY DEF SortedInv
    <2>1. i \in 1 .. Len(errq) /\ errq'[i] = errq[i]
      BY <1>1
    <2>2. CASE j \in 1 .. Len(errq)
      BY <1>1, <2>1, <2>2 DEF PathParts, SortedInv
    <2>3. CASE errq'[j] = e
      BY <2>1, <2>3
    <2> QED BY <1>2, <2>2, <2>3
  <1>6. ReachInv'
    <2>1. mtu \in Sizes /\ mtu <= StartMtu
      BY DEF PathParts, ReachInv
    <2>2. Reached' => Reached \/ e.kind = "refused"
      BY <1>2 DEF Reached
    <2>3. Reached => \A s \in Sizes : mtu <= s
      BY DEF PathParts, ReachInv
    <2> QED BY <2>1, <2>2, <2>3 DEF ReachInv
  <1> QED BY <1>3, <1>4, <1>5, <1>6 DEF PathParts

LEMMA SizesType == \A s \in Sizes : s = StartMtu \/ s = Links[1] \/ \E k \in 1 .. Dist - 1 : s = Links[k + 1]
  <1> SUFFICES ASSUME NEW k \in 1 .. Dist, k # 1
               PROVE  \E j \in 1 .. Dist - 1 : Links[k] = Links[j + 1]
    BY DEF Sizes
  <1>1. k - 1 \in 1 .. Dist - 1 /\ k = (k - 1) + 1
    BY LinksType
  <1> QED BY <1>1

LEMMA SendFailsPath ==
    ASSUME TypeOK, PathParts, SendFails
    PROVE  PathParts'
  <1>1. UNCHANGED <<mtu, hopsTo, net>>
    BY DEF SendFails, loop, found
  <1>2. CASE errq' = errq
    BY <1>1, <1>2, QuietPath
  <1>3. CASE errq' # errq
    <2> DEFINE e == [kind |-> "local", info |-> Links[1], slot |-> hisptr, ttl |-> ttl]
    <2>1. mtu > Links[1] /\ errq' = Append(errq, e)
      BY <1>3 DEF SendFails
    <2>2. mtu \in Nat /\ Links[1] \in Nat
      BY PathTypes, LinksType
    <2>3. net = {}
      <3> SUFFICES ASSUME NEW p \in net PROVE FALSE
        OBVIOUS
      <3>1. p.size \in Nat /\ mtu <= p.size /\ p.size <= Links[1]
        BY PathTypes DEF PathParts, ProbeInv
      <3> QED BY <2>1, <2>2, <3>1
    <2>4. Links[1] \in Sizes
      BY LinksType DEF Sizes
    <2>5. \A i \in 1 .. Len(errq) : Brings(errq[i]) => Links[1] <= errq[i].info
      BY <2>1, <2>2, PathTypes DEF PathParts, QueueInv
    <2>6. e.info = Links[1] /\ e.kind = "local"
      OBVIOUS
    <2> HIDE DEF e
    <2> QED BY <1>1, <2>1, <2>2, <2>3, <2>4, <2>5, <2>6, AppendPath
  <1> QED BY <1>2, <1>3

LEMMA DeliverPath ==
    ASSUME TypeOK, PathParts, fifo, NEW p \in net, Deliver(p)
    PROVE  PathParts'
  <1>1. UNCHANGED <<mtu, hopsTo>> /\ net' \subseteq net /\ \A q \in net : q.age <= p.age
    BY DEF Deliver, loop, found
  <1>2. mtu \in Nat /\ p.size \in Nat /\ \A q \in net : q.size \in Nat /\ q.age \in Nat
    BY PathTypes
  <1>3. mtu <= p.size /\ p.size <= Links[1] /\ Links[1] \in Nat /\ ~(mtu > Links[1])
    BY <1>2, LinksType DEF PathParts, ProbeInv
  <1>4. CASE Queued(p, "fatal", 0)
    <2> DEFINE e == [kind |-> "fatal", info |-> 0, slot |-> p.slot, ttl |-> p.ttl]
    <2>1. errq' = Append(errq, e) /\ e.kind = "fatal"
      BY <1>4 DEF Queued
    <2> HIDE DEF e
    <2>2. ~Brings(e)
      BY <2>1 DEF Brings
    <2> QED BY <1>1, <2>1, <2>2, AppendPath
  <1>5. CASE \E a \in Answers(p) : Queued(p, a.kind, a.info)
    <2>1. PICK a \in Answers(p) : Queued(p, a.kind, a.info)
      BY <1>5
    <2> DEFINE e == [kind |-> a.kind, info |-> a.info, slot |-> p.slot, ttl |-> p.ttl]
    <2>2. errq' = Append(errq, e) /\ e.kind = a.kind /\ e.info = a.info
      BY <2>1 DEF Queued
    <2> HIDE DEF e
    <2>3. e.kind = "refused" => \A s \in Sizes : mtu <= s
      <3> SUFFICES ASSUME e.kind = "refused", NEW s \in Sizes PROVE mtu <= s
        OBVIOUS
      <3>1. \A k \in 1 .. Dist - 1 : p.size <= Links[k + 1] /\ Links[k + 1] \in Nat
        BY <1>2, <2>2, AnswerSays, LinksType
      <3>2. mtu <= StartMtu
        BY DEF PathParts, ReachInv
      <3> QED BY <1>2, <1>3, <3>1, <3>2, SizesType
    <2>4. CASE e.kind = "toobig"
      <3>1. PICK k \in 1 .. Dist - 1 : Narrow(p.size, k) /\ e.info = Links[k + 1]
        BY <1>2, <2>2, <2>4, AnswerSays, Zenon
      <3>2. Links[k + 1] \in Nat /\ Links[k + 1] < p.size
        BY <1>2, <3>1, LinksType DEF Narrow
      <3>3. e.info \in Sizes
        <4>1. k + 1 \in 1 .. Dist
          BY LinksType
        <4> QED BY <3>1, <4>1 DEF Sizes
      <3>4. e.info <= mtu
        BY <3>1 DEF PathParts, ProbeInv
      <3>5. \A q \in net : q.size <= p.size /\ Links[k + 1] <= q.size
        <4> TAKE q \in net
        <4>1. CASE q = p
          BY <1>2, <3>2, <4>1
        <4>2. CASE q # p
          <5>1. q.age # p.age
            BY <4>2 DEF PathParts, OrderInv
          <5>2. q.age < p.age
            BY <1>1, <1>2, <5>1
          <5> QED BY <3>1, <5>2 DEF PathParts, OrderInv
        <4> QED BY <4>1, <4>2
      <3>6. \A q \in net : \A j \in 1 .. Dist - 1 : Narrow(q.size, j) => Links[j + 1] <= Links[k + 1]
        BY <1>2, <3>1, <3>5, NarrowOrder
      <3>7. \A i \in 1 .. Len(errq) : Brings(errq[i]) => Links[k + 1] <= errq[i].info
        BY <3>1 DEF PathParts, QueueInv
      <3> QED BY <1>1, <1>3, <2>2, <2>3, <3>1, <3>3, <3>4, <3>5, <3>6, <3>7, AppendPath
    <2>5. CASE e.kind # "toobig"
      <3>1. ~Brings(e)
        BY <1>2, <2>2, <2>5, AnswerSays DEF Brings
      <3> QED BY <1>1, <2>2, <2>3, <3>1, AppendPath
    <2> QED BY <2>4, <2>5
  <1> QED BY <1>4, <1>5 DEF Deliver

(* Every probe older than the one just sent was at least as large.         *)
LEMMA SendOkPath ==
    ASSUME TypeOK, PathParts, SendOk
    PROVE  PathParts'
  <1> DEFINE new == [age |-> 0, slot |-> hisptr, ttl |-> ttl, size |-> mtu]
  <1>1. /\ UNCHANGED <<mtu, hopsTo, errq>> /\ mtu <= Links[1] /\ errq = <<>>
        /\ net' = Aged \union {new}
    BY DEF SendOk, loop, found
  <1>2. new.age = 0 /\ new.size = mtu
    OBVIOUS
  <1>3. mtu \in Nat /\ \A p \in net : p.size \in Nat /\ p.age \in Nat
    BY PathTypes
  <1>4. \A q \in Aged : \E p \in net : q = [p EXCEPT !.age = @ + 1] /\ q.size = p.size /\ q.age = p.age + 1
    <2> SUFFICES ASSUME NEW p \in net
                 PROVE  LET q == [p EXCEPT !.age = @ + 1] IN q.size = p.size /\ q.age = p.age + 1
      BY Zenon DEF Aged
    <2>1. p \in Probes
      BY DEF TypeOK
    <2> QED BY <2>1 DEF Probes
  <1> HIDE DEF new
  <1>5. ProbeInv'
    <2> SUFFICES ASSUME NEW q \in net'
                 PROVE  /\ mtu <= q.size /\ q.size <= Links[1]
                        /\ \A k \in 1 .. Dist - 1 : Narrow(q.size, k) => Links[k + 1] <= mtu
      BY <1>1 DEF ProbeInv
    <2>1. CASE q = new
      <3>1. \A k \in 1 .. Dist - 1 : Narrow(mtu, k) => Links[k + 1] <= mtu
        BY <1>3, LinksType DEF Narrow
      <3> QED BY <1>1, <1>2, <1>3, <2>1, <3>1
    <2>2. CASE q \in Aged
      BY <1>4, <2>2 DEF PathParts, ProbeInv
    <2> QED BY <1>1, <2>1, <2>2
  <1>6. OrderInv'
    <2> SUFFICES ASSUME NEW p \in net', NEW q \in net'
                 PROVE  /\ q.age = p.age => q = p
                        /\ q.age < p.age =>
                              /\ q.size <= p.size
                              /\ \A k \in 1 .. Dist - 1 : Narrow(p.size, k) => Links[k + 1] <= q.size
      BY DEF OrderInv
    <2>1. CASE p \in Aged /\ q \in Aged
      <3>1. PICK r \in net : p = [r EXCEPT !.age = @ + 1] /\ p.size = r.size /\ p.age = r.age + 1
        BY <1>4, <2>1
      <3>2. PICK t \in net : q = [t EXCEPT !.age = @ + 1] /\ q.size = t.size /\ q.age = t.age + 1
        BY <1>4, <2>1
      <3>3. (q.age = p.age => t.age = r.age) /\ (q.age < p.age => t.age < r.age)
        BY <1>3, <3>1, <3>2
      <3>4. t.age = r.age => t = r
        BY DEF PathParts, OrderInv
      <3>5. t.age < r.age =>
               /\ t.size <= r.size
               /\ \A k \in 1 .. Dist - 1 : Narrow(r.size, k) => Links[k + 1] <= t.size
        BY DEF PathParts, OrderInv
      <3> QED BY <3>1, <3>2, <3>3, <3>4, <3>5
    <2>2. CASE p \in Aged /\ q = new
      <3>1. PICK r \in net : p.size = r.size /\ p.age = r.age + 1
        BY <1>4, <2>2
      <3>2. /\ mtu <= r.size
            /\ \A k \in 1 .. Dist - 1 : Narrow(r.size, k) => Links[k + 1] <= mtu
        BY DEF PathParts, ProbeInv
      <3>3. q.age # p.age
        BY <1>2, <1>3, <2>2, <3>1
      <3> QED BY <1>2, <2>2, <3>1, <3>2, <3>3
    <2>3. CASE p = new
      <3>1. q = new \/ q.age > 0
        BY <1>1, <1>3, <1>4
      <3>2. q.age \in Nat
        BY <1>1, <1>2, <1>3, <1>4
      <3> QED BY <1>2, <2>3, <3>1, <3>2
    <2> QED BY <1>1, <2>1, <2>2, <2>3
  <1>7. QueueInv' /\ SortedInv'
    <2>1. Len(errq') = 0
      BY <1>1
    <2> QED BY <2>1 DEF QueueInv, SortedInv
  <1>8. ReachInv'
    BY <1>1 DEF PathParts, ReachInv, Reached
  <1> QED BY <1>5, <1>6, <1>7, <1>8 DEF PathParts

(* Reading an error: the MTU is what the head of the queue says, or stays. *)
LEMMA DrainErrorMtu ==
    ASSUME TypeOK, NEW echo, DrainError(echo)
    PROVE  /\ errq # <<>> /\ errq' = Tail(errq) /\ UNCHANGED net
           /\ IF Brings(errq[1]) THEN mtu' = errq[1].info ELSE mtu' = mtu
           /\ hopsTo' = hopsTo \/ errq[1].kind = "refused"
  <1> DEFINE e == Head(errq)
  <1>1. /\ errq # <<>> /\ errq' = Tail(errq) /\ UNCHANGED net
    BY DEF DrainError
  <1>2. e = errq[1] /\ e.kind \in {"local", "toobig", "exceeded", "refused", "fatal"}
    BY <1>1, TypeSplit, HeadParts
  <1>3. CASE e.kind \in {"local", "toobig"}
    BY <1>1, <1>2, <1>3 DEF DrainError, NewMtu, found, Brings
  <1>4. CASE e.kind = "exceeded"
    BY <1>1, <1>2, <1>4 DEF DrainError, loop, found, Brings
  <1>5. CASE e.kind = "refused"
    BY <1>1, <1>2, <1>5 DEF DrainError, Brings
  <1>6. CASE e.kind = "fatal"
    BY <1>1, <1>2, <1>6 DEF DrainError, found, Brings
  <1> QED BY <1>2, <1>3, <1>4, <1>5, <1>6

LEMMA DrainErrorPath ==
    ASSUME TypeOK, PathParts, NEW echo, DrainError(echo)
    PROVE  PathParts' /\ mtu' <= mtu
  <1>1. /\ errq # <<>> /\ errq' = Tail(errq) /\ net' = net
        /\ (Brings(errq[1]) /\ mtu' = errq[1].info) \/ (~Brings(errq[1]) /\ mtu' = mtu)
        /\ hopsTo' = hopsTo \/ errq[1].kind = "refused"
    BY DrainErrorMtu
  <1>2. /\ Len(errq) \in Nat /\ 1 \in 1 .. Len(errq) /\ Len(errq') = Len(errq) - 1
        /\ \A i \in 1 .. Len(errq) - 1 : errq'[i] = errq[i + 1]
    BY <1>1, TypeSplit, HeadParts, PathTypes
  <1>3. \A i \in 1 .. Len(errq') : i + 1 \in 1 .. Len(errq) /\ 1 < i + 1 /\ errq'[i] = errq[i + 1]
    BY <1>2
  <1>4. /\ mtu \in Nat /\ mtu' \in Nat /\ Links[1] \in Nat /\ StartMtu \in Nat
        /\ \A i \in 1 .. Len(errq) : Brings(errq[i]) => errq[i].info \in Nat
    BY <1>1, <1>2, PathTypes, LinksType
  <1>5. mtu' <= mtu
    BY <1>1, <1>2, <1>4 DEF PathParts, QueueInv
  <1>6. ProbeInv'
    <2> SUFFICES ASSUME NEW p \in net
                 PROVE  /\ mtu' <= p.size /\ p.size <= Links[1]
                        /\ \A k \in 1 .. Dist - 1 : Narrow(p.size, k) => Links[k + 1] <= mtu'
      BY <1>1 DEF ProbeInv
    <2>1. CASE Brings(errq[1]) /\ mtu' = errq[1].info
      BY <1>2, <2>1 DEF PathParts, ProbeInv, QueueInv
    <2>2. CASE mtu' = mtu
      BY <2>2 DEF PathParts, ProbeInv
    <2> QED BY <1>1, <2>1, <2>2
  <1>7. OrderInv'
    BY <1>1 DEF PathParts, OrderInv
  <1>8. QueueInv'
    <2> SUFFICES ASSUME NEW i \in 1 .. Len(errq'), Brings(errq'[i])
                 PROVE  /\ errq'[i].info \in Sizes /\ errq'[i].info <= mtu'
                        /\ mtu' > Links[1] => errq'[i].info >= Links[1]
                        /\ \A p \in net :
                              /\ errq'[i].info <= p.size
                              /\ \A k \in 1 .. Dist - 1 : Narrow(p.size, k) => Links[k + 1] <= errq'[i].info
      BY <1>1 DEF QueueInv
    <2>1. i + 1 \in 1 .. Len(errq) /\ 1 < i + 1 /\ errq'[i] = errq[i + 1] /\ Brings(errq[i + 1])
      BY <1>3
    <2>2. /\ errq[i + 1].info \in Sizes /\ errq[i + 1].info <= mtu
          /\ mtu > Links[1] => errq[i + 1].info >= Links[1]
          /\ \A p \in net :
                /\ errq[i + 1].info <= p.size
                /\ \A k \in 1 .. Dist - 1 : Narrow(p.size, k) => Links[k + 1] <= errq[i + 1].info
      BY <2>1 DEF PathParts, QueueInv
    <2>3. errq[i + 1].info <= mtu'
      <3>1. CASE Brings(errq[1]) /\ mtu' = errq[1].info
        BY <1>2, <2>1, <3>1 DEF PathParts, SortedInv
      <3> QED BY <1>1, <2>2, <3>1
    <2>4. mtu' > Links[1] => mtu > Links[1]
      BY <1>4, <1>5
    <2> QED BY <2>1, <2>2, <2>3, <2>4
  <1>9. SortedInv'
    <2> SUFFICES ASSUME NEW i \in 1 .. Len(errq'), NEW j \in 1 .. Len(errq'), i < j,
                        Brings(errq'[i]), Brings(errq'[j])
                 PROVE  errq'[j].info <= errq'[i].info
      BY DEF SortedInv
    <2>1. i + 1 < j + 1
      BY <1>2
    <2>2. i + 1 \in 1 .. Len(errq) /\ errq'[i] = errq[i + 1] /\ Brings(errq[i + 1])
      BY <1>3
    <2>3. j + 1 \in 1 .. Len(errq) /\ errq'[j] = errq[j + 1] /\ Brings(errq[j + 1])
      BY <1>3
    <2>4. errq[j + 1].info <= errq[i + 1].info
      BY <2>1, <2>2, <2>3, Zenon DEF PathParts, SortedInv
    <2> QED BY <2>2, <2>3, <2>4, Zenon
  <1>10. ReachInv'
    <2>1. mtu' \in Sizes
      BY <1>1, <1>2 DEF PathParts, QueueInv, ReachInv
    <2>2. mtu' <= StartMtu
      BY <1>4, <1>5 DEF PathParts, ReachInv
    <2>3. Reached' => Reached
      BY <1>1, <1>2, <1>3 DEF Reached
    <2>4. Reached => \A s \in Sizes : mtu' <= s
      <3> SUFFICES ASSUME Reached, NEW s \in Sizes PROVE mtu' <= s
        OBVIOUS
      <3>1. s \in Nat
        BY LinksType, SizesType
      <3>2. mtu <= s
        BY DEF PathParts, ReachInv
      <3> QED BY <1>4, <1>5, <3>1, <3>2
    <2> QED BY <2>1, <2>2, <2>3, <2>4 DEF ReachInv
  <1> QED BY <1>5, <1>6, <1>7, <1>8, <1>9, <1>10 DEF PathParts

LEMMA InitPath == Init => PathInv
  <1> SUFFICES ASSUME Init PROVE PathParts
    BY DEF PathInv
  <1>1. net = {} /\ errq = <<>> /\ mtu = StartMtu /\ hopsTo = Unknown /\ Len(errq) = 0
    BY DEF Init
  <1>2. ProbeInv /\ OrderInv
    BY <1>1 DEF ProbeInv, OrderInv
  <1>3. QueueInv /\ SortedInv
    BY <1>1 DEF QueueInv, SortedInv
  <1>4. ReachInv
    BY <1>1, LinksType DEF ReachInv, Reached, Sizes
  <1> QED BY <1>2, <1>3, <1>4 DEF PathParts

LEMMA NextPath ==
    ASSUME TypeOK, fifo, PathParts, [Next]_vars
    PROVE  PathParts' /\ mtu' <= mtu
  <1>1. mtu \in Nat
    BY PathTypes
  <1>2. CASE UNCHANGED vars
    BY <1>1, <1>2, QuietPath DEF vars, loop, found
  <1>3. CASE Process
    <2>1. CASE SendOk
      BY <1>1, <2>1, SendOkPath DEF SendOk, loop
    <2>2. CASE SendFails
      <3>1. mtu' = mtu
        BY <2>2 DEF SendFails, loop
      <3> QED BY <1>1, <2>2, <3>1, SendFailsPath
    <2>3. CASE WaitEnds \/ DataReply \/ DrainEmpty
      <3>1. UNCHANGED <<mtu, errq, hopsTo, net>>
        BY <2>3 DEF WaitEnds, DataReply, DrainEmpty, loop, found
      <3> QED BY <1>1, <3>1, QuietPath
    <2>4. CASE \E echo \in Echoes : DrainError(echo)
      BY <2>4, DrainErrorPath
    <2> QED BY <1>3, <2>1, <2>2, <2>3, <2>4 DEF Process
  <1>4. CASE Network
    <2>1. PICK p \in net : Deliver(p) \/ Lose(p)
      BY <1>4 DEF Network
    <2>2. CASE Deliver(p)
      <3>1. mtu' = mtu
        BY <2>2 DEF Deliver, loop
      <3> QED BY <1>1, <2>2, <3>1, DeliverPath
    <2>3. CASE Lose(p)
      <3>1. UNCHANGED <<mtu, errq, hopsTo>> /\ net' \subseteq net
        BY <2>3 DEF Lose, loop, found
      <3> QED BY <1>1, <3>1, QuietPath
    <2> QED BY <2>1, <2>2, <2>3
  <1> QED BY <1>2, <1>3, <1>4, Zenon DEF Next, Stopped

LEMMA FifoKept == [Next]_vars => fifo' = fifo
  BY DEF Next, Stopped, vars

LEMMA NextPathInv == TypeOK /\ PathInv /\ [Next]_vars => PathInv'
  <1> SUFFICES ASSUME TypeOK, PathInv, [Next]_vars, fifo' PROVE PathParts'
    BY DEF PathInv
  <1>1. fifo
    BY FifoKept, Zenon
  <1>2. PathParts
    BY <1>1 DEF PathInv
  <1> QED BY <1>1, <1>2, NextPath

LEMMA PathExact == PathInv => PmtuExact
  BY DEF PathInv, PathParts, ReachInv, Reached, PmtuExact, PmtuDetected, Sizes

(* Over every path that keeps the order of answers, a trace that reached   *)
(* the target prints the smallest MTU of the path, or the size asked for   *)
(* if that is smaller, whatever is lost, late or duplicated.               *)
THEOREM PathMtuFound == Spec => []PmtuExact
  BY InitTypeOK, NextTypeOK, InitPath, NextPathInv, PathExact, PTL DEF Spec

(* On such a path recverr() never raises the MTU, so main() restarts a hop *)
(* for a new MTU at most once per size on the path.                        *)
THEOREM MtuNeverGrows == Spec => MtuShrinks
  <1>1. TypeOK /\ PathInv /\ [Next]_vars => [fifo => mtu' <= mtu]_vars
    BY NextPath DEF PathInv
  <1> QED BY <1>1, InitTypeOK, NextTypeOK, InitPath, NextPathInv, PTL DEF Spec, MtuShrinks

-----------------------------------------------------------------------------
(* The trace winds down.                                                   *)

(* What keeps the measure falling: the MTU found so far, the hop within    *)
(* max_hops, and nothing but our own device's error on the queue before    *)
(* the first datagram got out.                                             *)
DownParts ==
    /\ mtu <= oldMtu
    /\ Running => ttl <= MaxHops
    /\ mtu > Links[1] =>
          /\ pc = "send" => errq = <<>>
          /\ \A i \in 1 .. Len(errq) : errq[i].kind = "local" /\ errq[i].info = Links[1]
DownInv == fifo => DownParts

(* The probes under way are of different ages, hence few.                  *)
LEMMA NetFinite ==
    ASSUME TypeOK, PathParts
    PROVE  IsFiniteSet(net) /\ Cardinality(net) \in Nat
  <1> DEFINE f == [p \in net |-> p.age]
  <1>1. \A p \in net : p.age \in 0 .. MaxAge - 1
    BY Zenon DEF TypeOK, Probes
  <1>2. \A p, q \in net : q.age = p.age => q = p
    BY DEF PathParts, OrderInv
  <1>3. f \in Injection(net, 0 .. MaxAge - 1)
    BY <1>1, <1>2 DEF Injection, IsInjective
  <1>4. IsFiniteSet(0 .. MaxAge - 1)
    BY Constants, FS_Interval
  <1>5. IsFiniteSet(net)
    BY <1>3, <1>4, FS_Injection, Zenon
  <1> QED BY <1>5, FS_CardinalityType, Zenon

LEMMA DownTypes ==
    ASSUME TypeOK
    PROVE  /\ mtu \in Nat /\ oldMtu \in Nat /\ ttl \in Nat /\ tries \in Nat /\ fails \in Nat
           /\ tries < Tries /\ fails < MaxProbes /\ faults \in Nat /\ Len(errq) \in Nat
           /\ errq \in Seq(Errors) /\ Links[1] \in Nat /\ Tries \in Nat /\ MaxProbes \in Nat
           /\ MaxHops \in Nat
  BY Constants, LinksType DEF TypeOK

(* Before the first datagram gets out nothing is under way.                *)
LEMMA NothingOut ==
    ASSUME TypeOK, PathParts, mtu > Links[1]
    PROVE  net = {}
  <1> SUFFICES ASSUME NEW p \in net PROVE FALSE
    OBVIOUS
  <1>1. mtu <= p.size /\ p.size <= Links[1]
    BY DEF PathParts, ProbeInv
  <1> QED BY <1>1, PathTypes, LinksType

(* Where main() goes when probe_ttl() returns.                             *)
LEMMA ProbeReturnsDown ==
    ASSUME TypeOK, DownParts, Running, NEW res, ProbeReturns(res), mtu' = mtu
    PROVE  /\ mtu' <= oldMtu'
           /\ Running' => ttl' <= MaxHops
  <1>0. ttl <= MaxHops /\ mtu <= oldMtu
    BY DEF DownParts
  <1>1. CASE SameHop(0) \/ SameHop(tries + 1)
    <2>1. oldMtu' = mtu /\ ttl' = ttl
      BY <1>1 DEF SameHop
    <2> QED BY <1>0, <2>1, DownTypes
  <1>2. CASE Finish
    BY <1>0, <1>2 DEF Finish
  <1>3. CASE NextHop
    <2>1. oldMtu' = mtu /\ pc' = (IF ttl' > MaxHops THEN "done"
                                  ELSE IF ttl' = 0 /\ ~IPv6 THEN "failed" ELSE "send")
      BY <1>3 DEF NextHop
    <2>2. ttl' \in Nat
      BY <1>3, HopNext DEF NextHop, TypeOK
    <2>3. pc' \notin {"done", "failed"} => ttl' <= MaxHops
      BY <2>1, <2>2, DownTypes
    <2> QED BY <2>1, <2>3, DownTypes DEF Running
  <1> QED BY <1>1, <1>2, <1>3 DEF ProbeReturns

LEMMA DrainReturnsDown ==
    ASSUME TypeOK, DownParts, Running, NEW res \in {"over", "progress", "silence"},
           DrainReturns(res), mtu' = mtu
    PROVE  /\ mtu' <= oldMtu'
           /\ Running' => ttl' <= MaxHops
  <1>1. \/ \E r \in {res, "over"} : ProbeReturns(r)
        \/ pc' = "send" /\ ttl' = ttl /\ oldMtu' = oldMtu
    BY Zenon DEF DrainReturns
  <1>2. CASE \E r \in {res, "over"} : ProbeReturns(r)
    BY <1>2, ProbeReturnsDown
  <1>3. CASE pc' = "send" /\ ttl' = ttl /\ oldMtu' = oldMtu
    BY <1>3 DEF DownParts
  <1> QED BY <1>1, <1>2, <1>3

(* What reading an error leaves to be shown: recverr() goes on, or returns *)
(* with the MTU unchanged.                                                 *)
LEMMA DrainErrorGoes ==
    ASSUME TypeOK, NEW echo, DrainError(echo)
    PROVE  /\ pc = "drain" /\ UNCHANGED <<after, net, faults>>
           /\ \/ pc' = pc /\ UNCHANGED <<ttl, tries, fails, oldMtu>> /\ progress' = TRUE
              \/ DrainReturns("over") /\ mtu' = mtu /\ ~Brings(errq[1])
  <1> DEFINE e == Head(errq)
  <1>1. pc = "drain" /\ errq # <<>> /\ UNCHANGED <<after, net, faults>> /\ progress' = TRUE
    BY DEF DrainError
  <1>2. e = errq[1] /\ e.kind \in {"local", "toobig", "exceeded", "refused", "fatal"}
    BY <1>1, TypeSplit, HeadParts
  <1>3. CASE e.kind \in {"local", "toobig"}
    BY <1>1, <1>2, <1>3 DEF DrainError
  <1>4. CASE e.kind = "exceeded"
    BY <1>1, <1>2, <1>4 DEF DrainError, loop
  <1>5. CASE e.kind = "refused"
    BY <1>1, <1>2, <1>5 DEF DrainError, Brings
  <1>6. CASE e.kind = "fatal"
    BY <1>1, <1>2, <1>6 DEF DrainError, Brings
  <1> QED BY <1>2, <1>3, <1>4, <1>5, <1>6, Zenon

(* The entry of a queue of at most one.                                    *)
LEMMA OnlyError ==
    ASSUME NEW q, NEW e, q = <<e>> \/ q = <<>>, NEW k \in 1 .. Len(q)
    PROVE  q[k] = e
  <1>1. CASE q = <<>>
    BY <1>1
  <1>2. CASE q = <<e>>
    BY <1>2
  <1> QED BY <1>1, <1>2, Zenon

(* Every step keeps the facts the measure rests on.                        *)
LEMMA NextDown ==
    ASSUME TypeOK, fifo, PathParts, DownParts, [Next]_vars
    PROVE  DownParts'
  <1>1. mtu' <= mtu /\ mtu' \in Nat
    BY NextPath, NextTypeOK, Zenon DEF TypeOK
  <1>2. /\ mtu \in Nat /\ oldMtu \in Nat /\ Links[1] \in Nat /\ Len(errq) \in Nat
        /\ mtu <= oldMtu /\ (Running => ttl <= MaxHops)
    BY DownTypes DEF DownParts
  <1>3. ASSUME mtu' <= oldMtu', Running' => ttl' <= MaxHops, mtu <= Links[1]
        PROVE  DownParts'
    BY <1>1, <1>2, <1>3 DEF DownParts
  <1>4. ASSUME UNCHANGED <<ttl, mtu, oldMtu>>, Running' => Running
        PROVE  mtu' <= oldMtu' /\ (Running' => ttl' <= MaxHops)
    BY <1>2, <1>4
  <1>5. CASE UNCHANGED vars
    <2>1. UNCHANGED <<ttl, mtu, oldMtu, pc, errq>>
      BY <1>5 DEF vars, loop
    <2> QED BY <2>1 DEF DownParts, Running
  <1>6. CASE SendOk
    <2>1. UNCHANGED <<ttl, mtu, oldMtu>> /\ mtu <= Links[1] /\ Running
      BY <1>6 DEF SendOk, loop, Running
    <2> QED BY <1>3, <1>4, <2>1
  <1>7. CASE SendFails
    <2>1. UNCHANGED <<ttl, mtu, oldMtu>> /\ pc = "send" /\ pc' = "drain"
      BY <1>7 DEF SendFails, loop
    <2>2. mtu' <= oldMtu' /\ (Running' => ttl' <= MaxHops)
      BY <1>4, <2>1 DEF Running
    <2>3. ASSUME mtu > Links[1], NEW i \in 1 .. Len(errq')
          PROVE  errq'[i].kind = "local" /\ errq'[i].info = Links[1]
      <3> DEFINE e == [kind |-> "local", info |-> Links[1], slot |-> hisptr, ttl |-> ttl]
      <3>1. errq = <<>>
        BY <2>1, <2>3 DEF DownParts
      <3>2. errq' = Append(errq, e) \/ errq' = errq
        BY <1>7, Zenon DEF SendFails
      <3>3. errq' = <<e>> \/ errq' = <<>>
        BY <3>1, <3>2
      <3>4. errq'[i] = e
        BY <2>3, <3>3, OnlyError, Zenon
      <3> QED BY <3>4
    <2> QED BY <2>1, <2>2, <2>3 DEF DownParts
  <1>8. CASE WaitEnds
    <2>1. UNCHANGED <<ttl, mtu, oldMtu, errq>> /\ pc = "wait" /\ pc' = "drain"
      BY <1>8 DEF WaitEnds, loop
    <2> QED BY <2>1 DEF DownParts, Running
  <1>9. CASE DataReply
    <2>1. ProbeReturns("over") /\ mtu' = mtu /\ net # {} /\ Running
      BY <1>9 DEF DataReply, Running
    <2>2. mtu <= Links[1]
      BY <1>2, <2>1, NothingOut
    <2> QED BY <1>3, <2>1, <2>2, ProbeReturnsDown
  <1>10. CASE DrainEmpty
    <2>1. /\ errq = <<>> /\ errq' = errq /\ mtu' = mtu /\ Running
          /\ DrainReturns(IF progress THEN "progress" ELSE "silence")
      BY <1>10 DEF DrainEmpty, Running
    <2>2. mtu' <= oldMtu' /\ (Running' => ttl' <= MaxHops)
      BY <2>1, DrainReturnsDown
    <2> QED BY <2>1, <2>2 DEF DownParts
  <1>11. ASSUME NEW echo \in Echoes, DrainError(echo) PROVE DownParts'
    <2>1. mtu' <= oldMtu' /\ (Running' => ttl' <= MaxHops)
      <3>1. CASE pc' = pc /\ UNCHANGED <<ttl, tries, fails, oldMtu>>
        BY <1>1, <1>2, <3>1 DEF Running
      <3>2. CASE DrainReturns("over") /\ mtu' = mtu
        <4>1. Running
          BY <1>11, DrainErrorGoes, Zenon DEF Running
        <4> QED BY <3>2, <4>1, DrainReturnsDown
      <3> QED BY <1>11, <3>1, <3>2, DrainErrorGoes, Zenon
    <2>2. mtu' <= Links[1]
      <3>1. CASE mtu <= Links[1]
        BY <1>1, <1>2, <3>1
      <3>2. CASE mtu > Links[1]
        <4>1. errq # <<>> /\ (IF Brings(errq[1]) THEN mtu' = errq[1].info ELSE mtu' = mtu)
          BY <1>11, DrainErrorMtu
        <4>2. 1 \in 1 .. Len(errq)
          BY <4>1, DownTypes
        <4>3. errq[1].kind = "local" /\ errq[1].info = Links[1]
          BY <3>2, <4>2 DEF DownParts
        <4> QED BY <1>2, <4>1, <4>3 DEF Brings
      <3> QED BY <1>2, <3>1, <3>2
    <2> QED BY <1>1, <1>2, <2>1, <2>2 DEF DownParts
  <1>12. CASE Network
    <2>1. PICK p \in net : Deliver(p) \/ Lose(p)
      BY <1>12 DEF Network
    <2>2. UNCHANGED <<ttl, mtu, oldMtu, pc>> /\ Running
      BY <1>12, <2>1 DEF Deliver, Lose, loop, Network
    <2>3. mtu <= Links[1]
      BY <1>2, <2>1, NothingOut
    <2> QED BY <1>3, <1>4, <2>2, <2>3
  <1> QED
    BY <1>5, <1>6, <1>7, <1>8, <1>9, <1>10, <1>11, <1>12, Zenon DEF Next, Process, Stopped

(* A tuple falls where its first differing component does.                 *)
LEMMA Falls ==
    ASSUME NEW a \in Nat, NEW b \in Nat, NEW c \in Nat, NEW d \in Nat, NEW e \in Nat,
           NEW p \in Nat, NEW q \in Nat, NEW r \in Nat, NEW s \in Nat, NEW t \in Nat,
           \/ a < p
           \/ a = p /\ b < q
           \/ a = p /\ b = q /\ c < r
           \/ a = p /\ b = q /\ c = r /\ d < s
           \/ a = p /\ b = q /\ c = r /\ d = s /\ e < t
    PROVE  LexLess(<<a, b, c, d, e>>, <<p, q, r, s, t>>)
  <1> DEFINE u == <<a, b, c, d, e>>
             v == <<p, q, r, s, t>>
  <1>1. /\ Len(v) = 5
        /\ u[1] = a /\ u[2] = b /\ u[3] = c /\ u[4] = d /\ u[5] = e
        /\ v[1] = p /\ v[2] = q /\ v[3] = r /\ v[4] = s /\ v[5] = t
    OBVIOUS
  <1> SUFFICES LexLess(u, v)
    OBVIOUS
  <1> HIDE DEF u, v
  <1>2. ASSUME NEW k \in 1..5, u[k] \in 0..(v[k] - 1), \A j \in 1..(k - 1) : u[j] = v[j]
        PROVE  LexLess(u, v)
    BY <1>1, <1>2 DEF LexLess
  <1>3. CASE a < p
    <2>1. 1 \in 1..5 /\ u[1] \in 0..(v[1] - 1)
      BY <1>1, <1>3
    <2>2. \A j \in 1..(1 - 1) : u[j] = v[j]
      <3> SUFFICES ASSUME NEW j \in 1..(1 - 1) PROVE u[j] = v[j]
        OBVIOUS
      <3>1. FALSE
        OBVIOUS
      <3> QED BY <1>1, <1>3, <3>1
    <2> QED BY <1>2, <2>1, <2>2, Zenon
  <1>4. CASE a = p /\ b < q
    <2>1. 2 \in 1..5 /\ u[2] \in 0..(v[2] - 1)
      BY <1>1, <1>4
    <2>2. \A j \in 1..(2 - 1) : u[j] = v[j]
      <3> SUFFICES ASSUME NEW j \in 1..(2 - 1) PROVE u[j] = v[j]
        OBVIOUS
      <3>1. j = 1
        OBVIOUS
      <3> QED BY <1>1, <1>4, <3>1
    <2> QED BY <1>2, <2>1, <2>2, Zenon
  <1>5. CASE a = p /\ b = q /\ c < r
    <2>1. 3 \in 1..5 /\ u[3] \in 0..(v[3] - 1)
      BY <1>1, <1>5
    <2>2. \A j \in 1..(3 - 1) : u[j] = v[j]
      <3> SUFFICES ASSUME NEW j \in 1..(3 - 1) PROVE u[j] = v[j]
        OBVIOUS
      <3>1. j = 1 \/ j = 2
        OBVIOUS
      <3> QED BY <1>1, <1>5, <3>1
    <2> QED BY <1>2, <2>1, <2>2, Zenon
  <1>6. CASE a = p /\ b = q /\ c = r /\ d < s
    <2>1. 4 \in 1..5 /\ u[4] \in 0..(v[4] - 1)
      BY <1>1, <1>6
    <2>2. \A j \in 1..(4 - 1) : u[j] = v[j]
      <3> SUFFICES ASSUME NEW j \in 1..(4 - 1) PROVE u[j] = v[j]
        OBVIOUS
      <3>1. j = 1 \/ j = 2 \/ j = 3
        OBVIOUS
      <3> QED BY <1>1, <1>6, <3>1
    <2> QED BY <1>2, <2>1, <2>2, Zenon
  <1>7. CASE a = p /\ b = q /\ c = r /\ d = s /\ e < t
    <2>1. 5 \in 1..5 /\ u[5] \in 0..(v[5] - 1)
      BY <1>1, <1>7
    <2>2. \A j \in 1..(5 - 1) : u[j] = v[j]
      <3> SUFFICES ASSUME NEW j \in 1..(5 - 1) PROVE u[j] = v[j]
        OBVIOUS
      <3>1. j = 1 \/ j = 2 \/ j = 3 \/ j = 4
        OBVIOUS
      <3> QED BY <1>1, <1>7, <3>1
    <2> QED BY <1>2, <2>1, <2>2, Zenon
  <1> QED BY <1>3, <1>4, <1>5, <1>6, <1>7

(* The measure is made of naturals.                                        *)
LEMMA LeftType ==
    ASSUME TypeOK, PathParts, DownParts
    PROVE  /\ HopsLeft \in Nat /\ oldMtu + mtu \in Nat /\ TriesLeft \in Nat
           /\ ErrorsLeft \in Nat /\ SendsLeft \in Nat
  <1>0. /\ mtu \in Nat /\ oldMtu \in Nat /\ ttl \in Nat /\ tries \in Nat /\ fails \in Nat
        /\ tries < Tries /\ fails < MaxProbes /\ Tries \in Nat /\ MaxProbes \in Nat
        /\ MaxHops \in Nat
    BY DownTypes, Zenon
  <1>1. HopsLeft \in Nat
    BY <1>0 DEF HopsLeft, DownParts
  <1>2. oldMtu + mtu \in Nat
    BY <1>0
  <1>3. TriesLeft \in Nat
    BY <1>0 DEF TriesLeft
  <1>4. ErrorsLeft \in Nat
    <2> DEFINE x == IF mtu > Links[1] /\ errq = <<>> THEN 2 ELSE 0
    <2>1. x \in Nat
      OBVIOUS
    <2>2. ErrorsLeft = 2 * (faults + Cardinality(net)) + Len(errq) + x
      BY DEF ErrorsLeft
    <2>3. faults \in Nat /\ Cardinality(net) \in Nat /\ Len(errq) \in Nat
      BY DownTypes, NetFinite, Zenon
    <2> HIDE DEF x
    <2> QED BY <2>1, <2>2, <2>3
  <1>5. SendsLeft \in Nat
    <2> DEFINE x == IF pc = "drain" /\ progress THEN MaxProbes + 1 ELSE MaxProbes - fails
               y == IF pc = "drain" THEN 0 ELSE 1
    <2>1. x \in Nat /\ y \in Nat
      BY <1>0
    <2>2. SendsLeft = 2 * x + y
      BY DEF SendsLeft
    <2> HIDE DEF x, y
    <2> QED BY <2>1, <2>2
  <1> QED BY <1>1, <1>2, <1>3, <1>4, <1>5

(* The three ways out of probe_ttl(): another hop or the end, the same hop *)
(* with a smaller MTU, the same hop once more.                             *)
LEMMA ProbeReturnsFalls ==
    ASSUME TypeOK, DownParts, Running, MaxHops < TtlMod - 1 \/ ~IPv6,
           NEW res, ProbeReturns(res), mtu' = mtu,
           res = "silence" => pc = "drain" /\ after = "wait"
    PROVE  \/ HopsLeft' < HopsLeft
           \/ HopsLeft' = HopsLeft /\ oldMtu' + mtu' < oldMtu + mtu
           \/ HopsLeft' = HopsLeft /\ oldMtu' + mtu' = oldMtu + mtu /\ TriesLeft' < TriesLeft
  <1>0. /\ mtu \in Nat /\ oldMtu \in Nat /\ ttl \in Nat /\ tries \in Nat /\ fails \in Nat
        /\ tries < Tries /\ fails < MaxProbes /\ Tries \in Nat /\ MaxProbes \in Nat
        /\ MaxHops \in Nat
    BY DownTypes, Zenon
  <1>1. HopsLeft = MaxHops + 1 - ttl /\ ttl <= MaxHops /\ mtu <= oldMtu
    BY DEF HopsLeft, DownParts
  <1>2. CASE mtu # oldMtu
    <2>1. oldMtu' = mtu /\ ttl' = ttl /\ pc' = "send"
      BY <1>2 DEF ProbeReturns, SameHop
    <2>2. HopsLeft' = HopsLeft
      BY <2>1 DEF HopsLeft, Running
    <2> QED BY <1>1, <1>2, <2>1, <2>2, <1>0
  <1>3. CASE mtu = oldMtu /\ res = "over"
    <2>1. pc' = "done"
      BY <1>3 DEF ProbeReturns, Finish
    <2>2. HopsLeft' = 0
      BY <2>1 DEF HopsLeft, Running
    <2> QED BY <1>1, <2>2, <1>0
  <1>4. CASE mtu = oldMtu /\ res = "silence" /\ tries + 1 < Tries
    <2>1. oldMtu' = mtu /\ ttl' = ttl /\ pc' = "send" /\ tries' = tries + 1
      BY <1>4 DEF ProbeReturns, SameHop
    <2>2. HopsLeft' = HopsLeft
      BY <2>1 DEF HopsLeft, Running
    <2>3. TriesLeft = 2 * (Tries - tries) + 0
      BY <1>4 DEF TriesLeft
    <2>4. TriesLeft' = 2 * (Tries - (tries + 1)) + 1
      BY <2>1 DEF TriesLeft
    <2>5. tries \in Nat /\ Tries \in Nat
      BY DownTypes, Zenon
    <2>6. TriesLeft' < TriesLeft
      BY <2>3, <2>4, <2>5
    <2>7. oldMtu' + mtu' = oldMtu + mtu
      BY <1>4, <2>1, Zenon
    <2> QED BY <2>2, <2>6, <2>7, Zenon
  <1>5. CASE NextHop
    <2>1. /\ ttl' = (ttl + 1) % TtlMod
          /\ pc' = (IF ttl' > MaxHops THEN "done"
                    ELSE IF ttl' = 0 /\ ~IPv6 THEN "failed" ELSE "send")
      BY <1>5 DEF NextHop
    <2>2. ttl' = (IF ttl + 1 = TtlMod THEN 0 ELSE ttl + 1)
      <3>1. ttl \in 0 .. TtlMod - 1
        BY DEF TypeOK
      <3>2. TtlMod \in Nat /\ TtlMod > 0
        BY Constants
      <3> QED BY <2>1, <3>1, <3>2, RingNext, Zenon
    <2>3. CASE ttl' = ttl + 1
      <3>1. HopsLeft' = 0 \/ HopsLeft' = MaxHops + 1 - (ttl + 1)
        BY <2>3 DEF HopsLeft
      <3> QED BY <1>1, <3>1, <1>0
    <2>4. CASE ttl' = 0 /\ ttl + 1 = TtlMod
      <3>1. ~IPv6
        BY <1>1, <2>4, Constants, <1>0
      <3>2. pc' \in {"done", "failed"}
        BY <2>1, <2>4, <3>1
      <3>3. HopsLeft' = 0
        BY <3>2 DEF HopsLeft, Running
      <3> QED BY <1>1, <3>3, <1>0
    <2> QED BY <2>2, <2>3, <2>4
  <1> QED BY <1>2, <1>3, <1>4, <1>5 DEF ProbeReturns

(* One step of recverr() on an empty queue.                                *)
LEMMA DrainEmptyFalls ==
    ASSUME TypeOK, DownParts, MaxHops < TtlMod - 1 \/ ~IPv6, DrainEmpty
    PROVE  \/ HopsLeft' < HopsLeft
           \/ HopsLeft' = HopsLeft /\ oldMtu' + mtu' < oldMtu + mtu
           \/ HopsLeft' = HopsLeft /\ oldMtu' + mtu' = oldMtu + mtu /\ TriesLeft' < TriesLeft
           \/ /\ HopsLeft' = HopsLeft /\ oldMtu' + mtu' = oldMtu + mtu
              /\ TriesLeft' = TriesLeft /\ ErrorsLeft' = ErrorsLeft /\ SendsLeft' < SendsLeft
  <1> DEFINE res == IF progress THEN "progress" ELSE "silence"
  <1>1. /\ pc = "drain" /\ Running /\ DrainReturns(res)
        /\ UNCHANGED <<after, mtu, progress, net, errq, faults>>
    BY DEF DrainEmpty, Running
  <1>2. CASE ProbeReturns(res) /\ after = "wait"
    BY <1>1, <1>2, ProbeReturnsFalls
  <1>3. CASE ProbeReturns("over")
    BY <1>1, <1>3, ProbeReturnsFalls
  <1>4. CASE /\ after = "send" /\ pc' = "send" /\ UNCHANGED <<ttl, tries, oldMtu>>
             /\ \/ progress /\ fails' = 0
                \/ ~progress /\ fails' = fails + 1
    <2>1. HopsLeft' = HopsLeft
      BY <1>1, <1>4 DEF HopsLeft, Running
    <2>2. TriesLeft' = TriesLeft
      BY <1>1, <1>4 DEF TriesLeft
    <2>3. ErrorsLeft' = ErrorsLeft
      BY <1>1, Zenon DEF ErrorsLeft
    <2>4. SendsLeft' = 2 * (MaxProbes - fails') + 1
      BY <1>4 DEF SendsLeft
    <2>5. SendsLeft = 2 * (IF progress THEN MaxProbes + 1 ELSE MaxProbes - fails) + 0
      BY <1>1 DEF SendsLeft
    <2>6. MaxProbes \in Nat /\ fails \in Nat
      BY DownTypes, Zenon
    <2>7. CASE progress /\ fails' = 0
      BY <1>1, <1>4, <2>1, <2>2, <2>3, <2>4, <2>5, <2>6, <2>7
    <2>8. CASE ~progress /\ fails' = fails + 1
      BY <1>1, <1>4, <2>1, <2>2, <2>3, <2>4, <2>5, <2>6, <2>8
    <2> QED BY <1>4, <2>7, <2>8
  <1>5. after \in {"send", "wait"} /\ progress \in BOOLEAN
    BY DEF TypeOK
  <1> QED BY <1>1, <1>2, <1>3, <1>4, <1>5 DEF DrainReturns

(* An error on the queue weighs less than the probe or fault it came from. *)
LEMMA Lighter ==
    ASSUME NEW f \in Nat, NEW c \in Nat, NEW l \in Nat, NEW f1, NEW c1, NEW l1,
           \/ l1 = l + 1 /\ f1 = f /\ c1 = c - 1
           \/ l1 = l + 1 /\ f1 = f - 1 /\ (c1 = c \/ c1 = c - 1)
           \/ l1 = l /\ f1 = f /\ c1 = c - 1
    PROVE  2 * (f1 + c1) + l1 + 0 < 2 * (f + c) + l + 0
  OBVIOUS

(* What is queued from the network was under way, or is a counted fault.   *)
LEMMA NetworkFalls ==
    ASSUME TypeOK, PathParts, Network
    PROVE  /\ HopsLeft' = HopsLeft /\ oldMtu' + mtu' = oldMtu + mtu /\ TriesLeft' = TriesLeft
           /\ ErrorsLeft' < ErrorsLeft
  <1>1. PICK p \in net : Deliver(p) \/ Lose(p)
    BY DEF Network
  <1>2. UNCHANGED <<pc, after, ttl, tries, mtu, oldMtu>>
    BY <1>1 DEF Deliver, Lose, loop
  <1>3. HopsLeft' = HopsLeft /\ oldMtu' + mtu' = oldMtu + mtu /\ TriesLeft' = TriesLeft
    BY <1>2 DEF HopsLeft, Running, TriesLeft
  <1>4. IsFiniteSet(net) /\ Cardinality(net) \in Nat
    BY NetFinite, Zenon
  <1>5. Cardinality(net \ {p}) = Cardinality(net) - 1
    BY <1>4, FS_RemoveElement
  <1>6. faults \in Nat /\ Len(errq) \in Nat /\ errq \in Seq(Errors) /\ mtu \in Nat /\ Links[1] \in Nat
    BY DownTypes, Zenon
  <1>7. ~(mtu > Links[1])
    BY <1>1, <1>6, NothingOut
  <1>8. /\ ErrorsLeft = 2 * (faults + Cardinality(net)) + Len(errq) + 0
        /\ ErrorsLeft' = 2 * (faults' + Cardinality(net')) + Len(errq') + 0
    BY <1>2, <1>7 DEF ErrorsLeft
  <1>9. \/ Len(errq') = Len(errq) + 1 /\ faults' = faults /\ net' = net \ {p}
        \/ Len(errq') = Len(errq) + 1 /\ faults' = faults - 1 /\ (net' = net \/ net' = net \ {p})
        \/ errq' = errq /\ faults' = faults /\ net' = net \ {p}
    <2>1. CASE Deliver(p)
      <3>1. \E e : errq' = Append(errq, e)
        BY <2>1, Zenon DEF Deliver, Queued
      <3>2. Len(errq') = Len(errq) + 1
        BY <1>6, <3>1
      <3> QED BY <2>1, <3>2, Zenon DEF Deliver
    <2>2. CASE Lose(p)
      BY <2>2 DEF Lose
    <2> QED BY <1>1, <2>1, <2>2
  <1>10. ErrorsLeft' < ErrorsLeft
    <2>1. \/ Len(errq') = Len(errq) + 1 /\ faults' = faults /\ Cardinality(net') = Cardinality(net) - 1
          \/ /\ Len(errq') = Len(errq) + 1 /\ faults' = faults - 1
             /\ Cardinality(net') = Cardinality(net) \/ Cardinality(net') = Cardinality(net) - 1
          \/ Len(errq') = Len(errq) /\ faults' = faults /\ Cardinality(net') = Cardinality(net) - 1
      BY <1>5, <1>9, Zenon
    <2> QED BY <1>4, <1>6, <1>8, <2>1, Lighter, Zenon
  <1> QED BY <1>3, <1>10

(* One failure less to come.                                               *)
LEMMA FaultFalls ==
    ASSUME NEW a \in Nat, NEW b \in Nat, NEW c \in Nat, NEW d \in Nat
    PROVE  2 * ((a - 1) + b) + c + d < 2 * (a + b) + c + d
  OBVIOUS

(* A send that fails, or an error read, where neither the hop nor the MTU  *)
(* changes.                                                                *)
LEMMA SendFailsFalls ==
    ASSUME TypeOK, PathParts, DownParts, SendFails
    PROVE  /\ HopsLeft' = HopsLeft /\ oldMtu' + mtu' = oldMtu + mtu /\ TriesLeft' = TriesLeft
           /\ ErrorsLeft' < ErrorsLeft \/ (ErrorsLeft' = ErrorsLeft /\ SendsLeft' < SendsLeft)
  <1> DEFINE x == IF mtu > Links[1] /\ errq = <<>> THEN 2 ELSE 0
  <1>1. /\ pc = "send" /\ pc' = "drain" /\ after' = "send" /\ progress' = FALSE
        /\ UNCHANGED <<ttl, tries, fails, mtu, oldMtu, net>>
    BY DEF SendFails, loop
  <1>2. HopsLeft' = HopsLeft /\ oldMtu' + mtu' = oldMtu + mtu /\ TriesLeft' = TriesLeft
    BY <1>1 DEF HopsLeft, Running, TriesLeft
  <1>3. faults \in Nat /\ Len(errq) \in Nat /\ Cardinality(net) \in Nat
    BY DownTypes, NetFinite, Zenon
  <1>4. MaxProbes \in Nat /\ fails \in Nat
    BY DownTypes, Zenon
  <1>5. ErrorsLeft = 2 * (faults + Cardinality(net)) + Len(errq) + x /\ x \in Nat
    BY DEF ErrorsLeft
  <1>6. CASE mtu > Links[1] /\ \E e : errq' = Append(errq, e) /\ UNCHANGED faults
    <2>1. errq = <<>>
      BY <1>1, <1>6 DEF DownParts
    <2>2. \E e : errq' = <<e>>
      BY <1>6, <2>1
    <2>3. Len(errq') = 1 /\ errq' # <<>> /\ Len(errq) = 0
      BY <2>1, <2>2
    <2>4. x = 2
      BY <1>6, <2>1
    <2>5. ErrorsLeft' = 2 * (faults + Cardinality(net)) + 1 + 0
      BY <1>1, <1>6, <2>3 DEF ErrorsLeft
    <2> QED BY <1>2, <1>3, <1>5, <2>3, <2>4, <2>5
  <1>7. CASE UNCHANGED <<errq, faults>>
    <2>1. ErrorsLeft' = ErrorsLeft
      BY <1>1, <1>7, Zenon DEF ErrorsLeft
    <2>2. SendsLeft = 2 * (MaxProbes - fails) + 1 /\ SendsLeft' = 2 * (MaxProbes - fails) + 0
      BY <1>1 DEF SendsLeft
    <2> QED BY <1>2, <1>4, <2>1, <2>2
  <1>8. CASE faults' = faults - 1 /\ UNCHANGED errq
    <2>1. ErrorsLeft' = 2 * ((faults - 1) + Cardinality(net)) + Len(errq) + x
      BY <1>1, <1>8, Zenon DEF ErrorsLeft
    <2> HIDE DEF x
    <2>2. ErrorsLeft' < ErrorsLeft
      BY <1>3, <1>5, <2>1, FaultFalls, Zenon
    <2> QED BY <1>2, <2>2, Zenon
  <1> QED BY <1>6, <1>7, <1>8, Zenon DEF SendFails

LEMMA SumFalls ==
    ASSUME NEW a \in Nat, NEW b \in Nat, NEW c \in Nat, c < b
    PROVE  a + c < a + b
  OBVIOUS

LEMMA DrainErrorFalls ==
    ASSUME TypeOK, fifo, PathParts, DownParts, MaxHops < TtlMod - 1 \/ ~IPv6,
           NEW echo \in Echoes, DrainError(echo), mtu' \in Nat, mtu' <= mtu
    PROVE  \/ HopsLeft' < HopsLeft
           \/ HopsLeft' = HopsLeft /\ oldMtu' + mtu' < oldMtu + mtu
           \/ HopsLeft' = HopsLeft /\ oldMtu' + mtu' = oldMtu + mtu /\ TriesLeft' < TriesLeft
           \/ /\ HopsLeft' = HopsLeft /\ oldMtu' + mtu' = oldMtu + mtu
              /\ TriesLeft' = TriesLeft /\ ErrorsLeft' < ErrorsLeft
  <1>1. pc = "drain" /\ Running /\ UNCHANGED <<after, net, faults>>
    BY DrainErrorGoes, Zenon DEF Running
  <1>2. CASE DrainReturns("over") /\ mtu' = mtu
    <2>1. ProbeReturns("over")
      BY <1>2 DEF DrainReturns
    <2> QED BY <1>1, <1>2, <2>1, ProbeReturnsFalls
  <1>3. CASE pc' = pc /\ UNCHANGED <<ttl, tries, fails, oldMtu>>
    <2>1. HopsLeft' = HopsLeft /\ TriesLeft' = TriesLeft
      BY <1>1, <1>3 DEF HopsLeft, Running, TriesLeft
    <2>2. mtu \in Nat /\ oldMtu \in Nat /\ Links[1] \in Nat
      BY DownTypes, Zenon
    <2>3. CASE mtu' < mtu
      <3>1. oldMtu' + mtu' < oldMtu + mtu
        BY <1>3, <2>2, <2>3, SumFalls, Zenon
      <3> QED BY <2>1, <3>1
    <2>4. CASE mtu' = mtu
      <3>1. ~(mtu > Links[1])
        <4> SUFFICES ASSUME mtu > Links[1] PROVE FALSE
          OBVIOUS
        <4>1. errq # <<>> /\ (IF Brings(errq[1]) THEN mtu' = errq[1].info ELSE mtu' = mtu)
          BY DrainErrorMtu
        <4>2. 1 \in 1 .. Len(errq)
          BY <4>1, DownTypes
        <4>3. errq[1].kind = "local" /\ errq[1].info = Links[1]
          BY <4>2 DEF DownParts
        <4> QED BY <2>2, <2>4, <4>1, <4>3 DEF Brings
      <3>2. /\ ErrorsLeft = 2 * (faults + Cardinality(net)) + Len(errq) + 0
            /\ ErrorsLeft' = 2 * (faults + Cardinality(net)) + Len(errq') + 0
        BY <1>1, <2>4, <3>1 DEF ErrorsLeft
      <3>3. errq # <<>> /\ errq' = Tail(errq) /\ errq \in Seq(Errors)
        BY DrainErrorMtu, DownTypes, Zenon
      <3>4. Len(errq') = Len(errq) - 1 /\ Len(errq) \in Nat
        BY <3>3
      <3>5. faults \in Nat /\ Cardinality(net) \in Nat
        BY DownTypes, NetFinite, Zenon
      <3>6. ErrorsLeft' < ErrorsLeft
        BY <3>2, <3>4, <3>5
      <3>7. oldMtu' + mtu' = oldMtu + mtu
        BY <1>3, <2>4
      <3> QED BY <2>1, <3>6, <3>7
    <2> QED BY <2>2, <2>3, <2>4
  <1> QED BY <1>2, <1>3, DrainErrorGoes, Zenon

(* The step lemma of WindsDown: which component falls, action by action.   *)
LEMMA LeftFalls ==
    ASSUME TypeOK, PathParts, DownParts, TypeOK', PathParts', DownParts', fifo,
           Next, ~(UNCHANGED vars), MaxHops < TtlMod - 1 \/ ~IPv6
    PROVE  LexLess(Left', Left)
  <1>0. /\ mtu \in Nat /\ oldMtu \in Nat /\ ttl \in Nat /\ tries \in Nat /\ fails \in Nat
        /\ tries < Tries /\ fails < MaxProbes /\ Tries \in Nat /\ MaxProbes \in Nat
        /\ MaxHops \in Nat
    BY DownTypes, Zenon
  <1>1. /\ HopsLeft \in Nat /\ oldMtu + mtu \in Nat /\ TriesLeft \in Nat
        /\ ErrorsLeft \in Nat /\ SendsLeft \in Nat
    BY LeftType, Zenon
  <1>2. /\ HopsLeft' \in Nat /\ oldMtu' + mtu' \in Nat /\ TriesLeft' \in Nat
        /\ ErrorsLeft' \in Nat /\ SendsLeft' \in Nat
    <2>1. (/\ TypeOK /\ PathParts /\ DownParts
           => /\ HopsLeft \in Nat /\ oldMtu + mtu \in Nat /\ TriesLeft \in Nat
              /\ ErrorsLeft \in Nat /\ SendsLeft \in Nat)'
      BY LeftType, PTL
    <2> QED BY <2>1
  <1>3. /\ Left = <<HopsLeft, oldMtu + mtu, TriesLeft, ErrorsLeft, SendsLeft>>
        /\ Left' = <<HopsLeft', oldMtu' + mtu', TriesLeft', ErrorsLeft', SendsLeft'>>
    BY DEF Left
  <1> SUFFICES
        \/ HopsLeft' < HopsLeft
        \/ HopsLeft' = HopsLeft /\ oldMtu' + mtu' < oldMtu + mtu
        \/ HopsLeft' = HopsLeft /\ oldMtu' + mtu' = oldMtu + mtu /\ TriesLeft' < TriesLeft
        \/ /\ HopsLeft' = HopsLeft /\ oldMtu' + mtu' = oldMtu + mtu /\ TriesLeft' = TriesLeft
           /\ ErrorsLeft' < ErrorsLeft
        \/ /\ HopsLeft' = HopsLeft /\ oldMtu' + mtu' = oldMtu + mtu /\ TriesLeft' = TriesLeft
           /\ ErrorsLeft' = ErrorsLeft /\ SendsLeft' < SendsLeft
    BY <1>1, <1>2, <1>3, Falls, Zenon
  <1>4. CASE SendOk
    <2>1. pc = "send" /\ pc' = "wait" /\ UNCHANGED <<ttl, tries, mtu, oldMtu>>
      BY <1>4 DEF SendOk, loop
    <2>2. HopsLeft' = HopsLeft /\ oldMtu' + mtu' = oldMtu + mtu
      BY <2>1 DEF HopsLeft, Running
    <2>3. TriesLeft = 2 * (Tries - tries) + 1 /\ TriesLeft' = 2 * (Tries - tries) + 0
      BY <2>1 DEF TriesLeft
    <2>4. TriesLeft' < TriesLeft
      BY <2>3, <1>0
    <2> QED BY <2>2, <2>4, Zenon
  <1>5. CASE SendFails
    BY <1>5, SendFailsFalls, Zenon
  <1>6. CASE WaitEnds
    <2>1. /\ pc = "wait" /\ pc' = "drain" /\ after' = "wait" /\ progress' = FALSE
          /\ UNCHANGED <<ttl, tries, fails, mtu, oldMtu, net, errq, faults>>
      BY <1>6 DEF WaitEnds, loop
    <2>2. HopsLeft' = HopsLeft /\ oldMtu' + mtu' = oldMtu + mtu /\ TriesLeft' = TriesLeft
      BY <2>1 DEF HopsLeft, Running, TriesLeft
    <2>3. ErrorsLeft' = ErrorsLeft
      BY <2>1, Zenon DEF ErrorsLeft
    <2>4. SendsLeft = 2 * (MaxProbes - fails) + 1 /\ SendsLeft' = 2 * (MaxProbes - fails) + 0
      BY <2>1 DEF SendsLeft
    <2>5. SendsLeft' < SendsLeft
      BY <2>4, <1>0
    <2> QED BY <2>2, <2>3, <2>5, Zenon
  <1>7. CASE DataReply
    <2>1. ProbeReturns("over") /\ mtu' = mtu /\ Running
      BY <1>7 DEF DataReply, Running
    <2> QED BY <2>1, ProbeReturnsFalls
  <1>8. CASE DrainEmpty
    BY <1>8, DrainEmptyFalls, Zenon
  <1>9. ASSUME NEW echo \in Echoes, DrainError(echo)
        PROVE  \/ HopsLeft' < HopsLeft
               \/ HopsLeft' = HopsLeft /\ oldMtu' + mtu' < oldMtu + mtu
               \/ HopsLeft' = HopsLeft /\ oldMtu' + mtu' = oldMtu + mtu /\ TriesLeft' < TriesLeft
               \/ /\ HopsLeft' = HopsLeft /\ oldMtu' + mtu' = oldMtu + mtu
                  /\ TriesLeft' = TriesLeft /\ ErrorsLeft' < ErrorsLeft
    <2>1. mtu' \in Nat /\ mtu' <= mtu
      BY NextPath, Zenon DEF TypeOK
    <2> QED BY <1>9, <2>1, DrainErrorFalls, Zenon
  <1>10. CASE Network
    BY <1>10, NetworkFalls, Zenon
  <1> QED
    BY <1>4, <1>5, <1>6, <1>7, <1>8, <1>9, <1>10, Zenon DEF Next, Process, Stopped

(* A trace cannot go on for ever: on a path that keeps the order of        *)
(* answers every step of tracepath and of the network lowers a measure     *)
(* without infinite descent, for every path, -m, -l and number of faults,  *)
(* unless max_hops is the largest 8-bit TTL and the kernel accepts 0.      *)
THEOREM TraceWindsDown == Spec => WindsDown
  <1>1. Init => DownInv
    <2> SUFFICES ASSUME Init PROVE DownParts
      BY DEF DownInv
    <2>1. /\ mtu = StartMtu /\ oldMtu = StartMtu /\ ttl = 1 /\ errq = <<>> /\ Len(errq) = 0
      BY DEF Init
    <2>2. StartMtu \in Nat /\ MaxHops \in Nat /\ MaxHops >= 1
      BY TracepathAssumption
    <2> QED BY <2>1, <2>2 DEF DownParts
  <1>2. TypeOK /\ PathInv /\ DownInv /\ [Next]_vars => DownInv'
    <2> SUFFICES ASSUME TypeOK, PathInv, DownInv, [Next]_vars, fifo' PROVE DownParts'
      BY DEF DownInv
    <2>1. fifo
      BY FifoKept, Zenon
    <2> QED BY <2>1, NextDown, Zenon DEF PathInv, DownInv
  <1>3. /\ TypeOK /\ PathInv /\ DownInv /\ TypeOK' /\ PathInv' /\ DownInv' /\ [Next]_vars
        => [fifo /\ (MaxHops < TtlMod - 1 \/ ~IPv6) => LexLess(Left', Left)]_vars
    <2> SUFFICES ASSUME TypeOK, PathInv, DownInv, TypeOK', PathInv', DownInv', Next,
                        ~(UNCHANGED vars), fifo, MaxHops < TtlMod - 1 \/ ~IPv6
                 PROVE  LexLess(Left', Left)
      BY Zenon
    <2>1. fifo'
      BY FifoKept, Zenon
    <2>2. PathParts /\ DownParts /\ PathParts' /\ DownParts'
      BY <2>1, Zenon DEF PathInv, DownInv
    <2> QED BY <2>2, LeftFalls, Zenon
  <1> QED
    BY <1>1, <1>2, <1>3, InitTypeOK, NextTypeOK, InitPath, NextPathInv, PTL DEF Spec, WindsDown
=============================================================================
