-------------------------- MODULE BrightLinkProofs --------------------------
(***************************************************************************)
(* For every set of bridge keys and every number of calls and restarts:    *)
(* the client's types, the pairing of requests and answers, the soundness  *)
(* of the session it commits, and the end of every call.                   *)
(***************************************************************************)
EXTENDS BrightLink, SequenceTheorems, TLAPS

(* Why answers pair with requests: one exchange is on the wire at a time,  *)
(* either still to be read by the bridge, or answered, or lost.            *)
OneExchange ==
    \/ reqs = <<>> /\ resps = <<>>
    \/ /\ pc = "wait" /\ resps = <<>>
       /\ Len(reqs) = 1 /\ reqs[1].id = nreq
    \/ /\ pc = "wait" /\ reqs = <<>>
       /\ Len(resps) = 1 /\ resps[1].id = nreq

(* Why a session is sound: LINK_REGISTER is only sent with a key that has  *)
(* passed the comparison with the pin.                                     *)
CheckedKey ==
    pc \in {"send", "wait"} /\ cmd = "LINK_REGISTER"
        => sepPub \in Keys /\ (pin = NoKey \/ pin = sepPub)

IInv == TypeOK /\ OneExchange /\ SessionSound /\ CheckedKey

-----------------------------------------------------------------------------
(* Facts about the sequences on the wire.                                  *)

(* Reading a stream of length one gives its element and empties it.        *)
LEMMA TailOfOne ==
    ASSUME NEW S, NEW s \in Seq(S), Len(s) = 1
    PROVE  Head(s) \in S /\ Head(s) = s[1] /\ Tail(s) = <<>>
  <1>1. s # <<>>
    <2>1. s = <<>> => Len(s) = 0
      BY EmptySeq, Zenon
    <2> QED BY <2>1
  <1>2. Tail(s) \in Seq(S) /\ Len(Tail(s)) = 0 /\ Head(s) \in S
    BY <1>1, HeadTailProperties
  <1>3. Tail(s) = <<>>
    BY <1>2, EmptySeq, Zenon
  <1> QED
    BY <1>1, <1>2, <1>3

(* Writing to an empty stream.                                             *)
LEMMA AppendToEmpty ==
    ASSUME NEW S, NEW e \in S
    PROVE  /\ Append(<<>>, e) \in Seq(S)
           /\ Len(Append(<<>>, e)) = 1 /\ Append(<<>>, e)[1] = e
    BY EmptySeq, AppendProperties

-----------------------------------------------------------------------------

(* The initial state satisfies the inductive invariant.                    *)
LEMMA InitIInv == Init => IInv
  <1> SUFFICES ASSUME Init PROVE IInv
    OBVIOUS
  <1>1. PICK k \in Keys : bridge = [up |-> TRUE, epoch |-> 0, key |-> k]
    BY DEF Init
  <1>2. bridge \in Bridges
    BY <1>1 DEF Bridges
  <1>3. reqs \in Seq(Requests) /\ resps \in Seq(Responses)
    BY EmptySeq DEF Init
  <1>4. TypeOK
    BY <1>2, <1>3 DEF Init, TypeOK, Locations, Commands, Status, Refusals
  <1> QED
    BY <1>4 DEF Init, IInv, OneExchange, SessionSound, CheckedKey

(* A read leaves both streams empty, and what it read is well formed.      *)
LEMMA ReadEmpties ==
    ASSUME IInv, NEW c \in Commands, Read(c)
    PROVE  /\ reqs' = <<>> /\ resps' = <<>>
           /\ Head(resps) \in Responses
           /\ pc = "wait" /\ cmd = c
           /\ UNCHANGED <<call, ncalls, fd, nreq, reqs, bridge, linked>>
  <1>1. reqs = <<>> /\ Len(resps) = 1
    BY EmptySeq DEF IInv, OneExchange, Read
  <1>2. resps \in Seq(Responses)
    BY DEF IInv, TypeOK
  <1>3. Tail(resps) = <<>> /\ Head(resps) \in Responses
    BY <1>1, <1>2, TailOfOne
  <1> QED
    BY <1>1, <1>3 DEF Read, bridgeVars

(* Every step of the client and of its environment preserves it.           *)
LEMMA NextIInv == IInv /\ [Next]_vars => IInv'
  <1> SUFFICES ASSUME IInv, [Next]_vars PROVE IInv'
    OBVIOUS
  <1> USE DEF IInv
  <1>a. <<>> \in Seq(Requests) /\ <<>> \in Seq(Responses)
    BY EmptySeq
  <1>b. NoKey \in Keys \cup {NoKey} /\ "" \in Refusals \cup {""}
    OBVIOUS
  <1>1. CASE ClientNew
    <2>1. TypeOK'
      BY <1>1, <1>b
      DEF ClientNew, bridgeVars, Locations, Status, TypeOK
    <2>2. OneExchange'
      BY <1>1, <1>b
      DEF ClientNew, bridgeVars, OneExchange
    <2>3. SessionSound' /\ CheckedKey'
      BY <1>1, <1>b
      DEF ClientNew, bridgeVars, SessionSound, CheckedKey
    <2> QED
      BY <2>1, <2>2, <2>3
  <1>2. CASE ClientFree
    <2>1. TypeOK'
      BY <1>2, <1>a, <1>b
      DEF ClientFree, bl_disconnect, bridgeVars, Locations, TypeOK
    <2>2. OneExchange'
      BY <1>2, <1>a, <1>b
      DEF ClientFree, bl_disconnect, bridgeVars, OneExchange
    <2>3. SessionSound' /\ CheckedKey'
      BY <1>2, <1>a, <1>b
      DEF ClientFree, bl_disconnect, bridgeVars, SessionSound,
          CheckedKey
    <2> QED
      BY <2>1, <2>2, <2>3
  <1>3. CASE Register
    <2>a. pin' \in Keys \cup {NoKey} /\ sepPub' \in Keys \cup {NoKey}
      BY <1>3 DEF Register, StartRegister, TypeOK
    <2>b. pc' \in Locations /\ cmd' \in Commands /\ result' \in Status
      BY <1>3
      DEF Register, StartRegister, Return, Exchange, TypeOK, Locations, Commands,
          Status
    <2>c. lastError' \in Refusals \cup {""}
      BY <1>3 DEF Register, StartRegister, TypeOK
    <2>d. ncalls' \in Nat
      <3>1. ncalls' = ncalls + 1
        BY <1>3 DEF Register
      <3>2. ncalls \in Nat
        BY DEF TypeOK
      <3> QED
        BY <3>1, <3>2
    <2>1. TypeOK'
      BY <1>3, <2>a, <2>b, <2>c, <2>d
      DEF Register, StartRegister, wireVars, bridgeVars, TypeOK
    <2>2. OneExchange'
      BY <1>3, <1>b
      DEF Register, StartRegister, Return, Exchange, wireVars,
          bridgeVars, OneExchange
    <2>3. SessionSound' /\ CheckedKey'
      BY <1>3, <1>b
      DEF Register, StartRegister, Return, Exchange, wireVars,
          bridgeVars, Commands, SessionSound, CheckedKey
    <2> QED
      BY <2>1, <2>2, <2>3
  <1>4. CASE GeoGet
    <2>a. pin' \in Keys \cup {NoKey} /\ sepPub' \in Keys \cup {NoKey}
      BY <1>4 DEF GeoGet, StartRegister, TypeOK
    <2>b. pc' \in Locations /\ cmd' \in Commands /\ result' \in Status
      BY <1>4
      DEF GeoGet, StartRegister, Return, Exchange, TypeOK, Locations, Commands,
          Status
    <2>c. lastError' \in Refusals \cup {""}
      BY <1>4 DEF GeoGet, StartRegister, TypeOK
    <2>d. ncalls' \in Nat
      <3>1. ncalls' = ncalls + 1
        BY <1>4 DEF GeoGet
      <3>2. ncalls \in Nat
        BY DEF TypeOK
      <3> QED
        BY <3>1, <3>2
    <2>1. TypeOK'
      BY <1>4, <2>a, <2>b, <2>c, <2>d
      DEF GeoGet, StartRegister, wireVars, bridgeVars, TypeOK
    <2>2. OneExchange'
      BY <1>4, <1>b
      DEF GeoGet, StartRegister, Exchange, wireVars, bridgeVars,
          OneExchange
    <2>3. SessionSound' /\ CheckedKey'
      BY <1>4, <1>b
      DEF GeoGet, StartRegister, Exchange, wireVars, bridgeVars,
          Commands, SessionSound, CheckedKey
    <2> QED
      BY <2>1, <2>2, <2>3
  <1>5. CASE ConnectFails
    <2>1. TypeOK'
      <3>1. pc' \in Locations /\ result' \in Status
        BY <1>5 DEF ConnectFails, Return, Locations, Status
      <3>2. UNCHANGED <<cmd, call, session, pin, sepPub, store, lastError, ncalls, expired,
                        fd, nreq, reqs, resps, bridge, linked>>
        BY <1>5 DEF ConnectFails, wireVars, bridgeVars
      <3> QED BY <3>1, <3>2 DEF TypeOK
    <2>2. OneExchange'
      BY <1>5
      DEF ConnectFails, Return, wireVars, bridgeVars, OneExchange
    <2>3. SessionSound' /\ CheckedKey'
      BY <1>5
      DEF ConnectFails, Return, wireVars, bridgeVars, SessionSound,
          CheckedKey
    <2> QED
      BY <2>1, <2>2, <2>3
  <1>6. CASE SendRequest
    <2> DEFINE r == [id |-> nreq + 1, cmd |-> cmd]
    <2>1. nreq \in Nat /\ cmd \in Commands /\ bridge.epoch \in Nat
      BY DEF TypeOK, Bridges
    <2>2. r \in Requests /\ r.id = nreq + 1
      BY <2>1 DEF Requests
    <2>3. reqs' = Append(<<>>, r) /\ resps = <<>>
      BY <1>6 DEF SendRequest, OneExchange
    <2>4. reqs' \in Seq(Requests) /\ Len(reqs') = 1 /\ reqs'[1] = r
      BY <2>2, <2>3, AppendToEmpty
    <2>a. pc' \in Locations /\ nreq' \in Nat
      BY <1>6, <2>1 DEF SendRequest, Locations
    <2>b. fd' \in Nat \cup {-1}
      BY <1>6, <2>1 DEF SendRequest, TypeOK
    <2>5. TypeOK'
      BY <1>6, <2>4, <2>a, <2>b DEF SendRequest, bridgeVars, TypeOK
    <2>6. OneExchange'
      BY <1>6, <2>2, <2>3, <2>4
      DEF SendRequest, PeerAlive, bridgeVars, OneExchange
    <2>7. SessionSound' /\ CheckedKey'
      BY <1>6
      DEF SendRequest, PeerAlive, bridgeVars, SessionSound, CheckedKey
    <2> QED
      BY <2>5, <2>6, <2>7
  <1>7. CASE WriteFails
    <2>1. TypeOK'
      <3>1. pc' \in Locations /\ result' \in Status
        BY <1>7 DEF WriteFails, Return, Locations, Status, TypeOK
      <3>2. fd' \in Nat \cup {-1} /\ reqs' \in Seq(Requests) /\ resps' \in Seq(Responses)
        BY <1>7, <1>a DEF WriteFails, bl_disconnect
      <3>3. UNCHANGED <<cmd, call, session, pin, sepPub, store, lastError, ncalls, nreq,
                        expired, bridge, linked>>
        BY <1>7 DEF WriteFails, bridgeVars
      <3> QED BY <3>1, <3>2, <3>3 DEF TypeOK
    <2>2. OneExchange'
      BY <1>7, <1>a
      DEF WriteFails, Return, bl_disconnect, bridgeVars, OneExchange
    <2>3. SessionSound' /\ CheckedKey'
      BY <1>7, <1>a
      DEF WriteFails, Return, bl_disconnect, bridgeVars, SessionSound,
          CheckedKey
    <2> QED
      BY <2>1, <2>2, <2>3
  <1>8. CASE ReadFails
    <2>1. TypeOK'
      <3>1. pc' \in Locations /\ result' \in Status
        BY <1>8 DEF ReadFails, Return, Locations, Status, TypeOK
      <3>2. fd' \in Nat \cup {-1} /\ reqs' \in Seq(Requests) /\ resps' \in Seq(Responses)
        BY <1>8, <1>a DEF ReadFails, bl_disconnect
      <3>3. UNCHANGED <<cmd, call, session, pin, sepPub, store, lastError, ncalls, nreq,
                        expired, bridge, linked>>
        BY <1>8 DEF ReadFails, bridgeVars
      <3> QED BY <3>1, <3>2, <3>3 DEF TypeOK
    <2>2. OneExchange'
      BY <1>8, <1>a
      DEF ReadFails, Return, bl_disconnect, bridgeVars, OneExchange
    <2>3. SessionSound' /\ CheckedKey'
      BY <1>8, <1>a
      DEF ReadFails, Return, bl_disconnect, bridgeVars, SessionSound,
          CheckedKey
    <2> QED
      BY <2>1, <2>2, <2>3
  <1>9. CASE CopyFails
    <2>1. reqs = <<>> /\ Len(resps) = 1 /\ resps \in Seq(Responses)
      BY <1>9, EmptySeq DEF CopyFails, OneExchange, TypeOK
    <2>2. resps' = <<>>
      BY <1>9, <2>1, TailOfOne DEF CopyFails
    <2>3. TypeOK'
      <3>1. pc' \in Locations /\ result' \in Status
        BY <1>9 DEF CopyFails, Return, Locations, Status
      <3>2. UNCHANGED <<cmd, call, session, pin, sepPub, store, lastError, ncalls, fd, nreq,
                        reqs, expired, bridge, linked>>
        BY <1>9 DEF CopyFails, bridgeVars
      <3> QED BY <1>a, <2>2, <3>1, <3>2 DEF TypeOK
    <2>4. OneExchange'
      BY <1>9, <1>a, <2>1, <2>2
      DEF CopyFails, Return, bridgeVars, OneExchange
    <2>5. SessionSound' /\ CheckedKey'
      BY <1>9, <1>a
      DEF CopyFails, Return, bridgeVars, SessionSound, CheckedKey
    <2> QED
      BY <2>3, <2>4, <2>5
  <1>10. ASSUME NEW c \in Commands, Refused(c) \/ Malformed(c)
         PROVE  IInv'
    <2>1. Read(c)
      BY <1>10 DEF Refused, Malformed
    <2>2. /\ reqs' = <<>> /\ resps' = <<>>
          /\ UNCHANGED <<call, ncalls, fd, nreq, bridge, linked>>
      BY <2>1, ReadEmpties
    <2>3. pc' = "idle" /\ result' \in Status
      BY <1>10 DEF Refused, Malformed, Return, Status
    <2>4. lastError' \in Refusals \cup {""}
      BY <1>10 DEF Refused, Malformed, TypeOK
    <2>5. expired' \in BOOLEAN
      BY <1>10 DEF Refused, Malformed, TypeOK
    <2>6. UNCHANGED <<cmd, session, pin, sepPub, store>>
      BY <1>10 DEF Refused, Malformed
    <2>7. TypeOK'
      BY <1>a, <2>2, <2>3, <2>4, <2>5, <2>6 DEF TypeOK, Locations
    <2> QED
      BY <2>2, <2>3, <2>6, <2>7 DEF OneExchange, SessionSound, CheckedKey
  <1>11. CASE GotPublicKey
    <2>1. Read("GET_PUBLIC_KEY")
      BY <1>11 DEF GotPublicKey
    <2>2. /\ reqs' = <<>> /\ resps' = <<>> /\ Head(resps) \in Responses
          /\ pc = "wait" /\ cmd = "GET_PUBLIC_KEY"
          /\ UNCHANGED <<call, ncalls, fd, nreq, bridge, linked>>
      BY <2>1, ReadEmpties DEF Commands
    <2>3. TypeOK'
      <3>1. pc' \in Locations /\ cmd' \in Commands
        BY <1>11 DEF GotPublicKey, Exchange, Locations, Commands
      <3>2. UNCHANGED <<session, pin, sepPub, store, lastError, result, expired>>
        BY <1>11 DEF GotPublicKey
      <3> QED BY <1>a, <2>2, <3>1, <3>2 DEF TypeOK
    <2>4. OneExchange'
      BY <1>11, <2>2
      DEF GotPublicKey, Exchange, OneExchange
    <2>5. SessionSound' /\ CheckedKey'
      BY <1>11, <2>2
      DEF GotPublicKey, Exchange, Commands, SessionSound, CheckedKey,
          TypeOK
    <2> QED
      BY <2>3, <2>4, <2>5
  <1>12. CASE GotEnclaveKey
    <2>1. Read("GET_ENCLAVE_PUBLIC_KEY")
      BY <1>12 DEF GotEnclaveKey
    <2>2. /\ reqs' = <<>> /\ resps' = <<>> /\ Head(resps) \in Responses
          /\ pc = "wait" /\ cmd = "GET_ENCLAVE_PUBLIC_KEY"
          /\ UNCHANGED <<call, ncalls, fd, nreq, bridge, linked>>
      BY <2>1, ReadEmpties DEF Commands
    <2>3. Head(resps).key \in Keys
      BY <2>2 DEF Responses
    <2>4. TypeOK'
      <3>1. pc' \in Locations
        BY <1>12 DEF GotEnclaveKey, Exchange, Return, Locations
      <3>2. cmd' \in Commands
        BY <1>12 DEF GotEnclaveKey, Exchange, Commands, TypeOK
      <3>3. result' \in Status
        BY <1>12 DEF GotEnclaveKey, Return, Status, TypeOK
      <3>4. sepPub' \in Keys /\ UNCHANGED <<session, pin, store, lastError, expired>>
        BY <1>12, <2>3 DEF GotEnclaveKey
      <3> QED BY <1>a, <2>2, <3>1, <3>2, <3>3, <3>4 DEF TypeOK
    <2>5. OneExchange'
      BY <1>12, <2>2, <2>3
      DEF GotEnclaveKey, Exchange, Return, OneExchange
    <2>6. SessionSound' /\ CheckedKey'
      BY <1>12, <2>2, <2>3
      DEF GotEnclaveKey, Exchange, Return, Commands, SessionSound,
          CheckedKey, TypeOK
    <2> QED
      BY <2>4, <2>5, <2>6
  <1>13. CASE RegisterFailsCrypto
    <2>1. Read("LINK_REGISTER")
      BY <1>13 DEF RegisterFailsCrypto
    <2>2. /\ reqs' = <<>> /\ resps' = <<>> /\ Head(resps) \in Responses
          /\ pc = "wait" /\ cmd = "LINK_REGISTER"
          /\ UNCHANGED <<call, ncalls, fd, nreq, bridge, linked>>
      BY <2>1, ReadEmpties DEF Commands
    <2>3. TypeOK'
      <3>1. pc' \in Locations /\ result' \in Status
        BY <1>13 DEF RegisterFailsCrypto, Return, Locations, Status
      <3>2. UNCHANGED <<cmd, session, pin, sepPub, store, lastError, expired>>
        BY <1>13 DEF RegisterFailsCrypto
      <3> QED BY <1>a, <2>2, <3>1, <3>2 DEF TypeOK
    <2>4. OneExchange'
      BY <1>13, <2>2
      DEF RegisterFailsCrypto, Return, OneExchange
    <2>5. SessionSound' /\ CheckedKey'
      BY <1>13, <2>2
      DEF RegisterFailsCrypto, Return, SessionSound, CheckedKey, TypeOK
    <2> QED
      BY <2>3, <2>4, <2>5
  <1>14. CASE Registered
    <2>1. Read("LINK_REGISTER")
      BY <1>14 DEF Registered
    <2>2. /\ reqs' = <<>> /\ resps' = <<>> /\ Head(resps) \in Responses
          /\ pc = "wait" /\ cmd = "LINK_REGISTER"
          /\ UNCHANGED <<call, ncalls, fd, nreq, bridge, linked>>
      BY <2>1, ReadEmpties DEF Commands
    <2>3. sepPub \in Keys /\ (pin = NoKey \/ pin = sepPub)
      BY <2>2 DEF CheckedKey
    <2>4. session' = sepPub /\ pin' = sepPub /\ store' \in {sepPub, store}
      BY <1>14, <2>3 DEF Registered
    <2>5. TypeOK'
      <3>1. pc' \in Locations
        BY <1>14 DEF Registered, Exchange, Return, Locations
      <3>2. cmd' \in Commands
        BY <1>14 DEF Registered, Exchange, Commands, TypeOK
      <3>3. result' \in Status
        BY <1>14 DEF Registered, Return, Status, TypeOK
      <3>4. expired' = FALSE /\ UNCHANGED <<sepPub, lastError>>
        BY <1>14 DEF Registered
      <3> QED BY <1>a, <2>2, <2>3, <2>4, <3>1, <3>2, <3>3, <3>4 DEF TypeOK
    <2>6. OneExchange'
      BY <1>14, <2>2, <2>3, <2>4
      DEF Registered, Exchange, Return, OneExchange
    <2>7. SessionSound' /\ CheckedKey'
      BY <1>14, <2>2, <2>3, <2>4
      DEF Registered, Exchange, Return, Commands, SessionSound,
          CheckedKey, TypeOK
    <2> QED
      BY <2>5, <2>6, <2>7
  <1>15. CASE GotPosition
    <2>1. Read("LINK_GEO_GET")
      BY <1>15 DEF GotPosition
    <2>2. /\ reqs' = <<>> /\ resps' = <<>> /\ Head(resps) \in Responses
          /\ pc = "wait" /\ cmd = "LINK_GEO_GET"
          /\ UNCHANGED <<call, ncalls, fd, nreq, bridge, linked>>
      BY <2>1, ReadEmpties DEF Commands
    <2>3. TypeOK'
      <3>1. pc' \in Locations /\ result' \in Status
        BY <1>15 DEF GotPosition, Return, Locations, Status
      <3>2. UNCHANGED <<cmd, session, pin, sepPub, store, lastError, expired>>
        BY <1>15 DEF GotPosition
      <3> QED BY <1>a, <2>2, <3>1, <3>2 DEF TypeOK
    <2>4. OneExchange'
      BY <1>15, <2>2
      DEF GotPosition, Return, OneExchange
    <2>5. SessionSound' /\ CheckedKey'
      BY <1>15, <2>2
      DEF GotPosition, Return, SessionSound, CheckedKey, TypeOK
    <2> QED
      BY <2>3, <2>4, <2>5
  <1>16. CASE BridgeAnswers
    <2>1. pc = "wait" /\ Len(reqs) = 1 /\ reqs[1].id = nreq /\ resps = <<>>
      BY <1>16 DEF BridgeAnswers, OneExchange
    <2>2. /\ Head(reqs) \in Requests /\ Head(reqs).id = nreq
          /\ reqs' = <<>>
      BY <1>16, <2>1, TailOfOne DEF BridgeAnswers, TypeOK
    <2>3. PICK body \in Answers(Head(reqs).cmd) :
             /\ resps' = Append(resps, [id |-> Head(reqs).id, body |-> body,
                                        key |-> bridge.key])
             /\ linked' = (linked \/ (Head(reqs).cmd = "LINK_REGISTER"
                                        /\ body = "ok"))
      BY <1>16 DEF BridgeAnswers
    <2>b. bridge.key \in Keys
      BY DEF TypeOK, Bridges
    <2>c. body \in Bodies
      BY <2>3 DEF Answers, Bodies, Refusals
    <2>4. [id |-> Head(reqs).id, body |-> body, key |-> bridge.key]
             \in Responses
      BY <2>2, <2>b, <2>c DEF Requests, Responses
    <2>5. resps' \in Seq(Responses) /\ Len(resps') = 1 /\ resps'[1].id = nreq
      BY <2>1, <2>2, <2>3, <2>4, AppendToEmpty
    <2>6. UNCHANGED <<clientVars, fd, nreq, bridge>>
      BY <1>16 DEF BridgeAnswers
    <2>7. linked' \in BOOLEAN
      BY <2>3 DEF TypeOK
    <2>8. TypeOK'
      BY <1>a, <2>2, <2>5, <2>6, <2>7 DEF clientVars, TypeOK
    <2>9. OneExchange'
      BY <2>1, <2>2, <2>5, <2>6 DEF clientVars, OneExchange
    <2> QED
      BY <2>6, <2>8, <2>9 DEF clientVars, SessionSound, CheckedKey
  <1>17. CASE SessionExpires
    <2>1. bridge' \in Bridges
      BY <1>17 DEF SessionExpires, TypeOK, Bridges
    <2>2. TypeOK'
      BY <1>17, <1>a, <2>1
      DEF SessionExpires, clientVars, wireVars, TypeOK
    <2>3. OneExchange'
      BY <1>17, <1>a, <2>1
      DEF SessionExpires, clientVars, wireVars, OneExchange
    <2>4. SessionSound' /\ CheckedKey'
      BY <1>17, <1>a, <2>1
      DEF SessionExpires, clientVars, wireVars, SessionSound, CheckedKey
    <2> QED
      BY <2>2, <2>3, <2>4
  <1>18. CASE BridgeStarts
    <2>1. bridge.epoch \in Nat
      BY DEF TypeOK, Bridges
    <2>2. bridge' \in Bridges
      BY <1>18, <2>1 DEF BridgeStarts, Bridges
    <2>3. TypeOK'
      BY <1>18, <1>a, <2>2
      DEF BridgeStarts, clientVars, wireVars, TypeOK
    <2>4. OneExchange'
      BY <1>18, <1>a, <2>2
      DEF BridgeStarts, clientVars, wireVars, OneExchange
    <2>5. SessionSound' /\ CheckedKey'
      BY <1>18, <1>a, <2>2
      DEF BridgeStarts, clientVars, wireVars, SessionSound, CheckedKey
    <2> QED
      BY <2>3, <2>4, <2>5
  <1>19. CASE BridgeRekeys
    <2>1. bridge' \in Bridges
      BY <1>19 DEF BridgeRekeys, TypeOK, Bridges
    <2>2. TypeOK'
      BY <1>19, <1>a, <2>1
      DEF BridgeRekeys, clientVars, wireVars, TypeOK
    <2>3. OneExchange'
      BY <1>19, <1>a, <2>1
      DEF BridgeRekeys, clientVars, wireVars, OneExchange
    <2>4. SessionSound' /\ CheckedKey'
      BY <1>19, <1>a, <2>1
      DEF BridgeRekeys, clientVars, wireVars, SessionSound, CheckedKey
    <2> QED
      BY <2>2, <2>3, <2>4
  <1>20. CASE BridgeStops
    <2>1. bridge' \in Bridges
      BY <1>20 DEF BridgeStops, TypeOK, Bridges
    <2>2. TypeOK'
      BY <1>20, <1>a, <2>1
      DEF BridgeStops, clientVars, TypeOK
    <2>3. OneExchange'
      BY <1>20, <1>a, <2>1
      DEF BridgeStops, clientVars, OneExchange
    <2>4. SessionSound' /\ CheckedKey'
      BY <1>20, <1>a, <2>1
      DEF BridgeStops, clientVars, SessionSound, CheckedKey
    <2> QED
      BY <2>2, <2>3, <2>4
  <1>21. CASE ResetPin
    <2>1. TypeOK'
      BY <1>21, <1>b
      DEF ResetPin, wireVars, bridgeVars, TypeOK
    <2>2. OneExchange'
      BY <1>21, <1>b
      DEF ResetPin, wireVars, bridgeVars, OneExchange
    <2>3. SessionSound' /\ CheckedKey'
      BY <1>21, <1>b
      DEF ResetPin, wireVars, bridgeVars, SessionSound, CheckedKey
    <2> QED
      BY <2>1, <2>2, <2>3
  <1>22. CASE UNCHANGED vars
    <2>1. TypeOK'
      BY <1>22
      DEF vars, clientVars, wireVars, bridgeVars, TypeOK
    <2>2. OneExchange'
      BY <1>22
      DEF vars, clientVars, wireVars, bridgeVars, OneExchange
    <2>3. SessionSound' /\ CheckedKey'
      BY <1>22
      DEF vars, clientVars, wireVars, bridgeVars, SessionSound,
          CheckedKey
    <2> QED
      BY <2>1, <2>2, <2>3
  <1> QED
    BY <1>1, <1>2, <1>3, <1>4, <1>5, <1>6, <1>7, <1>8, <1>9, <1>10,
       <1>11, <1>12, <1>13, <1>14, <1>15, <1>16, <1>17, <1>18, <1>19,
       <1>20, <1>21, <1>22
    DEF Next, ClientStep

(* The inductive invariant holds throughout.                               *)
LEMMA Invariance == Spec => []IInv
    BY InitIInv, NextIInv, PTL DEF Spec

(* What is in flight is one exchange, so its answers pair.                 *)
LEMMA OneExchangePairs == IInv => Pairing
    BY DEF IInv, OneExchange, Pairing

(* Type correctness of the client and of what is on its wire.              *)
THEOREM TypeCorrect == Spec => []TypeOK
    BY Invariance, PTL DEF IInv

(* Every answer the client reads was written for the request it wrote      *)
(* last: a read that fails takes its late answer down with the connection. *)
THEOREM AnswersPaired == Spec => []Pairing
    BY Invariance, OneExchangePairs, PTL

(* A committed session was signed by the key the client has pinned, for    *)
(* any interleaving of restarts and new identities with the handshake.     *)
THEOREM SessionsSound == Spec => []SessionSound
    BY Invariance, PTL DEF IInv

-----------------------------------------------------------------------------
(* The pin.                                                                *)

(* A handle that does not exist has no pin; and during a call an unpinned  *)
(* client has found its store empty, unless a load may fail.               *)
PinLoaded ==
    /\ pc = "none" => pin = NoKey
    /\ pc \in {"send", "wait"} /\ pin = NoKey /\ ~LoadMayFail => store = NoKey

(* What every step but the ones that load, learn or reset a pin leaves.    *)
LEMMA PinUntouched ==
    ASSUME IInv, Next
    PROVE  \/ UNCHANGED <<pin, store>> /\ (pc' \in {"send", "wait"} => pc \in {"send", "wait"})
                                      /\ (pc' = "none" => pc = "none")
           \/ ClientNew \/ ClientFree \/ Register \/ GeoGet \/ Registered \/ ResetPin
  <1>1. CASE ConnectFails \/ SendRequest \/ WriteFails \/ ReadFails \/ CopyFails
    BY <1>1 DEF ConnectFails, SendRequest, WriteFails, ReadFails, CopyFails, Return
  <1>2. ASSUME NEW c \in Commands, Refused(c) \/ Malformed(c)
        PROVE  UNCHANGED <<pin, store>> /\ pc' = "idle"
    BY <1>2 DEF Refused, Malformed, Return
  <1>3. CASE GotPublicKey \/ GotEnclaveKey
    BY <1>3 DEF GotPublicKey, GotEnclaveKey, Read, Return, Exchange
  <1>4. CASE RegisterFailsCrypto \/ GotPosition
    BY <1>4 DEF RegisterFailsCrypto, GotPosition, Return
  <1>5. CASE \/ BridgeAnswers \/ SessionExpires \/ BridgeStops
             \/ BridgeStarts \/ BridgeRekeys
    BY <1>5
    DEF BridgeAnswers, SessionExpires, BridgeStops, BridgeStarts, BridgeRekeys,
        clientVars
  <1> QED
    BY <1>1, <1>2, <1>3, <1>4, <1>5 DEF Next, ClientStep

(* PinLoaded is kept by every step.                                        *)
LEMMA NextPinLoaded == IInv /\ PinLoaded /\ [Next]_vars => PinLoaded'
  <1> SUFFICES ASSUME IInv, PinLoaded, [Next]_vars PROVE PinLoaded'
    OBVIOUS
  <1>1. CASE ClientNew \/ ClientFree
    BY <1>1 DEF ClientNew, ClientFree, PinLoaded
  <1>2. CASE Register
    BY <1>2, BrightLinkAssumption
    DEF Register, StartRegister, Return, Exchange, PinLoaded
  <1>3. CASE GeoGet
    BY <1>3, BrightLinkAssumption
    DEF GeoGet, StartRegister, Exchange, PinLoaded, IInv, SessionSound
  <1>4. CASE Registered
    <2>1. pin' # NoKey
      <3>1. pc = "wait" /\ cmd = "LINK_REGISTER"
        BY <1>4 DEF Registered, Read
      <3>2. sepPub # NoKey
        BY <3>1, BrightLinkAssumption DEF IInv, CheckedKey
      <3> QED
        BY <1>4, <3>2 DEF Registered
    <2>2. pc' # "none"
      BY <1>4 DEF Registered, Return, Exchange
    <2> QED
      BY <2>1, <2>2 DEF PinLoaded
  <1>5. CASE ResetPin
    BY <1>5 DEF ResetPin, PinLoaded
  <1>6. CASE UNCHANGED vars
    BY <1>6 DEF vars, clientVars, PinLoaded
  <1> QED
    BY <1>1, <1>2, <1>3, <1>4, <1>5, <1>6, PinUntouched DEF PinLoaded

(* PinLoaded holds throughout.                                             *)
LEMMA PinLoadedInvariance == Spec => []PinLoaded
  <1>1. Init => PinLoaded
    BY DEF Init, PinLoaded
  <1> QED
    BY <1>1, NextPinLoaded, Invariance, PTL DEF Spec

(* Once a handle has a pin, no call replaces it until the handle is freed. *)
THEOREM PinIsFrozen == Spec => PinFrozen
  <1>1. ASSUME IInv, PinLoaded, [Next]_vars, pin # NoKey, pc' # "none"
        PROVE  pin' = pin
    <2>1. CASE ClientNew \/ ClientFree
      BY <1>1, <2>1 DEF ClientNew, ClientFree, PinLoaded
    <2>2. CASE Register \/ GeoGet
      BY <1>1, <2>2 DEF Register, GeoGet, StartRegister
    <2>3. CASE Registered
      BY <1>1, <2>3 DEF Registered
    <2>4. CASE ResetPin
      BY <2>4 DEF ResetPin
    <2>5. CASE UNCHANGED vars
      BY <2>5 DEF vars, clientVars
    <2> QED
      BY <1>1, <2>1, <2>2, <2>3, <2>4, <2>5, PinUntouched
  <1>2. IInv /\ PinLoaded /\ [Next]_vars
            => [pin # NoKey /\ pc' # "none" => pin' = pin]_vars
    BY <1>1
  <1> QED
    BY <1>2, Invariance, PinLoadedInvariance, PTL DEF Spec, PinFrozen

(* With a pin store whose loads succeed, a stored pin is never overwritten *)
(* by another key, whatever identities the bridge takes.                   *)
THEOREM PinIsContinuous ==
    ASSUME LoadMayFail = FALSE
    PROVE  Spec => PinContinuity
  <1>1. ASSUME IInv, PinLoaded, [Next]_vars, store # NoKey
        PROVE  store' \in {store, NoKey}
    <2>1. CASE ClientNew \/ ClientFree \/ Register \/ GeoGet
      BY <2>1 DEF ClientNew, ClientFree, Register, GeoGet
    <2>2. CASE Registered
      <3>1. pin # NoKey
        BY <1>1, <2>2 DEF Registered, Read, PinLoaded
      <3> QED
        BY <2>2, <3>1 DEF Registered
    <2>3. CASE ResetPin
      BY <2>3 DEF ResetPin
    <2>4. CASE UNCHANGED vars
      BY <2>4 DEF vars, clientVars
    <2> QED
      BY <1>1, <2>1, <2>2, <2>3, <2>4, PinUntouched
  <1>2. IInv /\ PinLoaded /\ [Next]_vars
            => [store # NoKey => store' \in {store, NoKey}]_vars
    BY <1>1
  <1> QED
    BY <1>2, Invariance, PinLoadedInvariance, PTL DEF Spec, PinContinuity

-----------------------------------------------------------------------------
(* An API call comes to its end.                                           *)

(* Each command of the protocol has its turn.                              *)
LEMMA TurnType == ASSUME TypeOK PROVE Turn \in 1..4
  <1>1. CASE cmd = "GET_PUBLIC_KEY"
    <2>1. Turn = 4
      BY <1>1 DEF Turn
    <2> QED BY <2>1
  <1>2. CASE cmd = "GET_ENCLAVE_PUBLIC_KEY"
    <2>1. Turn = 3
      BY <1>2 DEF Turn
    <2> QED BY <2>1
  <1>3. CASE cmd = "LINK_REGISTER"
    <2>1. Turn = 2
      BY <1>3 DEF Turn
    <2> QED BY <2>1
  <1>4. CASE cmd = "LINK_GEO_GET"
    <2>1. Turn = 1
      BY <1>4 DEF Turn
    <2> QED BY <2>1
  <1> QED BY <1>1, <1>2, <1>3, <1>4 DEF TypeOK, Commands

(* What is left of a call is at most four exchanges of two steps.          *)
LEMMA CallLeftType == ASSUME TypeOK PROVE CallLeft \in 0..8
  <1>1. Turn \in 1..4
    BY TurnType
  <1>2. CallLeft = 2 * Turn \/ CallLeft = 2 * Turn - 1 \/ CallLeft = 0
    BY DEF CallLeft
  <1> HIDE DEF Turn
  <1> QED BY <1>1, <1>2

(* Each step of a call is a write, a read, or the call's end.              *)
LEMMA CallFalls ==
    ASSUME TypeOK, ClientStep
    PROVE  pc \in {"send", "wait"} /\ CallLeft' \in 0..(CallLeft - 1)
  <1>1. Turn \in 1..4
    BY TurnType
  <1>2. ASSUME pc \in {"send", "wait"}, pc' \in {"idle", "killed"}
        PROVE  CallLeft' \in 0..(CallLeft - 1)
    <2>1. CallLeft' = 0
      BY <1>2 DEF CallLeft
    <2>2. CallLeft = 2 * Turn \/ CallLeft = 2 * Turn - 1
      BY <1>2 DEF CallLeft
    <2> HIDE DEF Turn
    <2> QED BY <1>1, <2>1, <2>2
  <1>3. CASE ConnectFails \/ WriteFails \/ ReadFails \/ CopyFails
    <2>1. pc \in {"send", "wait"} /\ pc' \in {"idle", "killed"}
      BY <1>3 DEF ConnectFails, WriteFails, ReadFails, CopyFails, Return
    <2> QED BY <1>2, <2>1
  <1>4. CASE SendRequest
    <2>1. pc = "send" /\ pc' = "wait" /\ cmd' = cmd
      BY <1>4 DEF SendRequest
    <2>2. CallLeft = 2 * Turn /\ CallLeft' = 2 * Turn - 1
      BY <2>1, Zenon DEF CallLeft, Turn
    <2> HIDE DEF Turn
    <2> QED BY <1>1, <2>1, <2>2
  <1>5. ASSUME NEW c \in Commands, Refused(c) \/ Malformed(c)
        PROVE  pc \in {"send", "wait"} /\ CallLeft' \in 0..(CallLeft - 1)
    <2>1. pc \in {"send", "wait"} /\ pc' \in {"idle", "killed"}
      BY <1>5 DEF Refused, Malformed, Read, Return
    <2> QED BY <1>2, <2>1
  <1>6. CASE RegisterFailsCrypto \/ GotPosition
    <2>1. pc \in {"send", "wait"} /\ pc' \in {"idle", "killed"}
      BY <1>6 DEF RegisterFailsCrypto, GotPosition, Read, Return
    <2> QED BY <1>2, <2>1
  <1>7. CASE GotPublicKey
    <2>1. pc = "wait" /\ cmd = "GET_PUBLIC_KEY" /\ pc' = "send" /\ cmd' = "GET_ENCLAVE_PUBLIC_KEY"
      BY <1>7 DEF GotPublicKey, Read, Exchange
    <2> QED BY <2>1 DEF CallLeft, Turn
  <1>8. CASE GotEnclaveKey
    <2>1. /\ pc = "wait" /\ cmd = "GET_ENCLAVE_PUBLIC_KEY"
          /\ pc' = "idle" \/ (pc' = "send" /\ cmd' = "LINK_REGISTER")
      BY <1>8 DEF GotEnclaveKey, Read, Exchange, Return
    <2> QED BY <2>1 DEF CallLeft, Turn
  <1>9. CASE Registered
    <2>1. /\ pc = "wait" /\ cmd = "LINK_REGISTER"
          /\ pc' = "idle" \/ (pc' = "send" /\ cmd' = "LINK_GEO_GET")
      BY <1>9 DEF Registered, Read, Exchange, Return
    <2> QED BY <2>1 DEF CallLeft, Turn
  <1> QED
    BY <1>3, <1>4, <1>5, <1>6, <1>7, <1>8, <1>9 DEF ClientStep

(* Only the application makes a call longer, by making another.            *)
LEMMA CallKept ==
    ASSUME UNCHANGED <<pc, cmd>> \/ pc' \in {"none", "idle", "killed"}, TypeOK
    PROVE  ~(CallLeft' > CallLeft)
  <1>1. CallLeft \in 0..8
    BY CallLeftType
  <1>2. CASE UNCHANGED <<pc, cmd>>
    <2>1. CallLeft' = CallLeft
      BY <1>2 DEF CallLeft, Turn
    <2> QED BY <1>1, <2>1
  <1>3. CASE pc' \in {"none", "idle", "killed"}
    <2>1. CallLeft' = 0
      BY <1>3 DEF CallLeft
    <2> QED BY <1>1, <2>1
  <1> QED BY <1>2, <1>3

(* bl_register and bl_geo_get end after at most four exchanges, whatever   *)
(* the bridge answers and however often it restarts or changes identity.   *)
THEOREM CallsShrink == Spec => CallShrinks
  <1>1. /\ TypeOK /\ TypeOK' /\ [Next]_vars
        => [/\ ClientStep => CallLeft' \in 0..(CallLeft - 1)
            /\ CallLeft' > CallLeft => pc = "idle" /\ CallLeft' <= 8]_vars
    <2> SUFFICES ASSUME TypeOK, TypeOK', Next
                 PROVE  /\ ClientStep => CallLeft' \in 0..(CallLeft - 1)
                        /\ CallLeft' > CallLeft => pc = "idle" /\ CallLeft' <= 8
      BY Zenon
    <2>1. ClientStep => CallLeft' \in 0..(CallLeft - 1)
      BY CallFalls, Zenon
    <2>2. CallLeft \in 0..8 /\ CallLeft' \in 0..8
      <3>1. (TypeOK => CallLeft \in 0..8)'
        BY CallLeftType, PTL
      <3> QED BY <3>1, CallLeftType, Zenon
    <2>3. CASE ClientStep
      BY <2>1, <2>2, <2>3
    <2>4. CASE Register \/ GeoGet
      <3>1. pc = "idle"
        BY <2>4 DEF Register, GeoGet
      <3> QED BY <2>1, <2>2, <3>1
    <2>5. CASE ClientNew \/ ClientFree
      <3>1. pc' \in {"none", "idle"}
        BY <2>5 DEF ClientNew, ClientFree
      <3> QED BY <2>1, <3>1, CallKept
    <2>6. CASE \/ BridgeAnswers \/ SessionExpires \/ BridgeStops \/ BridgeStarts
               \/ BridgeRekeys \/ ResetPin
      <3>1. UNCHANGED <<pc, cmd>>
        BY <2>6 DEF BridgeAnswers, SessionExpires, BridgeStops, BridgeStarts, BridgeRekeys,
                    ResetPin, clientVars
      <3> QED BY <2>1, <3>1, CallKept
    <2> QED BY <2>3, <2>4, <2>5, <2>6, Zenon DEF Next
  <1> QED BY <1>1, Invariance, PTL DEF IInv, Spec, CallShrinks
=============================================================================
