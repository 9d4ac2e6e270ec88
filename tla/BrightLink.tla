----------------------------- MODULE BrightLink -----------------------------
(***************************************************************************)
(* One libBrightLink client (struct bl_client_s) and the bridge it talks   *)
(* to over a Unix stream socket.  bl_register and bl_geo_get are sequences *)
(* of request/response exchanges; every exchange is bl_send_request, cut   *)
(* where it blocks: "send" connects and writes, "wait" reads one JSON      *)
(* object.  The bridge is external: it may stop and come back, with its    *)
(* old SEP key or a new one, between any two steps of the client.          *)
(*                                                                         *)
(* Crypto is abstracted to what the client tells apart: a SEP key is a     *)
(* member of Keys, and a LINK_REGISTER answer either carries a transcript  *)
(* signed by the key it names or fails to parse, decrypt or verify.        *)
(***************************************************************************)
EXTENDS Integers, Sequences

CONSTANTS
    Keys,             \* SEP public keys a bridge may have
    NoKey,            \* "no pin", "no session", "nothing read yet"
    SigpipeIgnored,   \* does the host program ignore SIGPIPE?
    LoadMayFail,      \* may the pin store fail to read a pin it holds?
    MaxCalls,         \* bound on API calls made
    MaxRestarts       \* bound on bridge restarts

ASSUME BrightLinkAssumption ==
    /\ NoKey \notin Keys
    /\ SigpipeIgnored \in BOOLEAN
    /\ LoadMayFail \in BOOLEAN
    /\ MaxCalls \in Nat
    /\ MaxRestarts \in Nat

VARIABLES
    pc,               \* where the client is (see Locations)
    cmd,              \* the exchange in progress (see Commands)
    call,             \* the API call in progress: "register" or "geo"
    fd,               \* -1, or the bridge incarnation the socket reached
    session,          \* session_active: the key that signed its transcript, or NoKey
    pin,              \* pin_loaded/pin_pub65: the pinned key, or NoKey
    sepPub,           \* bl_register's local sep_pub
    store,            \* the key the pin store holds, or NoKey
    lastError,        \* last_bridge_error, "" for NULL
    result,           \* status the last API call returned
    ncalls,           \* API calls made so far
    nreq,             \* requests written so far; numbers each exchange
    bridge,           \* the bridge process: up, incarnation, SEP key
    linked,           \* does the bridge hold a live session for this client?
    reqs, resps,      \* bytes in flight on the current connection
    expired           \* history: an "expired" refusal not yet followed by a registration

clientVars == <<pc, cmd, call, session, pin, sepPub, store, lastError, result, ncalls, expired>>
wireVars == <<fd, nreq, reqs, resps>>
bridgeVars == <<bridge, linked>>
vars == <<clientVars, wireVars, bridgeVars>>

Commands == {"GET_PUBLIC_KEY", "GET_ENCLAVE_PUBLIC_KEY", "LINK_REGISTER", "LINK_GEO_GET"}
Locations == {"none", "idle", "send", "wait", "killed"}
Refusals == {"expired", "denied", "other"}
Status == {"BL_OK", "BL_ERR_OOM", "BL_ERR_TRANSPORT", "BL_ERR_PROTOCOL", "BL_ERR_CRYPTO",
           "BL_ERR_PIN_MISMATCH", "BL_ERR_BRIDGE_REFUSED", "BL_ERR_DENIED"}
Bodies == {"ok", "malformed", "badcrypto"} \cup Refusals

Requests == [id : Nat, cmd : Commands]
Responses == [id : Nat, body : Bodies, key : Keys]
Bridges == [up : BOOLEAN, epoch : Nat, key : Keys]

(* The client's types, and how much may be in flight.                      *)
TypeOK ==
    /\ pc \in Locations
    /\ cmd \in Commands
    /\ call \in {"register", "geo"}
    /\ fd \in Nat \cup {-1}
    /\ session \in Keys \cup {NoKey}
    /\ pin \in Keys \cup {NoKey}
    /\ sepPub \in Keys \cup {NoKey}
    /\ store \in Keys \cup {NoKey}
    /\ lastError \in Refusals \cup {""}
    /\ result \in Status
    /\ ncalls \in Nat
    /\ nreq \in Nat
    /\ bridge \in Bridges
    /\ linked \in BOOLEAN
    /\ reqs \in Seq(Requests)
    /\ resps \in Seq(Responses)
    /\ expired \in BOOLEAN

Init ==
    /\ pc = "none"
    /\ cmd = "GET_PUBLIC_KEY"
    /\ call = "register"
    /\ fd = -1
    /\ session = NoKey
    /\ pin = NoKey
    /\ sepPub = NoKey
    /\ store = NoKey
    /\ lastError = ""
    /\ result = "BL_OK"
    /\ ncalls = 0
    /\ nreq = 0
    /\ bridge \in {[up |-> TRUE, epoch |-> 0, key |-> k] : k \in Keys}
    /\ linked = FALSE
    /\ reqs = <<>>
    /\ resps = <<>>
    /\ expired = FALSE

-----------------------------------------------------------------------------
(* Helpers shared by the steps of the client.                              *)

\* The API call in progress returns status s.
Return(s) == pc' = "idle" /\ result' = s

\* The peer of the current socket is the bridge that is running now.
PeerAlive == bridge.up /\ fd = bridge.epoch

\* bl_disconnect: whatever was in flight goes with the socket; the session
\* flag is left alone.
bl_disconnect == fd' = -1 /\ reqs' = <<>> /\ resps' = <<>>

\* The next exchange of the call begins.
Exchange(c) == pc' = "send" /\ cmd' = c

-----------------------------------------------------------------------------
(* API calls.                                                              *)

\* bl_client_new: a zeroed client over the same pin store.
ClientNew ==
    /\ pc = "none"
    /\ pc' = "idle"
    /\ fd' = -1
    /\ session' = NoKey
    /\ pin' = NoKey
    /\ lastError' = ""
    /\ result' = "BL_OK"
    /\ expired' = FALSE
    /\ UNCHANGED <<cmd, call, sepPub, store, ncalls, nreq, reqs, resps, bridgeVars>>

\* bl_client_free: the socket is closed and the handle is gone.
ClientFree ==
    /\ pc = "idle"
    /\ pc' = "none"
    /\ session' = NoKey
    /\ pin' = NoKey
    /\ lastError' = ""
    /\ expired' = FALSE
    /\ bl_disconnect
    /\ UNCHANGED <<cmd, call, sepPub, store, result, ncalls, nreq, bridgeVars>>

\* Faulty variants: the stored pin is loaded on every registration; never.
StartRegisterReload ==
    /\ lastError' = ""
    /\ pin' = store
    /\ sepPub' = NoKey
    /\ Exchange("GET_PUBLIC_KEY")
    /\ UNCHANGED <<session, result>>
StartRegisterNoLoad ==
    /\ lastError' = ""
    /\ pin' = pin
    /\ sepPub' = NoKey
    /\ Exchange("GET_PUBLIC_KEY")
    /\ UNCHANGED <<session, result>>

\* The part of bl_register before its first request: clear the error text
\* and load the stored pin unless one is loaded.
StartRegister ==
    /\ lastError' = ""
    /\ \/ pin' = IF pin = NoKey THEN store ELSE pin
       \/ LoadMayFail /\ pin' = pin
    /\ sepPub' = NoKey
    /\ Exchange("GET_PUBLIC_KEY")
    /\ UNCHANGED <<session, result>>

\* bl_register called by the application.
Register ==
    /\ pc = "idle" /\ ncalls < MaxCalls
    /\ ncalls' = ncalls + 1
    /\ call' = "register"
    /\ IF session # NoKey
       THEN /\ Return("BL_OK")
            /\ UNCHANGED <<cmd, session, pin, sepPub, lastError>>
       ELSE StartRegister
    /\ UNCHANGED <<store, expired, wireVars, bridgeVars>>

\* bl_geo_get called by the application; registers first when it has no session.
GeoGet ==
    /\ pc = "idle" /\ ncalls < MaxCalls
    /\ ncalls' = ncalls + 1
    /\ call' = "geo"
    /\ IF session # NoKey
       THEN /\ lastError' = ""
            /\ Exchange("LINK_GEO_GET")
            /\ UNCHANGED <<session, pin, sepPub, result>>
       ELSE StartRegister
    /\ UNCHANGED <<store, expired, wireVars, bridgeVars>>

-----------------------------------------------------------------------------
(* bl_send_request.                                                        *)

\* bl_connect fails: nobody listens on the socket path.
ConnectFails ==
    /\ pc = "send" /\ fd = -1 /\ ~bridge.up
    /\ Return("BL_ERR_TRANSPORT")
    /\ UNCHANGED <<cmd, call, session, pin, sepPub, store, lastError, ncalls, expired,
                   wireVars, bridgeVars>>

\* bl_connect (a no-op on an open socket), then the whole request is written.
SendRequest ==
    /\ pc = "send"
    /\ IF fd = -1 THEN bridge.up /\ fd' = bridge.epoch ELSE PeerAlive /\ fd' = fd
    /\ pc' = "wait"
    /\ nreq' = nreq + 1
    /\ reqs' = Append(reqs, [id |-> nreq + 1, cmd |-> cmd])
    /\ UNCHANGED <<cmd, call, session, pin, sepPub, store, lastError, result, ncalls,
                   expired, resps, bridgeVars>>

\* write_all fails: the peer has closed, or the 30 s SO_SNDTIMEO ran out on a
\* peer that does not read.  A closed peer also raises SIGPIPE, which ends the
\* process before write returns unless the host program ignores it.
WriteFails ==
    /\ pc = "send" /\ fd # -1
    /\ IF SigpipeIgnored \/ PeerAlive
       THEN Return("BL_ERR_TRANSPORT")
       ELSE pc' = "killed" /\ UNCHANGED result
    /\ bl_disconnect
    /\ UNCHANGED <<cmd, call, session, pin, sepPub, store, lastError, ncalls, nreq,
                   expired, bridgeVars>>

\* Faulty variants: a failed read leaves the connection open; a read has no
\* timeout and only end of file ends it.
ReadFailsKeepsSocket ==
    /\ pc = "wait"
    /\ Return("BL_ERR_TRANSPORT")
    /\ UNCHANGED <<cmd, call, session, pin, sepPub, store, lastError, ncalls, wireVars,
                   expired, bridgeVars>>
ReadFailsAtEof ==
    /\ pc = "wait" /\ ~PeerAlive /\ resps = <<>>
    /\ Return("BL_ERR_TRANSPORT")
    /\ bl_disconnect
    /\ UNCHANGED <<cmd, call, session, pin, sepPub, store, lastError, ncalls, nreq,
                   expired, bridgeVars>>

\* read_until_brace meets end of file, an error, the 30 s SO_RCVTIMEO or an
\* overlong object: the connection is given up with whatever it still carries.
ReadFails ==
    /\ pc = "wait"
    /\ Return("BL_ERR_TRANSPORT")
    /\ bl_disconnect
    /\ UNCHANGED <<cmd, call, session, pin, sepPub, store, lastError, ncalls, nreq,
                   expired, bridgeVars>>

\* A response was read but strdup failed; the connection stays open.
CopyFails ==
    /\ pc = "wait" /\ resps # <<>>
    /\ Return("BL_ERR_OOM")
    /\ resps' = Tail(resps)
    /\ UNCHANGED <<cmd, call, session, pin, sepPub, store, lastError, ncalls, fd, nreq,
                   reqs, expired, bridgeVars>>

-----------------------------------------------------------------------------
(* What the client does with the response it reads.                        *)

\* The response at the head of the stream is consumed.
Read(c) ==
    /\ pc = "wait" /\ cmd = c /\ resps # <<>>
    /\ resps' = Tail(resps)
    /\ UNCHANGED <<call, ncalls, fd, nreq, reqs, bridgeVars>>

\* Faulty variant: a refused query is taken up again from the registration.
RefusedRetries(c) ==
    LET body == Head(resps).body IN
    /\ Read(c)
    /\ body \in Refusals
    /\ lastError' = body
    /\ IF c = "LINK_GEO_GET" /\ body = "expired"
       THEN Exchange("GET_PUBLIC_KEY") /\ session' = NoKey /\ UNCHANGED result
       ELSE Return("BL_ERR_BRIDGE_REFUSED") /\ UNCHANGED <<cmd, session>>
    /\ expired' = FALSE
    /\ UNCHANGED <<pin, sepPub, store>>

\* capture_bridge_error, and the status each command gives a refusal.
Refused(c) ==
    LET body == Head(resps).body IN
    /\ Read(c)
    /\ body \in Refusals
    /\ lastError' = body
    /\ Return(IF c = "LINK_GEO_GET" /\ body = "denied"
              THEN "BL_ERR_DENIED" ELSE "BL_ERR_BRIDGE_REFUSED")
    /\ expired' = (expired \/ (c = "LINK_GEO_GET" /\ body = "expired"))
    /\ UNCHANGED <<cmd, session, pin, sepPub, store>>

\* A required field is missing or does not decode.
Malformed(c) ==
    /\ Read(c)
    /\ Head(resps).body = "malformed"
    /\ Return("BL_ERR_PROTOCOL")
    /\ UNCHANGED <<cmd, session, pin, sepPub, store, lastError, expired>>

\* fetch_pubkey for the bridge's encryption key succeeds.
GotPublicKey ==
    /\ Read("GET_PUBLIC_KEY")
    /\ Head(resps).body = "ok"
    /\ Exchange("GET_ENCLAVE_PUBLIC_KEY")
    /\ UNCHANGED <<session, pin, sepPub, store, lastError, result, expired>>

\* fetch_pubkey for the SEP key succeeds; it must be the pinned key if there is one.
GotEnclaveKey ==
    LET key == Head(resps).key IN
    /\ Read("GET_ENCLAVE_PUBLIC_KEY")
    /\ Head(resps).body = "ok"
    /\ sepPub' = key
    /\ IF pin # NoKey /\ key # pin
       THEN Return("BL_ERR_PIN_MISMATCH") /\ UNCHANGED cmd
       ELSE Exchange("LINK_REGISTER") /\ UNCHANGED result
    /\ UNCHANGED <<session, pin, store, lastError, expired>>

\* The response envelope does not decrypt, or the transcript signature does
\* not verify under sep_pub.
RegisterFailsCrypto ==
    LET r == Head(resps) IN
    /\ Read("LINK_REGISTER")
    /\ \/ r.body = "badcrypto"
       \/ r.body = "ok" /\ r.key # sepPub
    /\ Return("BL_ERR_CRYPTO")
    /\ UNCHANGED <<cmd, session, pin, sepPub, store, lastError, expired>>

\* Faulty variant: the transcript signature is not checked against sep_pub.
RegisteredUnverified ==
    LET r == Head(resps) IN
    /\ Read("LINK_REGISTER")
    /\ r.body = "ok"
    /\ pin' = IF pin = NoKey THEN sepPub ELSE pin
    /\ store' \in IF pin = NoKey THEN {sepPub, store} ELSE {store}
    /\ session' = r.key
    /\ expired' = FALSE
    /\ IF call = "geo"
       THEN Exchange("LINK_GEO_GET") /\ UNCHANGED result
       ELSE Return("BL_OK") /\ UNCHANGED cmd
    /\ UNCHANGED <<sepPub, lastError>>

\* The transcript verifies: pin the key on first use (a failing save is not
\* fatal), commit the session, and go on to the query if bl_geo_get registered.
Registered ==
    LET r == Head(resps) IN
    /\ Read("LINK_REGISTER")
    /\ r.body = "ok" /\ r.key = sepPub
    /\ pin' = IF pin = NoKey THEN sepPub ELSE pin
    /\ store' \in IF pin = NoKey THEN {sepPub, store} ELSE {store}
    /\ session' = r.key
    /\ expired' = FALSE
    /\ IF call = "geo"
       THEN Exchange("LINK_GEO_GET") /\ UNCHANGED result
       ELSE Return("BL_OK") /\ UNCHANGED cmd
    /\ UNCHANGED <<sepPub, lastError>>

\* LINK_GEO_GET answered with at least one coordinate block.
GotPosition ==
    /\ Read("LINK_GEO_GET")
    /\ Head(resps).body = "ok"
    /\ Return("BL_OK")
    /\ UNCHANGED <<cmd, session, pin, sepPub, store, lastError, expired>>

-----------------------------------------------------------------------------
(* The bridge (external) and the user.                                     *)

\* What the bridge may answer to command c.  A geo query is refused as
\* expired exactly when the bridge holds no live session for the client.
Answers(c) ==
    CASE c = "LINK_REGISTER" -> {"ok", "malformed", "badcrypto", "other"}
      [] c = "LINK_GEO_GET" -> IF linked THEN {"ok", "malformed", "denied"} ELSE {"expired"}
      [] OTHER -> {"ok", "malformed", "other"}

\* The bridge reads one request and writes one response.
BridgeAnswers ==
    /\ PeerAlive /\ reqs # <<>>
    /\ \E body \in Answers(Head(reqs).cmd) :
          /\ resps' = Append(resps, [id |-> Head(reqs).id, body |-> body, key |-> bridge.key])
          /\ linked' = (linked \/ (Head(reqs).cmd = "LINK_REGISTER" /\ body = "ok"))
    /\ reqs' = Tail(reqs)
    /\ UNCHANGED <<clientVars, fd, nreq, bridge>>

\* The granted TTL runs out on the bridge.
SessionExpires ==
    /\ linked /\ bridge.up
    /\ linked' = FALSE
    /\ UNCHANGED <<clientVars, wireVars, bridge>>

\* The bridge stops: unread requests are lost, written responses stay readable.
BridgeStops ==
    /\ bridge.up /\ bridge.epoch < MaxRestarts
    /\ bridge' = [bridge EXCEPT !.up = FALSE]
    /\ linked' = FALSE
    /\ reqs' = <<>>
    /\ UNCHANGED <<clientVars, fd, nreq, resps>>

\* The bridge starts again, as it was or with a new identity.
BridgeStarts ==
    /\ ~bridge.up
    /\ \E k \in Keys : bridge' = [up |-> TRUE, epoch |-> bridge.epoch + 1, key |-> k]
    /\ UNCHANGED <<clientVars, wireVars, linked>>

\* The running bridge is reset and gets a new identity.
BridgeRekeys ==
    /\ bridge.up
    /\ \E k \in Keys \ {bridge.key} : bridge' = [bridge EXCEPT !.key = k]
    /\ linked' = FALSE
    /\ UNCHANGED <<clientVars, wireVars>>

\* The user removes the stored pin (bl_glue_reset_pin in another process).
ResetPin ==
    /\ store # NoKey
    /\ store' = NoKey
    /\ UNCHANGED <<pc, cmd, call, session, pin, sepPub, lastError, result, ncalls, expired,
                   wireVars, bridgeVars>>

-----------------------------------------------------------------------------
ClientStep ==
    \/ ConnectFails \/ SendRequest \/ WriteFails \/ ReadFails \/ CopyFails
    \/ \E c \in Commands : Refused(c) \/ Malformed(c)
    \/ GotPublicKey \/ GotEnclaveKey \/ RegisterFailsCrypto \/ Registered \/ GotPosition

Next ==
    \/ ClientNew \/ ClientFree \/ Register \/ GeoGet
    \/ ClientStep
    \/ BridgeAnswers \/ SessionExpires \/ BridgeStops \/ BridgeStarts \/ BridgeRekeys
    \/ ResetPin

Spec == Init /\ [][Next]_vars

-----------------------------------------------------------------------------
(* What the library promises.                                              *)

(* bl_send_request pairs every request with its own answer: whatever the   *)
(* client finds in the stream while it waits was written for the request   *)
(* it wrote last, and nothing is in flight between calls.  A timed-out     *)
(* read must therefore drop the connection with its late answer.           *)
Pairing ==
    /\ pc = "wait" => \A i \in 1..Len(resps) : resps[i].id = nreq
    /\ pc # "wait" => reqs = <<>> /\ resps = <<>>

(* bl_register commits a session only for a transcript signed by the key   *)
(* the client has pinned, whatever the bridge's identity was at each of    *)
(* the three exchanges.                                                    *)
SessionSound == session # NoKey => session = pin

(* A handle's pin is set once: after bl_register loaded or learned a key,  *)
(* no later call replaces it, until the handle is freed.                   *)
PinFrozen == [][pin # NoKey /\ pc' # "none" => pin' = pin]_vars

(* A bridge with a new identity is never accepted over a stored pin: only  *)
(* removing the pin file by hand empties the store, and only an empty      *)
(* store takes a new key (BSPACE.md, "TOFU pin rotation").                 *)
PinContinuity == [][store # NoKey => store' \in {store, NoKey}]_vars

\* Steps to the end of the API call: an exchange is a write and a read, and a
\* call makes those of Commands that follow the one in progress.
Turn ==
    CASE cmd = "GET_PUBLIC_KEY" -> 4
      [] cmd = "GET_ENCLAVE_PUBLIC_KEY" -> 3
      [] cmd = "LINK_REGISTER" -> 2
      [] cmd = "LINK_GEO_GET" -> 1
CallLeft ==
    CASE pc = "send" -> 2 * Turn
      [] pc = "wait" -> 2 * Turn - 1
      [] OTHER -> 0

(* An API call is at most four exchanges, whatever the bridge answers and  *)
(* however often it restarts meanwhile: nothing is asked twice in a call.  *)
CallShrinks ==
    [][/\ ClientStep => CallLeft' \in 0..(CallLeft - 1)
       /\ CallLeft' > CallLeft => pc = "idle" /\ CallLeft' <= 8]_vars

(* brightlink.h on bl_register: the library re-registers on the next call  *)
(* when it observes a "session expired" response.  So after such a refusal *)
(* no LINK_GEO_GET is sent before a registration.                          *)
ReRegisters == ~(pc = "send" /\ cmd = "LINK_GEO_GET" /\ expired)

(* brightlink.h on bl_last_bridge_error: NULL unless the most recent call  *)
(* was refused; cleared on the next call, successful or not.               *)
ErrorTextFresh == pc = "idle" /\ result = "BL_OK" => lastError = ""

(* brightlink_glue.h: on any failure the call falls through silently, the  *)
(* process goes on with geoIP.                                             *)
Survives == pc # "killed"
=============================================================================
