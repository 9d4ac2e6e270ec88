--------------------------- MODULE GeoToolProofs ---------------------------
(***************************************************************************)
(* For every set of command lines, bridge keys, runs and restarts: what a  *)
(* b* tool prints about its position is tagged by where it came from, a    *)
(* position of the bridge was given in a session of the pinned key, the    *)
(* first source that gave a position is the one used, baudit's verdict is  *)
(* over every anchor it had room for, and a run ends after a number of     *)
(* steps that its command line bounds.                                     *)
(***************************************************************************)
EXTENDS GeoTool, BrightLinkProofs, FiniteSetTheorems

(* A step of a tool is a step of its client, or none, unless SIGPIPE ended *)
(* the process.                                                            *)
LEMMA ClientInside ==
    ASSUME [ToolNext]_allVars
    PROVE  [Next]_vars \/ ToolDies
  <1>1. CASE ResetPinAndExit
    <2>1. store' = store => UNCHANGED vars
      BY <1>1 DEF ResetPinAndExit, vars, clientVars
    <2>2. store' # store => ResetPin
      BY <1>1 DEF ResetPinAndExit, ResetPin
    <2> QED BY <2>1, <2>2 DEF Next
  <1>2. CASE Start \/ ParseArg \/ ParseEnd \/ GlueSkips
    BY <1>2 DEF Start, ParseArg, ParseEnd, GlueSkips
  <1>3. CASE Probe \/ LocateBping \/ LocateBtraceroute \/ LocateBmtr \/ LocateBaudit \/ Exit
    BY <1>3 DEF Probe, LocateBping, LocateBtraceroute, LocateBmtr, LocateBaudit, Exit
  <1>4. CASE GlueNew \/ GlueAsks \/ GlueReturns
    BY <1>4 DEF GlueNew, GlueAsks, GlueReturns, Next
  <1>5. CASE ClientStep \/ BridgeStep \/ ResetPin
    BY <1>5 DEF BridgeStep, Next
  <1>6. CASE UNCHANGED allVars
    BY <1>6 DEF allVars
  <1> QED
    BY <1>1, <1>2, <1>3, <1>4, <1>5, <1>6 DEF ToolNext, ToolStep

(* So the client's inductive invariant holds inside the tools.             *)
LEMMA ClientInvariant ==
    ASSUME IInv, [ToolNext]_allVars
    PROVE  IInv'
  <1>1. CASE [Next]_vars
    BY <1>1, NextIInv
  <1>2. CASE ToolDies
    <2>1. /\ pc = "killed" /\ pc' = "none"
          /\ UNCHANGED <<cmd, call, session, pin, sepPub, store, lastError, result, ncalls, expired>>
          /\ UNCHANGED <<fd, nreq, reqs, resps, bridge, linked>>
      BY <1>2 DEF ToolDies, wireVars, bridgeVars
    <2>2. TypeOK'
      BY <2>1 DEF IInv, TypeOK, Locations
    <2> QED
      BY <2>1, <2>2 DEF IInv, OneExchange, SessionSound, CheckedKey
  <1> QED
    BY <1>1, <1>2, ClientInside

-----------------------------------------------------------------------------
(* A position as the command line leaves it, and as the bridge does.       *)
Given(p) ==
    /\ p.ecef # "bridge" /\ p.from \in {"none", "coord"}
    /\ p.base = IF p.from = "coord" THEN "[coord]" ELSE ""
    /\ p.slug = ""

ByBridge(p) ==
    /\ p.from = "bridge" \/ (p.from = "none" /\ p.ecef = "bridge")
    /\ p.base \in {"[brightlink]", "[brightlink:ecef]"}
    /\ p.slug = ""

Tagged(p) ==
    p.from # "none" =>
       /\ p.from = "geoIP" <=> p.base = "[~geoIP]"
       /\ p.slug = IF p.from = "geoIP" THEN Slug(st) ELSE ""

(* Where the record of the tool's own position stands in each place.       *)
MyInv ==
    /\ tpc \in {"parse", "glue", "new", "asking"} =>
          st = "none" /\ reason = "" /\ posKey = NoKey /\ Given(my)
    /\ tpc \in {"new", "asking"} => my.from = "none"
    /\ tpc \in {"probe", "locate"} =>
          reason = Slug(st) /\ IF st = "BL_OK" THEN ByBridge(my) ELSE Given(my)
    /\ tpc = "shown" => Tagged(my)
    /\ my.from = "bridge" \/ my.ecef = "bridge" => posKey # NoKey

(* What the client has done for bl_geo_get in each place.                  *)
AskInv ==
    /\ tpc \notin {"new", "asking"} => pc = "none"
    /\ tpc = "new" => pc = "idle" /\ session = NoKey
    /\ tpc = "asking" =>
          /\ pc # "none" /\ call = "geo"
          /\ pinRead # NoKey => pin = pinRead
          /\ pc \in {"send", "wait"} /\ cmd = "LINK_GEO_GET" => session # NoKey
          /\ pc = "idle" /\ result = "BL_OK" => session # NoKey
    /\ posKey # NoKey /\ pinRead # NoKey => posKey = pinRead

GeoInv == IInv /\ ToolTypeOK /\ MyInv /\ AskInv

-----------------------------------------------------------------------------
(* The position record.                                                    *)

(* A slug is one of the slugs.                                             *)
LEMMA SlugType == ASSUME NEW s PROVE Slug(s) \in Slugs
  BY DEF Slug, Slugs

(* The parts of a position.                                                *)
LEMMA PositionParts ==
    ASSUME NEW p \in Positions
    PROVE  p.ecef \in Ecefs /\ p.from \in Sources /\ p.base \in Bases /\ p.slug \in Slugs
  BY DEF Positions

(* Looking an address up, converting from ECEF and annotating the tag      *)
(* leave a position, and set only what they name.                          *)
LEMMA GeolocateParts ==
    ASSUME NEW p \in Positions, NEW ok \in BOOLEAN
    PROVE  LET q == bs_geolocate(p, ok) IN
           /\ q \in Positions
           /\ q.ecef = p.ecef /\ q.slug = p.slug /\ q.base = "[~geoIP]"
           /\ q.from = IF ok THEN "geoIP" ELSE "none"
  BY DEF bs_geolocate, Positions, Sources, Bases

LEMMA ConvertParts ==
    ASSUME NEW p \in Positions
    PROVE  LET q == bs_ecef_to_geo(p) IN
           /\ q \in Positions
           /\ q.ecef = p.ecef /\ q.slug = p.slug
           /\ p.ecef = "zero" => q = p
           /\ p.ecef # "zero" => q.from = p.ecef /\ q.base = "[ecef]"
  <1>1. CASE p.ecef = "zero"
    BY <1>1 DEF bs_ecef_to_geo
  <1>2. CASE p.ecef # "zero"
    <2>1. bs_ecef_to_geo(p) = [p EXCEPT !.from = p.ecef, !.base = "[ecef]"]
      BY <1>2 DEF bs_ecef_to_geo
    <2>2. p.ecef \in Sources /\ "[ecef]" \in Bases
      BY <1>2, PositionParts DEF Ecefs, Sources, Bases
    <2> QED
      BY <1>2, <2>1, <2>2, Zenon DEF Positions
  <1> QED BY <1>1, <1>2

LEMMA AnnotateParts ==
    ASSUME NEW p \in Positions, reason \in Slugs
    PROVE  LET q == bl_glue_annotate_tag(p) IN
           /\ q \in Positions
           /\ q.ecef = p.ecef /\ q.from = p.from /\ q.base = p.base
           /\ q.slug = IF reason # "" /\ p.base = "[~geoIP]" THEN reason ELSE p.slug
  BY DEF bl_glue_annotate_tag, Positions

LEMMA FallbackParts ==
    ASSUME NEW p \in Positions, NEW ok \in BOOLEAN
    PROVE  LET q == Fallback(p, ok) IN
           /\ q \in Positions /\ q.ecef = p.ecef /\ q.slug = p.slug
           /\ p.from # "none" => q = p
           /\ p.from = "none" /\ p.ecef = "none" =>
                 q.base = "[~geoIP]" /\ q.from \in {"geoIP", "none"}
           /\ p.from = "none" /\ p.ecef \notin {"none", "zero"} =>
                 q.from = p.ecef /\ q.base = "[ecef]"
           /\ p.from = "none" /\ p.ecef = "zero" => q = p
  <1> DEFINE g == bs_geolocate(p, ok)
             c == bs_ecef_to_geo(p)
  <1>1. /\ g \in Positions /\ g.ecef = p.ecef /\ g.slug = p.slug /\ g.base = "[~geoIP]"
        /\ g.from \in {"geoIP", "none"}
    BY GeolocateParts
  <1>2. /\ c \in Positions /\ c.ecef = p.ecef /\ c.slug = p.slug
        /\ p.ecef = "zero" => c = p
        /\ p.ecef # "zero" => c.from = p.ecef /\ c.base = "[ecef]"
    BY ConvertParts
  <1> HIDE DEF g, c
  <1>3. CASE p.from = "none" /\ p.ecef = "none"
    <2>1. Fallback(p, ok) = g
      BY <1>1, <1>3 DEF Fallback, g
    <2> QED BY <1>1, <1>3, <2>1
  <1>4. CASE p.from = "none" /\ p.ecef # "none"
    <2>1. Fallback(p, ok) = c
      BY <1>4 DEF Fallback, c
    <2> QED BY <1>2, <1>4, <2>1
  <1>5. CASE p.from # "none"
    <2>1. Fallback(p, ok) = p
      BY <1>5 DEF Fallback
    <2> QED BY <1>5, <2>1
  <1> QED BY <1>3, <1>4, <1>5

(* The chain each tool runs for itself gives a position with a true tag.   *)
LEMMA SelfLocated ==
    ASSUME my \in Positions, NEW ok \in BOOLEAN, reason = Slug(st),
           IF st = "BL_OK" THEN ByBridge(my) ELSE Given(my)
    PROVE  LET q == bl_glue_annotate_tag(Fallback(my, ok)) IN
           /\ q \in Positions
           /\ Tagged(q)
           /\ q.from = "bridge" \/ q.ecef = "bridge" => my.from = "bridge" \/ my.ecef = "bridge"
  <1> DEFINE f == Fallback(my, ok)
             q == bl_glue_annotate_tag(f)
  <1>1. /\ f \in Positions /\ f.ecef = my.ecef /\ f.slug = my.slug
        /\ my.from # "none" => f = my
        /\ my.from = "none" /\ my.ecef = "none" => f.base = "[~geoIP]" /\ f.from \in {"geoIP", "none"}
        /\ my.from = "none" /\ my.ecef \notin {"none", "zero"} => f.from = my.ecef /\ f.base = "[ecef]"
        /\ my.from = "none" /\ my.ecef = "zero" => f = my
    BY FallbackParts
  <1>2. reason \in Slugs
    BY SlugType
  <1> HIDE DEF f
  <1>3. /\ q \in Positions /\ q.ecef = f.ecef /\ q.from = f.from /\ q.base = f.base
        /\ q.slug = IF reason # "" /\ f.base = "[~geoIP]" THEN reason ELSE f.slug
    BY <1>1, <1>2, AnnotateParts
  <1> HIDE DEF q
  <1>4. my.ecef \in {"none", "ecef", "zero", "bridge"}
    BY PositionParts DEF Ecefs
  <1>5. Slug("BL_OK") = ""
    BY DEF Slug
  <1>6. Tagged(q)
    <2>1. CASE st = "BL_OK"
      BY <1>1, <1>3, <1>4, <1>5, <2>1 DEF ByBridge, Tagged
    <2>2. CASE st # "BL_OK"
      BY <1>1, <1>3, <1>4, <2>2 DEF Given, Tagged
    <2> QED BY <2>1, <2>2
  <1>7. q.from = "bridge" \/ q.ecef = "bridge" => my.from = "bridge" \/ my.ecef = "bridge"
    BY <1>1, <1>3, <1>4
  <1> QED
    BY <1>3, <1>6, <1>7 DEF f, q

(* An argument leaves the position one the command line may give.          *)
LEMMA OptionParts ==
    ASSUME NEW p \in Positions, Given(p), NEW o
    PROVE  OptionMy(p, o) \in Positions /\ Given(OptionMy(p, o))
  <1>1. CASE o = "--my-ecef"
    <2>1. OptionMy(p, o) = [p EXCEPT !.ecef = "ecef"]
      BY <1>1 DEF OptionMy
    <2> QED BY <2>1 DEF Positions, Ecefs, Given
  <1>2. CASE o = "--my-ecef=0,0,0"
    <2>1. OptionMy(p, o) = [p EXCEPT !.ecef = "zero"]
      BY <1>2 DEF OptionMy
    <2> QED BY <2>1 DEF Positions, Ecefs, Given
  <1>3. CASE o = "--my-ecef=bad"
    <2>1. OptionMy(p, o) = [p EXCEPT !.ecef = "none"]
      BY <1>3 DEF OptionMy
    <2> QED BY <2>1 DEF Positions, Ecefs, Given
  <1>4. CASE o = "--my-coord"
    <2>1. OptionMy(p, o) = [p EXCEPT !.from = "coord", !.base = "[coord]"]
      BY <1>4 DEF OptionMy
    <2> QED BY <2>1 DEF Positions, Sources, Bases, Given
  <1>5. CASE o \notin {"--my-ecef", "--my-ecef=0,0,0", "--my-ecef=bad", "--my-coord"}
    <2>1. OptionMy(p, o) = p
      BY <1>5 DEF OptionMy
    <2> QED BY <2>1
  <1> QED BY <1>1, <1>2, <1>3, <1>4, <1>5

LEMMA OptionTgtType ==
    ASSUME NEW p \in Positions, NEW o
    PROVE  OptionTgt(p, o) \in Positions
  BY DEF OptionTgt, Positions, Ecefs, Sources, Bases

(* What the bridge's answer leaves, in a run that had no position.         *)
LEMMA BridgeParts ==
    ASSUME my \in Positions, Given(my), my.from = "none", NEW w \in BOOLEAN, NEW b \in BOOLEAN, w \/ b
    PROVE  FromBridge(w, b) \in Positions /\ ByBridge(FromBridge(w, b))
  <1> DEFINE q == FromBridge(w, b)
  <1>1. /\ q \in Positions
        /\ q.from = IF w THEN "bridge" ELSE my.from
        /\ q.ecef = IF b THEN "bridge" ELSE my.ecef
        /\ q.base = IF b THEN "[brightlink:ecef]" ELSE "[brightlink]"
        /\ q.slug = my.slug
    BY DEF FromBridge, Positions, Ecefs, Sources, Bases
  <1> QED
    BY <1>1 DEF Given, ByBridge

-----------------------------------------------------------------------------
(* The client's own steps, inside bl_geo_get.                              *)

(* bl_geo_get keeps a loaded pin, and comes to its query, and to BL_OK,    *)
(* only with a session.                                                    *)
LEMMA ClientStepAsks ==
    ASSUME IInv, AskInv, ClientStep, UNCHANGED toolVars
    PROVE  AskInv'
  <1>1. tpc = "asking"
    <2>1. pc \in {"send", "wait"}
      BY DEF ClientStep, ConnectFails, SendRequest, WriteFails, ReadFails, CopyFails, Refused,
             Malformed, GotPublicKey, GotEnclaveKey, RegisterFailsCrypto, Registered, GotPosition, Read
    <2> QED BY <2>1 DEF AskInv
  <1>2. /\ call = "geo" /\ (pinRead # NoKey => pin = pinRead)
        /\ pc \in {"send", "wait"} /\ cmd = "LINK_GEO_GET" => session # NoKey
        /\ posKey # NoKey /\ pinRead # NoKey => posKey = pinRead
    BY <1>1 DEF AskInv
  <1>3. tpc' = "asking" /\ pinRead' = pinRead /\ posKey' = posKey
    BY <1>1 DEF toolVars
  <1>4. SUFFICES /\ pc' # "none" /\ call' = "geo"
                 /\ pinRead # NoKey => pin' = pin
                 /\ pc' \in {"send", "wait"} /\ cmd' = "LINK_GEO_GET" => session' # NoKey
                 /\ pc' = "idle" /\ result' = "BL_OK" => session' # NoKey
    BY <1>2, <1>3 DEF AskInv
  <1>5. CASE ConnectFails \/ SendRequest \/ WriteFails \/ ReadFails \/ CopyFails
    BY <1>2, <1>5 DEF ConnectFails, SendRequest, WriteFails, ReadFails, CopyFails, Return
  <1>6. ASSUME NEW c \in Commands, Refused(c) \/ Malformed(c)
        PROVE  /\ pc' = "idle" /\ call' = call /\ pin' = pin /\ result' # "BL_OK"
    BY <1>6 DEF Refused, Malformed, Return, Read
  <1>7. CASE GotPublicKey \/ GotEnclaveKey \/ RegisterFailsCrypto
    BY <1>2, <1>7 DEF GotPublicKey, GotEnclaveKey, RegisterFailsCrypto, Return, Exchange, Read
  <1>8. CASE Registered
    <2>1. pc = "wait" /\ cmd = "LINK_REGISTER" /\ call' = call
      BY <1>8 DEF Registered, Read
    <2>2. sepPub # NoKey
      BY <2>1, BrightLinkAssumption DEF IInv, CheckedKey
    <2>3. session' # NoKey
      BY <1>8, <2>2 DEF Registered
    <2>4. pc' # "none" /\ (pin # NoKey => pin' = pin)
      BY <1>8 DEF Registered, Exchange, Return
    <2>5. pinRead # NoKey => pin' = pin
      BY <1>2, <2>4
    <2> QED BY <1>2, <2>1, <2>3, <2>4, <2>5
  <1>9. CASE GotPosition
    BY <1>2, <1>9 DEF GotPosition, Return, Read
  <1> QED
    BY <1>2, <1>5, <1>6, <1>7, <1>8, <1>9 DEF ClientStep

(* Nothing of the tool changes with a step of the client or the bridge.    *)
LEMMA ToolUntouched ==
    ASSUME ToolTypeOK, MyInv, UNCHANGED toolVars, TypeOK'
    PROVE  ToolTypeOK' /\ MyInv'
  <1>1. ToolTypeOK'
    BY DEF ToolTypeOK, toolVars
  <1>2. MyInv'
    BY DEF MyInv, toolVars, Tagged, Given, ByBridge
  <1> QED BY <1>1, <1>2

-----------------------------------------------------------------------------
(* Each step of main and of the glue.                                      *)

LEMMA StartStep ==
    ASSUME GeoInv, Start, TypeOK'
    PROVE  ToolTypeOK' /\ MyInv' /\ AskInv'
  <1>1. /\ tpc = "idle" /\ tpc' = "parse" /\ my' = Nowhere /\ tgt' = Nowhere /\ reason' = ""
        /\ anchors' = <<>> /\ out' = "nothing" /\ st' = "none" /\ dest' = FALSE
        /\ pinRead' = NoKey /\ posKey' = NoKey /\ self' = "none"
        /\ cl' \in Commandlines
        /\ UNCHANGED vars
    BY DEF Start
  <1>2. nruns' \in 0..MaxRuns
    <2>1. nruns < MaxRuns /\ nruns' = nruns + 1
      BY DEF Start
    <2>2. nruns \in 0..MaxRuns
      BY DEF GeoInv, ToolTypeOK
    <2>3. MaxRuns \in Nat
      BY GeoToolAssumption, BrightLinkAssumption
    <2> QED BY <2>1, <2>2, <2>3
  <1>3. Nowhere \in Positions /\ Given(Nowhere) /\ Nowhere.from = "none" /\ Nowhere.ecef = "none"
    BY DEF Nowhere, Positions, Ecefs, Sources, Bases, Slugs, Given
  <1>4. anchors' \in Seq(Rings) /\ Len(anchors') <= MAX_ANCHORS
    <2>1. anchors' = <<>> /\ MAX_ANCHORS \in Nat
      BY <1>1, GeoToolAssumption
    <2> QED BY <2>1, EmptySeq
  <1>5. ToolTypeOK'
    BY <1>1, <1>2, <1>3, <1>4 DEF ToolTypeOK, Places, Slugs, Outputs
  <1>6. MyInv'
    BY <1>1, <1>3 DEF MyInv, Given
  <1>7. pc' = "none"
    BY <1>1 DEF GeoInv, AskInv, vars, clientVars
  <1>8. AskInv'
    BY <1>1, <1>7 DEF AskInv
  <1> QED BY <1>5, <1>6, <1>8

(* The steps that only move main on, or only touch the pin file.           *)
LEMMA MoveStep ==
    ASSUME GeoInv, ResetPinAndExit \/ ParseEnd \/ GlueSkips \/ Probe \/ Exit, TypeOK'
    PROVE  ToolTypeOK' /\ MyInv' /\ AskInv'
  <1>1. UNCHANGED <<cl, dest, my, tgt, reason, anchors, out, nruns, st, pinRead, posKey, self>>
    BY DEF ResetPinAndExit, ParseEnd, GlueSkips, Probe, Exit
  <1>2. pc' = pc
    BY DEF ResetPinAndExit, ParseEnd, GlueSkips, Probe, Exit, vars, clientVars
  <1>3. \/ tpc' = "idle" /\ tpc \in {"parse", "probe", "shown"}
        \/ tpc = "parse" /\ tpc' = "glue"
        \/ tpc = "glue" /\ tpc' \in {"probe", "locate"}
        \/ tpc = "probe" /\ tpc' = "locate"
    BY DEF ResetPinAndExit, ParseEnd, GlueSkips, Probe, Exit, AfterGlue
  <1>4. ToolTypeOK'
    BY <1>1, <1>3 DEF GeoInv, ToolTypeOK, Places
  <1>5. Slug("none") = ""
    BY DEF Slug
  <1>6. MyInv'
    BY <1>1, <1>3, <1>5 DEF GeoInv, MyInv, Given, ByBridge
  <1>7. AskInv'
    BY <1>1, <1>2, <1>3 DEF GeoInv, AskInv
  <1> QED BY <1>4, <1>6, <1>7

LEMMA ParseStep ==
    ASSUME GeoInv, ParseArg, TypeOK'
    PROVE  ToolTypeOK' /\ MyInv' /\ AskInv'
  <1> DEFINE o == Head(args)
  <1>1. /\ tpc = "parse" /\ tpc' \in {"parse", "idle"}
        /\ UNCHANGED <<vars, cl, reason, out, nruns, st, pinRead, posKey, self>>
        /\ my' = OptionMy(my, o)
        /\ tgt' = IF cl.tool = "bping" THEN OptionTgt(tgt, o) ELSE tgt
        /\ anchors' = IF cl.tool = "baudit" THEN OptionAnchor(anchors, o) ELSE anchors
        /\ dest' = (dest \/ Head(args) = "dest")
    BY DEF ParseArg
  <1> HIDE DEF o
  <1>2. my \in Positions /\ tgt \in Positions /\ Given(my)
    BY <1>1 DEF GeoInv, ToolTypeOK, MyInv
  <1>3. my' \in Positions /\ Given(my')
    BY <1>1, <1>2, OptionParts
  <1>4. tgt' \in Positions
    BY <1>1, <1>2, OptionTgtType
  <1>5. anchors' \in Seq(Rings) /\ Len(anchors') <= MAX_ANCHORS
    <2>1. anchors \in Seq(Rings) /\ Len(anchors) <= MAX_ANCHORS /\ MAX_ANCHORS \in Nat
      BY GeoToolAssumption DEF GeoInv, ToolTypeOK
    <2>2. OptionAnchor(anchors, o) = anchors
          \/ (o \in Rings /\ Len(anchors) < MAX_ANCHORS /\ OptionAnchor(anchors, o) = Append(anchors, o))
      BY DEF OptionAnchor
    <2>3. anchors' = anchors
          \/ (o \in Rings /\ Len(anchors) < MAX_ANCHORS /\ anchors' = Append(anchors, o))
      BY <1>1, <2>2
    <2> QED BY <2>1, <2>3
  <1>6. dest' \in BOOLEAN
    BY <1>1
  <1>7. ToolTypeOK'
    BY <1>1, <1>3, <1>4, <1>5, <1>6 DEF GeoInv, ToolTypeOK, Places
  <1>8. MyInv'
    BY <1>1, <1>3 DEF GeoInv, MyInv, Given
  <1>9. pc' = "none"
    BY <1>1 DEF GeoInv, AskInv, vars, clientVars
  <1>10. AskInv'
    BY <1>1, <1>9 DEF GeoInv, AskInv
  <1> QED BY <1>7, <1>8, <1>10

LEMMA GlueNewStep ==
    ASSUME GeoInv, GlueNew, TypeOK'
    PROVE  ToolTypeOK' /\ MyInv' /\ AskInv'
  <1>1. /\ tpc = "glue" /\ tpc' = "new" /\ my.from = "none"
        /\ UNCHANGED <<cl, dest, my, tgt, reason, anchors, out, nruns, st, pinRead, posKey, self>>
    BY DEF GlueNew, HavePosition
  <1>2. pc' = "idle" /\ session' = NoKey
    BY DEF GlueNew, ClientNew
  <1>3. ToolTypeOK'
    BY <1>1 DEF GeoInv, ToolTypeOK, Places
  <1>4. MyInv'
    BY <1>1 DEF GeoInv, MyInv, Given
  <1>5. AskInv'
    BY <1>1, <1>2 DEF GeoInv, AskInv
  <1> QED BY <1>3, <1>4, <1>5

LEMMA GlueAsksStep ==
    ASSUME GeoInv, GlueAsks, TypeOK'
    PROVE  ToolTypeOK' /\ MyInv' /\ AskInv'
  <1>1. /\ tpc = "new" /\ tpc' = "asking" /\ pinRead' = pin'
        /\ UNCHANGED <<cl, dest, my, tgt, reason, anchors, out, nruns, st, posKey, self>>
    BY DEF GlueAsks
  <1>2. session = NoKey /\ posKey = NoKey
    BY <1>1 DEF GeoInv, AskInv, MyInv
  <1>3. call' = "geo" /\ pc' = "send" /\ cmd' = "GET_PUBLIC_KEY"
    BY <1>2 DEF GlueAsks, GeoGet, StartRegister, Exchange
  <1>4. pin' \in Keys \cup {NoKey}
    BY DEF TypeOK
  <1>5. ToolTypeOK'
    BY <1>1, <1>4 DEF GeoInv, ToolTypeOK, Places
  <1>6. MyInv'
    BY <1>1 DEF GeoInv, MyInv, Given
  <1>7. AskInv'
    BY <1>1, <1>2, <1>3 DEF AskInv
  <1> QED BY <1>5, <1>6, <1>7

(* The position that bl_geo_get brought is of the session's key, which is  *)
(* the pinned one.                                                         *)
LEMMA GlueReturnsStep ==
    ASSUME GeoInv, GlueReturns, TypeOK'
    PROVE  ToolTypeOK' /\ MyInv' /\ AskInv'
  <1>1. /\ tpc = "asking" /\ pc = "idle" /\ tpc' \in {"probe", "locate"} /\ pc' = "none"
        /\ st' = result /\ reason' = Slug(result)
        /\ UNCHANGED <<cl, dest, tgt, anchors, out, nruns, pinRead, self>>
    BY DEF GlueReturns, AfterGlue, ClientFree
  <1>2. /\ my \in Positions /\ Given(my) /\ my.from = "none" /\ posKey = NoKey
        /\ result \in Status /\ session \in Keys \cup {NoKey} /\ posKey \in Keys \cup {NoKey}
    BY <1>1 DEF GeoInv, ToolTypeOK, MyInv, TypeOK
  <1>3. /\ pinRead # NoKey => pin = pinRead
        /\ result = "BL_OK" => session # NoKey
        /\ session # NoKey => session = pin
    BY <1>1 DEF GeoInv, AskInv, IInv, SessionSound
  <1>4. CASE result = "BL_OK"
    <2>1. PICK w \in BOOLEAN, b \in BOOLEAN : (w \/ b) /\ my' = FromBridge(w, b)
      BY <1>4 DEF GlueReturns
    <2>2. posKey' = session
      BY <1>4 DEF GlueReturns
    <2>3. my' \in Positions /\ ByBridge(my')
      BY <1>2, <2>1, BridgeParts
    <2>4. ToolTypeOK'
      BY <1>1, <1>2, <2>2, <2>3, SlugType DEF GeoInv, ToolTypeOK, Places
    <2>5. posKey' # NoKey /\ (pinRead' # NoKey => posKey' = pinRead')
      BY <1>1, <1>3, <1>4, <2>2
    <2>6. MyInv'
      BY <1>1, <1>4, <2>3, <2>5 DEF MyInv, ByBridge, Slug
    <2>7. AskInv'
      BY <1>1, <2>5 DEF AskInv
    <2> QED BY <2>4, <2>6, <2>7
  <1>5. CASE result # "BL_OK"
    <2>1. UNCHANGED <<my, posKey>>
      BY <1>5 DEF GlueReturns
    <2>2. ToolTypeOK'
      BY <1>1, <1>2, <2>1, SlugType DEF GeoInv, ToolTypeOK, Places
    <2>3. MyInv'
      BY <1>1, <1>2, <1>5, <2>1 DEF MyInv, Given, Slug
    <2>4. AskInv'
      BY <1>1, <1>2, <2>1 DEF AskInv
    <2> QED BY <2>2, <2>3, <2>4
  <1> QED BY <1>4, <1>5

LEMMA ToolDiesStep ==
    ASSUME GeoInv, ToolDies, TypeOK'
    PROVE  ToolTypeOK' /\ MyInv' /\ AskInv'
  <1>1. /\ tpc = "asking" /\ tpc' = "idle" /\ pc' = "none"
        /\ UNCHANGED <<cl, dest, my, tgt, reason, anchors, out, nruns, st, pinRead, posKey, self>>
    BY DEF ToolDies
  <1>2. ToolTypeOK'
    BY <1>1 DEF GeoInv, ToolTypeOK, Places
  <1>3. MyInv' /\ AskInv'
    BY <1>1 DEF GeoInv, MyInv, AskInv
  <1> QED BY <1>2, <1>3

(* One more anchor in front of the table.                                  *)
LEMMA SelfFirst ==
    ASSUME NEW tab \in Seq(Rings), NEW o \in Rings
    PROVE  /\ <<o>> \o tab \in Seq(Rings) /\ Len(tab) \in Nat
           /\ Len(<<o>> \o tab) = Len(tab) + 1
  <1> DEFINE u == <<o>>
  <1>1. u \in Seq(Rings) /\ Len(u) = 1 /\ Len(tab) \in Nat
    OBVIOUS
  <1> HIDE DEF u
  <1>2. u \o tab \in Seq(Rings) /\ Len(u \o tab) = Len(u) + Len(tab)
    BY <1>1, ConcatProperties, Zenon
  <1>3. Len(u \o tab) = Len(tab) + 1
    BY <1>1, <1>2
  <1> QED BY <1>1, <1>2, <1>3, Zenon DEF u

(* The tools find themselves, tag what they found, and print.              *)
LEMMA LocateStep ==
    ASSUME GeoInv, LocateBping \/ LocateBtraceroute \/ LocateBmtr \/ LocateBaudit, TypeOK'
    PROVE  ToolTypeOK' /\ MyInv' /\ AskInv'
  <1>1. /\ tpc = "locate" /\ tpc' = "shown"
        /\ UNCHANGED <<vars, cl, dest, reason, nruns, st, pinRead, posKey>>
        /\ \E ok \in BOOLEAN : my' = bl_glue_annotate_tag(Fallback(my, ok))
    BY DEF LocateBping, LocateBtraceroute, LocateBmtr, LocateBaudit
  <1>2. my \in Positions /\ reason = Slug(st) /\ IF st = "BL_OK" THEN ByBridge(my) ELSE Given(my)
    BY <1>1 DEF GeoInv, ToolTypeOK, MyInv
  <1>3. /\ my' \in Positions /\ Tagged(my')
        /\ my'.from = "bridge" \/ my'.ecef = "bridge" => my.from = "bridge" \/ my.ecef = "bridge"
    BY <1>1, <1>2, SelfLocated
  <1>4. tgt' \in Positions
    <2>1. tgt \in Positions
      BY DEF GeoInv, ToolTypeOK
    <2>2. tgt' = tgt \/ \E ok \in BOOLEAN : tgt' = Fallback(tgt, ok) \/ tgt' = bs_geolocate(tgt, ok)
      BY DEF LocateBping, LocateBtraceroute, LocateBmtr, LocateBaudit
    <2> QED BY <2>1, <2>2, FallbackParts, GeolocateParts
  <1>5. out' \in Outputs
    BY DEF LocateBping, LocateBtraceroute, LocateBmtr, LocateBaudit, Stats, SrcLine, Verdict, Outputs
  <1>6. self' \in Rings \cup {"none"}
    BY DEF LocateBping, LocateBtraceroute, LocateBmtr, LocateBaudit, GeoInv, ToolTypeOK
  <1>7. anchors' \in Seq(Rings) /\ Len(anchors') <= MAX_ANCHORS
    <2>1. anchors \in Seq(Rings) /\ Len(anchors) <= MAX_ANCHORS /\ MAX_ANCHORS \in Nat
      BY GeoToolAssumption DEF GeoInv, ToolTypeOK
    <2>2. anchors' = anchors
          \/ (self' \in Rings /\ Len(anchors) < MAX_ANCHORS /\ anchors' = <<self'>> \o anchors)
      BY <1>6 DEF LocateBping, LocateBtraceroute, LocateBmtr, LocateBaudit, WithSelf
    <2>3. CASE self' \in Rings /\ Len(anchors) < MAX_ANCHORS /\ anchors' = <<self'>> \o anchors
      <3>1. anchors' \in Seq(Rings) /\ Len(anchors') = Len(anchors) + 1 /\ Len(anchors) \in Nat
        BY <2>1, <2>3, SelfFirst, Zenon
      <3> QED BY <2>1, <2>3, <3>1
    <2> QED BY <2>1, <2>2, <2>3, Zenon
  <1>8. ToolTypeOK'
    BY <1>1, <1>3, <1>4, <1>5, <1>6, <1>7 DEF GeoInv, ToolTypeOK, Places
  <1>9. MyInv'
    BY <1>1, <1>3 DEF GeoInv, MyInv, Tagged
  <1>10. pc' = "none"
    BY <1>1 DEF GeoInv, AskInv, vars, clientVars
  <1>11. AskInv'
    BY <1>1, <1>10 DEF GeoInv, AskInv
  <1> QED BY <1>8, <1>9, <1>11

(* The bridge, and the user who resets the pin from another process, do    *)
(* not reach into the run.                                                 *)
LEMMA OutsideStep ==
    ASSUME GeoInv, BridgeStep \/ ResetPin \/ UNCHANGED vars, UNCHANGED toolVars, TypeOK'
    PROVE  ToolTypeOK' /\ MyInv' /\ AskInv'
  <1>1. UNCHANGED <<pc, cmd, call, session, pin, result>>
    BY DEF BridgeStep, BridgeAnswers, SessionExpires, BridgeStops, BridgeStarts, BridgeRekeys,
           ResetPin, vars, clientVars
  <1>2. AskInv'
    BY <1>1 DEF GeoInv, AskInv, toolVars
  <1> QED BY <1>2, ToolUntouched DEF GeoInv

-----------------------------------------------------------------------------
(* The invariant holds at first, and every step keeps it.                  *)

LEMMA InitGeoInv == ToolInit => GeoInv
  <1> SUFFICES ASSUME ToolInit PROVE GeoInv
    OBVIOUS
  <1>1. IInv
    BY InitIInv DEF ToolInit
  <1>2. /\ tpc = "idle" /\ my = Nowhere /\ tgt = Nowhere /\ reason = "" /\ anchors = <<>>
        /\ out = "nothing" /\ nruns = 0 /\ st = "none" /\ dest = FALSE /\ cl \in Commandlines
        /\ pinRead = NoKey /\ posKey = NoKey /\ self = "none" /\ pc = "none"
    BY DEF ToolInit, Init
  <1>3. Nowhere \in Positions /\ Nowhere.from = "none" /\ Nowhere.ecef = "none"
    BY DEF Nowhere, Positions, Ecefs, Sources, Bases, Slugs
  <1>4. anchors \in Seq(Rings) /\ Len(anchors) <= MAX_ANCHORS
    <2>1. anchors = <<>> /\ MAX_ANCHORS \in Nat
      BY <1>2, GeoToolAssumption
    <2> QED BY <2>1, EmptySeq
  <1>5. nruns \in 0..MaxRuns
    <2>1. MaxRuns \in Nat
      BY GeoToolAssumption, BrightLinkAssumption
    <2>2. nruns = 0
      BY DEF ToolInit
    <2> QED BY <2>1, <2>2
  <1>6. ToolTypeOK
    BY <1>1, <1>2, <1>3, <1>4, <1>5 DEF IInv, ToolTypeOK, Places, Slugs, Outputs
  <1>7. MyInv /\ AskInv
    BY <1>2, <1>3 DEF MyInv, AskInv
  <1> QED BY <1>1, <1>6, <1>7 DEF GeoInv

LEMMA NextGeoInv == GeoInv /\ [ToolNext]_allVars => GeoInv'
  <1> SUFFICES ASSUME GeoInv, [ToolNext]_allVars PROVE GeoInv'
    OBVIOUS
  <1>1. IInv'
    BY ClientInvariant DEF GeoInv
  <1>2. TypeOK'
    BY <1>1 DEF IInv
  <1>3. SUFFICES ToolTypeOK' /\ MyInv' /\ AskInv'
    BY <1>1 DEF GeoInv
  <1>4. CASE Start
    BY <1>2, <1>4, StartStep
  <1>5. CASE ResetPinAndExit \/ ParseEnd \/ GlueSkips \/ Probe \/ Exit
    BY <1>2, <1>5, MoveStep
  <1>6. CASE ParseArg
    BY <1>2, <1>6, ParseStep
  <1>7. CASE GlueNew
    BY <1>2, <1>7, GlueNewStep
  <1>8. CASE GlueAsks
    BY <1>2, <1>8, GlueAsksStep
  <1>9. CASE GlueReturns
    BY <1>2, <1>9, GlueReturnsStep
  <1>10. CASE ToolDies
    BY <1>2, <1>10, ToolDiesStep
  <1>11. CASE LocateBping \/ LocateBtraceroute \/ LocateBmtr \/ LocateBaudit
    BY <1>2, <1>11, LocateStep
  <1>12. CASE ClientStep /\ UNCHANGED toolVars
    BY <1>2, <1>12, ClientStepAsks, ToolUntouched DEF GeoInv
  <1>13. CASE (BridgeStep \/ ResetPin) /\ UNCHANGED toolVars
    BY <1>2, <1>13, OutsideStep
  <1>14. CASE UNCHANGED allVars
    BY <1>2, <1>14, OutsideStep DEF allVars
  <1> QED
    BY <1>4, <1>5, <1>6, <1>7, <1>8, <1>9, <1>10, <1>11, <1>12, <1>13, <1>14 DEF ToolNext, ToolStep

LEMMA GeoInvariance == ToolSpec => []GeoInv
  BY InitGeoInv, NextGeoInv, PTL DEF ToolSpec

-----------------------------------------------------------------------------
(* What follows from it.                                                   *)

(* Type correctness of the tools, with room for every anchor baudit keeps, *)
(* its own included.                                                       *)
THEOREM ToolTypeCorrect == ToolSpec => []ToolTypeOK
  <1>1. GeoInv => ToolTypeOK
    BY DEF GeoInv
  <1> QED BY <1>1, GeoInvariance, PTL

(* The printed tag says geoIP exactly for a geoIP position, and its slug   *)
(* is the failure bl_geo_get met in the same run.                          *)
THEOREM TagsTell == ToolSpec => []TagTells
  <1>1. GeoInv => TagTells
    BY DEF GeoInv, MyInv, Tagged, TagTells
  <1> QED BY <1>1, GeoInvariance, PTL

(* A position of the bridge came in a session of the key that the run read *)
(* from its pin file, however the bridge restarts or changes its identity. *)
THEOREM PositionsTrusted == ToolSpec => []TrustedPosition
  <1>1. GeoInv => TrustedPosition
    BY DEF GeoInv, MyInv, AskInv, TrustedPosition
  <1> QED BY <1>1, GeoInvariance, PTL

(* A tool uses the client as the client's own specification allows, except *)
(* that SIGPIPE, which ends the process, is followed by a new process.     *)
THEOREM ToolsUseClient == ToolSpec => Init /\ [][Next \/ ToolDies]_vars
  <1>1. ToolInit => Init
    BY DEF ToolInit
  <1>2. [ToolNext]_allVars => [Next \/ ToolDies]_vars
    BY ClientInside, Zenon
  <1> QED BY <1>1, <1>2, PTL DEF ToolSpec

(* So what the client promises still holds inside a tool, over many runs   *)
(* and over processes that SIGPIPE ended in the middle of an exchange.     *)
THEOREM ClientSound == ToolSpec => [](Pairing /\ SessionSound)
  <1>1. GeoInv => Pairing /\ SessionSound
    BY OneExchangePairs DEF GeoInv, IInv
  <1> QED BY <1>1, GeoInvariance, PTL

-----------------------------------------------------------------------------
(* Reading the command line: what each variable says of the arguments read *)
(* so far, which are the first At of cl.argv.                              *)

Before == {"parse", "glue", "new", "asking", "probe", "locate"}
At == Len(cl.argv) - Len(args)

ArgsInv ==
    tpc \in Before =>
       /\ cl.argv \in Seq(STRING) /\ args \in Seq(STRING)
       /\ Len(args) <= Len(cl.argv)
       /\ \A j \in 1..Len(args) : args[j] = cl.argv[At + j]
       /\ tpc # "parse" => Len(args) = 0

(* The form of --my-ecef that counts among the first n arguments is o.     *)
EcefOptions == {"--my-ecef", "--my-ecef=0,0,0", "--my-ecef=bad"}
EcefUpTo(argv, n, o) ==
    \E i \in 1..n : /\ argv[i] = o
                    /\ \A j \in (i + 1)..n : argv[j] \notin EcefOptions \ {o}

HasUpTo(argv, n, o) == \E i \in 1..n : argv[i] = o

(* The --my-ecef that counts is not the zero vector, which gives have_my_  *)
(* ecef and no position, and does not come with a --my-coord.              *)
GaveZero == EcefUpTo(cl.argv, Len(cl.argv), "--my-ecef=0,0,0")
OneSource == ~GaveZero /\ ~(GaveEcef /\ GaveCoord)

(* What the arguments read so far made of the tool's own position, and     *)
(* that the bridge is asked only when they made nothing of it.             *)
SourceInv ==
    /\ tpc \in Before =>
          /\ st # "BL_OK" => /\ my.ecef = "ecef" <=> EcefUpTo(cl.argv, At, "--my-ecef")
                             /\ my.from = "coord" <=> HasUpTo(cl.argv, At, "--my-coord")
                             /\ my.ecef = "zero" => EcefUpTo(cl.argv, At, "--my-ecef=0,0,0")
          /\ st = "BL_OK" => my.ecef \in {"none", "bridge"}
          /\ tpc \in {"new", "asking"} => ~HavePosition
          /\ st # "none" => /\ ~EcefUpTo(cl.argv, At, "--my-ecef")
                            /\ ~HasUpTo(cl.argv, At, "--my-coord")
    /\ OneSource => FirstSourceWins

(* The anchors kept are the first of those given.                          *)
Kept(argv, n, tab) ==
    LET c == Cardinality(RingsUpTo(argv, n)) IN
    /\ Len(tab) = IF c < MAX_ANCHORS THEN c ELSE MAX_ANCHORS
    /\ \A i \in RingsUpTo(argv, n) :
          Cardinality(RingsUpTo(argv, i)) <= MAX_ANCHORS =>
             tab[Cardinality(RingsUpTo(argv, i))] = argv[i]

AnchorInv ==
    /\ tpc \in Before /\ cl.tool = "baudit" => Kept(cl.argv, At, anchors)
    /\ VerdictHonest

LineInv == ArgsInv /\ SourceInv /\ AnchorInv

-----------------------------------------------------------------------------
(* One more argument.                                                      *)

(* The next argument replaces the position, or leaves it.                  *)
LEMMA EcefNext ==
    ASSUME NEW argv, NEW n \in Nat, NEW o
    PROVE  EcefUpTo(argv, n + 1, o) <=>
              \/ argv[n + 1] = o
              \/ /\ EcefUpTo(argv, n, o)
                 /\ argv[n + 1] \notin EcefOptions \ {o}
  <1>1. ASSUME argv[n + 1] = o PROVE EcefUpTo(argv, n + 1, o)
    <2>1. n + 1 \in 1..(n + 1) /\ ((n + 1) + 1)..(n + 1) = {}
      OBVIOUS
    <2> QED BY <1>1, <2>1 DEF EcefUpTo
  <1>2. ASSUME EcefUpTo(argv, n, o), argv[n + 1] \notin EcefOptions \ {o}
        PROVE  EcefUpTo(argv, n + 1, o)
    <2>1. PICK i \in 1..n :
             /\ argv[i] = o
             /\ \A j \in (i + 1)..n : argv[j] \notin EcefOptions \ {o}
      BY <1>2 DEF EcefUpTo
    <2>2. i \in 1..(n + 1) /\ \A j \in (i + 1)..(n + 1) : j \in (i + 1)..n \/ j = n + 1
      OBVIOUS
    <2>3. \A j \in (i + 1)..(n + 1) : argv[j] \notin EcefOptions \ {o}
      BY <1>2, <2>1, <2>2
    <2> QED BY <2>1, <2>2, <2>3 DEF EcefUpTo
  <1>3. ASSUME EcefUpTo(argv, n + 1, o), argv[n + 1] # o
        PROVE  EcefUpTo(argv, n, o) /\ argv[n + 1] \notin EcefOptions \ {o}
    <2>1. PICK i \in 1..(n + 1) :
             /\ argv[i] = o
             /\ \A j \in (i + 1)..(n + 1) : argv[j] \notin EcefOptions \ {o}
      BY <1>3 DEF EcefUpTo
    <2>2. i \in 1..n
      <3>1. i # n + 1
        BY <1>3, <2>1, Zenon
      <3> QED BY <3>1
    <2>3. n + 1 \in (i + 1)..(n + 1) /\ \A j \in (i + 1)..n : j \in (i + 1)..(n + 1)
      BY <2>2
    <2> QED BY <2>1, <2>2, <2>3 DEF EcefUpTo
  <1> QED BY <1>1, <1>2, <1>3

LEMMA HasNext ==
    ASSUME NEW argv, NEW n \in Nat, NEW o
    PROVE  HasUpTo(argv, n + 1, o) <=> HasUpTo(argv, n, o) \/ argv[n + 1] = o
  <1>1. \A i : i \in 1..(n + 1) <=> i \in 1..n \/ i = n + 1
    OBVIOUS
  <1> QED BY <1>1 DEF HasUpTo

(* What one argument does to the position.                                 *)
LEMMA OptionSource ==
    ASSUME NEW p \in Positions, NEW o
    PROVE  /\ OptionMy(p, o).ecef =
                 IF o = "--my-ecef" THEN "ecef" ELSE IF o = "--my-ecef=0,0,0" THEN "zero"
                 ELSE IF o = "--my-ecef=bad" THEN "none" ELSE p.ecef
           /\ OptionMy(p, o).from = IF o = "--my-coord" THEN "coord" ELSE p.from
  BY DEF OptionMy, Positions

(* Counting the anchors: the count grows by one with an --anchor, and an   *)
(* anchor given has a place between 1 and the count.                       *)
LEMMA RingsFinite ==
    ASSUME NEW argv, NEW n \in Nat
    PROVE  IsFiniteSet(RingsUpTo(argv, n)) /\ Cardinality(RingsUpTo(argv, n)) \in Nat
  <1>1. IsFiniteSet(1..n)
    BY FS_Interval
  <1>2. RingsUpTo(argv, n) \in SUBSET (1..n)
    BY DEF RingsUpTo
  <1>3. IsFiniteSet(RingsUpTo(argv, n))
    BY <1>1, <1>2, FS_Subset
  <1> QED BY <1>3, FS_CardinalityType

LEMMA RingsNext ==
    ASSUME NEW argv, NEW n \in Nat
    PROVE  /\ argv[n + 1] \in Rings =>
                 /\ RingsUpTo(argv, n + 1) = RingsUpTo(argv, n) \cup {n + 1}
                 /\ Cardinality(RingsUpTo(argv, n + 1)) = Cardinality(RingsUpTo(argv, n)) + 1
           /\ argv[n + 1] \notin Rings => RingsUpTo(argv, n + 1) = RingsUpTo(argv, n)
  <1>1. \A i : i \in 1..(n + 1) <=> i \in 1..n \/ i = n + 1
    OBVIOUS
  <1>2. n + 1 \notin RingsUpTo(argv, n)
    BY DEF RingsUpTo
  <1>3. argv[n + 1] \in Rings => RingsUpTo(argv, n + 1) = RingsUpTo(argv, n) \cup {n + 1}
    BY <1>1 DEF RingsUpTo
  <1>4. argv[n + 1] \notin Rings => RingsUpTo(argv, n + 1) = RingsUpTo(argv, n)
    BY <1>1 DEF RingsUpTo
  <1>5. Cardinality(RingsUpTo(argv, n) \cup {n + 1}) = Cardinality(RingsUpTo(argv, n)) + 1
    BY <1>2, RingsFinite, FS_AddElement
  <1> QED BY <1>3, <1>4, <1>5, Zenon

LEMMA RingPlace ==
    ASSUME NEW argv, NEW n \in Nat, NEW i \in RingsUpTo(argv, n)
    PROVE  Cardinality(RingsUpTo(argv, i)) \in 1..Cardinality(RingsUpTo(argv, n))
  <1>1. i \in 1..n /\ argv[i] \in Rings /\ i \in Nat
    BY DEF RingsUpTo
  <1>2. RingsUpTo(argv, i) \in SUBSET RingsUpTo(argv, n)
    BY <1>1 DEF RingsUpTo
  <1>3. /\ IsFiniteSet(RingsUpTo(argv, n)) /\ Cardinality(RingsUpTo(argv, n)) \in Nat
        /\ IsFiniteSet(RingsUpTo(argv, i)) /\ Cardinality(RingsUpTo(argv, i)) \in Nat
    BY <1>1, RingsFinite
  <1>4. Cardinality(RingsUpTo(argv, i)) <= Cardinality(RingsUpTo(argv, n))
    BY <1>2, <1>3, FS_Subset
  <1>5. i \in RingsUpTo(argv, i)
    BY <1>1 DEF RingsUpTo
  <1>6. Cardinality(RingsUpTo(argv, i)) # 0
    BY <1>3, <1>5, FS_EmptySet
  <1> QED BY <1>3, <1>4, <1>6

(* An anchor put behind the others, and one put before them.               *)
LEMMA PutBehind ==
    ASSUME NEW tab \in Seq(Rings), NEW o \in Rings
    PROVE  /\ Len(Append(tab, o)) = Len(tab) + 1 /\ Append(tab, o)[Len(tab) + 1] = o
           /\ \A k \in 1..Len(tab) : Append(tab, o)[k] = tab[k]
  OBVIOUS

LEMMA PutBefore ==
    ASSUME NEW tab \in Seq(Rings), NEW o \in Rings
    PROVE  LET w == <<o>> \o tab IN
           /\ Len(tab) \in Nat /\ Len(w) = Len(tab) + 1 /\ w[1] = o
           /\ \A k \in 1..Len(tab) : k + 1 \in 1..Len(w) /\ w[k + 1] = tab[k]
  <1> DEFINE u == <<o>>
             w == u \o tab
  <1>1. u \in Seq(Rings) /\ Len(u) = 1 /\ u[1] = o /\ Len(tab) \in Nat
    OBVIOUS
  <1> HIDE DEF u
  <1>2. /\ Len(w) = Len(u) + Len(tab)
        /\ \A i \in 1..(Len(u) + Len(tab)) : w[i] = IF i <= Len(u) THEN u[i] ELSE tab[i - Len(u)]
    BY <1>1, ConcatProperties, Zenon
  <1> HIDE DEF w
  <1>3. Len(w) = Len(tab) + 1 /\ w[1] = o
    BY <1>1, <1>2
  <1>4. ASSUME NEW k \in 1..Len(tab) PROVE k + 1 \in 1..Len(w) /\ w[k + 1] = tab[k]
    <2>1. k + 1 \in 1..(Len(u) + Len(tab)) /\ ~(k + 1 <= Len(u)) /\ k + 1 - Len(u) = k
      BY <1>1
    <2> QED BY <1>1, <1>2, <2>1
  <1> QED BY <1>1, <1>3, <1>4 DEF u, w

(* OptionAnchor() keeps the first of the anchors given, in their order.    *)
LEMMA KeptNext ==
    ASSUME NEW argv, NEW n \in Nat, NEW tab \in Seq(Rings), Kept(argv, n, tab)
    PROVE  Kept(argv, n + 1, OptionAnchor(tab, argv[n + 1]))
  <1> DEFINE o == argv[n + 1]
             c == Cardinality(RingsUpTo(argv, n))
             M == MAX_ANCHORS
             Place(i) == Cardinality(RingsUpTo(argv, i))
             next == OptionAnchor(tab, o)
  <1>1. M \in Nat \ {0}
    BY GeoToolAssumption
  <1>2. c \in Nat
    BY RingsFinite
  <1>3. /\ Len(tab) = IF c < M THEN c ELSE M
        /\ \A i \in RingsUpTo(argv, n) : Place(i) <= M => tab[Place(i)] = argv[i]
    BY DEF Kept
  <1>4. \A i \in RingsUpTo(argv, n) : Place(i) \in 1..c
    BY RingPlace
  <1>5. CASE o \notin Rings
    <2>1. next = tab
      BY <1>5 DEF OptionAnchor
    <2>2. RingsUpTo(argv, n + 1) = RingsUpTo(argv, n)
      BY <1>5, RingsNext
    <2> QED BY <2>1, <2>2 DEF Kept
  <1>6. CASE o \in Rings
    <2>1. RingsUpTo(argv, n + 1) = RingsUpTo(argv, n) \cup {n + 1} /\ Place(n + 1) = c + 1
      BY <1>6, RingsNext
    <2> DEFINE R == RingsUpTo(argv, n)
    <2> HIDE DEF c, Place, M, R
    <2>2. ASSUME c < M PROVE Kept(argv, n + 1, next)
      <3>1. next = Append(tab, o) /\ Len(tab) = c
        BY <1>1, <1>2, <1>3, <1>6, <2>2 DEF OptionAnchor, M
      <3> HIDE DEF next, o
      <3>a. /\ Len(Append(tab, o)) = Len(tab) + 1 /\ Append(tab, o)[Len(tab) + 1] = o
            /\ \A k \in 1..Len(tab) : Append(tab, o)[k] = tab[k]
        BY <1>6, PutBehind, Zenon
      <3>2. /\ Len(next) = c + 1 /\ next[c + 1] = o
            /\ \A k \in 1..c : next[k] = tab[k]
        BY <3>1, <3>a, Zenon
      <3>3. Len(next) = IF c + 1 < M THEN c + 1 ELSE M
        BY <1>1, <1>2, <2>2, <3>2
      <3>4. ASSUME NEW i \in R \cup {n + 1}, Place(i) <= M PROVE next[Place(i)] = argv[i]
        <4>1. CASE i = n + 1
          BY <2>1, <3>2, <4>1, Zenon DEF o
        <4>2. CASE i \in R
          BY <1>3, <1>4, <3>2, <3>4, <4>2, Zenon DEF R
        <4> QED BY <4>1, <4>2
      <3> QED BY <2>1, <3>3, <3>4, Zenon DEF Kept, M, Place, R
    <2>3. ASSUME ~(c < M) PROVE Kept(argv, n + 1, next)
      <3>0. Len(tab) = M /\ ~(Len(tab) < M)
        BY <1>1, <1>2, <1>3, <2>3
      <3>1. next = tab
        BY <3>0 DEF OptionAnchor, M
      <3>2. Len(next) = IF c + 1 < M THEN c + 1 ELSE M
        BY <1>1, <1>2, <2>3, <3>0, <3>1
      <3>3. ~(c + 1 <= M)
        BY <1>1, <1>2, <2>3
      <3>4. ASSUME NEW i \in R \cup {n + 1}, Place(i) <= M PROVE next[Place(i)] = argv[i]
        <4>1. i # n + 1
          BY <2>1, <3>3, <3>4, Zenon
        <4> QED BY <1>3, <3>1, <3>4, <4>1, Zenon DEF R
      <3> QED BY <2>1, <3>2, <3>4, Zenon DEF Kept, M, Place, R
    <2> QED BY <2>2, <2>3
  <1> QED BY <1>5, <1>6

(* A consistent verdict over the anchors kept, with the tool's own before  *)
(* them when there was room, speaks for all of these.                      *)
LEMMA VerdictOverAll ==
    ASSUME NEW argv, NEW n \in Nat, NEW tab \in Seq(Rings), Kept(argv, n, tab),
           NEW s \in Rings \cup {"none"}, NEW t, Verdict(WithSelf(tab, s), t) = "consistent"
    PROVE  /\ \A i \in RingsUpTo(argv, n) :
                 Cardinality(RingsUpTo(argv, i)) <= MAX_ANCHORS => argv[i] = "anchor-in"
           /\ Cardinality(RingsUpTo(argv, n)) < MAX_ANCHORS => s # "anchor-out"
  <1> DEFINE c == Cardinality(RingsUpTo(argv, n))
             M == MAX_ANCHORS
             Place(i) == Cardinality(RingsUpTo(argv, i))
             w == WithSelf(tab, s)
  <1>1. M \in Nat \ {0} /\ c \in Nat
    BY GeoToolAssumption, RingsFinite
  <1>2. /\ Len(tab) = IF c < M THEN c ELSE M
        /\ \A i \in RingsUpTo(argv, n) : Place(i) <= M => tab[Place(i)] = argv[i]
    BY DEF Kept
  <1>3. \A i \in RingsUpTo(argv, n) : Place(i) \in 1..c
    BY RingPlace
  <1>4. {i \in 1..Len(w) : w[i] = "anchor-in"} = 1..Len(w)
    BY DEF Verdict
  <1>5. \A k \in 1..Len(w) : w[k] = "anchor-in"
    BY <1>4
  <1>6. w = tab \/ (s \in Rings /\ w = <<s>> \o tab)
    BY DEF WithSelf
  <1>7. Len(tab) < M /\ s # "none" => w = <<s>> \o tab
    BY DEF WithSelf
  <1> HIDE DEF c, M, w, Place
  <1>8. \A k \in 1..Len(tab) : tab[k] = "anchor-in"
    <2>1. CASE w = tab
      BY <1>5, <2>1
    <2>2. CASE s \in Rings /\ w = <<s>> \o tab
      <3> SUFFICES ASSUME NEW k \in 1..Len(tab) PROVE tab[k] = "anchor-in"
        OBVIOUS
      <3>1. k + 1 \in 1..Len(w) /\ w[k + 1] = tab[k]
        BY <2>2, PutBefore
      <3> QED BY <1>5, <3>1
    <2> QED BY <1>6, <2>1, <2>2
  <1>9. ASSUME NEW i \in RingsUpTo(argv, n), Place(i) <= M PROVE argv[i] = "anchor-in"
    <2>1. Place(i) \in 1..Len(tab)
      BY <1>1, <1>2, <1>3, <1>9
    <2> QED BY <1>2, <1>8, <1>9, <2>1
  <1>10. ASSUME c < M PROVE s # "anchor-out"
    <2> SUFFICES ASSUME s = "anchor-out" PROVE FALSE
      OBVIOUS
    <2>1. Len(tab) < M
      BY <1>1, <1>2, <1>10
    <2>2. w = <<s>> \o tab
      BY <1>7, <2>1
    <2>3. s \in Rings
      BY DEF Rings
    <2>4. 1 \in 1..Len(w) /\ w[1] = s
      <3>1. Len(tab) \in Nat /\ Len(w) = Len(tab) + 1 /\ w[1] = s
        BY <2>2, <2>3, PutBefore
      <3> QED BY <3>1
    <2> QED BY <1>5, <2>4
  <1> QED BY <1>9, <1>10 DEF c, M, Place

-----------------------------------------------------------------------------
(* Each step of main keeps these.                                          *)

(* A step that leaves the command line, the position and the anchors       *)
(* alone, and shows nothing.                                               *)
LEMMA LineKept ==
    ASSUME LineInv, UNCHANGED <<cl, args, my, anchors, st>>, tpc' # "shown",
           tpc' \in Before => /\ tpc \in Before
                              /\ tpc' # "parse" => Len(args) = 0
                              /\ tpc' \in {"new", "asking"} => ~HavePosition
    PROVE  LineInv'
  <1>1. At' = At /\ (HavePosition' <=> HavePosition)
    BY DEF At, HavePosition
  <1>2. ArgsInv'
    BY <1>1, Zenon DEF LineInv, ArgsInv
  <1>3. FirstSourceWins' /\ VerdictHonest'
    BY DEF FirstSourceWins, VerdictHonest
  <1>4. SourceInv'
    BY <1>1, <1>3, Zenon DEF LineInv, SourceInv
  <1>5. AnchorInv'
    BY <1>1, <1>3, Zenon DEF LineInv, AnchorInv
  <1> QED BY <1>2, <1>4, <1>5 DEF LineInv

LEMMA LineUntouched ==
    ASSUME LineInv, UNCHANGED toolVars
    PROVE  LineInv'
  <1>1. UNCHANGED <<tpc, cl, args, my, anchors, st, out, self>>
    BY DEF toolVars
  <1>2. At' = At /\ (HavePosition' <=> HavePosition) /\ (OneSource' <=> OneSource)
    BY <1>1 DEF At, HavePosition, OneSource, GaveZero, GaveEcef, GaveCoord, Asked
  <1>3. ArgsInv'
    BY <1>1, <1>2, Zenon DEF LineInv, ArgsInv
  <1>4. FirstSourceWins' <=> FirstSourceWins
    BY <1>1 DEF FirstSourceWins, GaveEcef, GaveCoord, Asked
  <1>5. SourceInv'
    BY <1>1, <1>2, <1>4, Zenon DEF LineInv, SourceInv
  <1>6. AnchorInv'
    BY <1>1, <1>2, Zenon DEF LineInv, AnchorInv, VerdictHonest
  <1> QED BY <1>3, <1>5, <1>6 DEF LineInv

(* A run begins with nothing read.                                         *)
LEMMA LineStart ==
    ASSUME Start
    PROVE  LineInv'
  <1>1. /\ cl' \in Commandlines /\ args' = cl'.argv /\ tpc' = "parse" /\ my' = Nowhere
        /\ st' = "none" /\ anchors' = <<>>
    BY DEF Start
  <1>2. cl'.argv \in Seq(STRING)
    BY <1>1, GeoToolAssumption
  <1>3. At' = 0 /\ Len(args') \in Nat
    BY <1>1, <1>2 DEF At
  <1>4. 1..0 = {}
    OBVIOUS
  <1>5. \A j \in 1..Len(args') : 0 + j = j
    BY <1>3
  <1>6. ArgsInv'
    <2>1. \A j \in 1..Len(args') : args'[j] = cl'.argv[At' + j]
      BY <1>1, <1>3, <1>5, Zenon
    <2>2. Len(args') <= Len(cl'.argv)
      BY <1>1, <1>3
    <2> QED BY <1>1, <1>2, <2>1, <2>2, Zenon DEF ArgsInv
  <1>7. FirstSourceWins' /\ VerdictHonest'
    BY <1>1 DEF FirstSourceWins, VerdictHonest
  <1>8. /\ \A o : ~EcefUpTo(cl'.argv, 0, o) /\ ~HasUpTo(cl'.argv, 0, o)
        /\ RingsUpTo(cl'.argv, 0) = {}
    BY <1>4 DEF EcefUpTo, HasUpTo, RingsUpTo
  <1>9. SourceInv'
    BY <1>1, <1>3, <1>7, <1>8, Zenon DEF SourceInv, Nowhere
  <1>10. Kept(cl'.argv, 0, <<>>)
    <2>1. Len(<<>>) = 0 /\ Cardinality({}) = 0 /\ 0 < MAX_ANCHORS
      BY FS_EmptySet, GeoToolAssumption
    <2> QED BY <1>8, <2>1, Zenon DEF Kept
  <1>11. AnchorInv'
    BY <1>1, <1>3, <1>7, <1>10, Zenon DEF AnchorInv
  <1> QED BY <1>6, <1>9, <1>11 DEF LineInv

(* One more argument is read.                                              *)
LEMMA LineParse ==
    ASSUME GeoInv, LineInv, ParseArg
    PROVE  LineInv'
  <1> DEFINE argv == cl.argv
             n == At
             o == Head(args)
  <1>1. /\ tpc = "parse" /\ args # <<>> /\ args' = Tail(args) /\ cl' = cl /\ st' = st
        /\ my' = OptionMy(my, o) /\ tpc' \in {"parse", "idle"}
        /\ cl.tool = "baudit" => anchors' = OptionAnchor(anchors, o)
    BY DEF ParseArg
  <1>2. /\ argv \in Seq(STRING) /\ args \in Seq(STRING) /\ Len(args) <= Len(argv)
        /\ \A j \in 1..Len(args) : args[j] = argv[n + j]
    BY <1>1 DEF LineInv, ArgsInv, Before
  <1>3. Len(args) \in Nat /\ Len(argv) \in Nat /\ Len(args) > 0
    BY <1>1, <1>2, EmptySeq
  <1>4. /\ args' \in Seq(STRING) /\ Len(args') = Len(args) - 1
        /\ \A j \in 1..Len(args') : args'[j] = args[j + 1]
        /\ o = args[1]
    BY <1>1, <1>2, HeadTailProperties
  <1>5. n \in Nat /\ At' = n + 1
    <2>1. At' = Len(argv) - Len(args') /\ n = Len(argv) - Len(args)
      BY <1>1 DEF At
    <2> HIDE DEF n, argv
    <2> QED BY <1>2, <1>3, <1>4, <2>1
  <1> HIDE DEF n, argv
  <1>6. o = argv[n + 1]
    BY <1>2, <1>3, <1>4
  <1> HIDE DEF o
  <1>7. ASSUME tpc' \in Before PROVE tpc' = "parse"
    BY <1>1, <1>7 DEF Before
  <1>8. FirstSourceWins' /\ VerdictHonest'
    BY <1>1 DEF FirstSourceWins, VerdictHonest
  <1>9. ArgsInv'
    <2>1. ASSUME NEW j \in 1..Len(args') PROVE args'[j] = argv[(n + 1) + j]
      <3>1. j + 1 \in 1..Len(args) /\ n + (j + 1) = (n + 1) + j
        BY <1>3, <1>4, <1>5
      <3> QED BY <1>2, <1>4, <3>1
    <2>2. Len(args') <= Len(argv)
      BY <1>2, <1>3, <1>4
    <2> QED BY <1>1, <1>2, <1>4, <1>5, <1>7, <2>1, <2>2, Zenon DEF ArgsInv, argv
  <1>10. SourceInv'
    <2>1. /\ st = "none" /\ my \in Positions
          /\ my.ecef = "ecef" <=> EcefUpTo(argv, n, "--my-ecef")
          /\ my.from = "coord" <=> HasUpTo(argv, n, "--my-coord")
          /\ my.ecef = "zero" => EcefUpTo(argv, n, "--my-ecef=0,0,0")
      BY <1>1 DEF GeoInv, ToolTypeOK, MyInv, LineInv, SourceInv, Before, argv, n
    <2>2. /\ my'.ecef = IF o = "--my-ecef" THEN "ecef" ELSE IF o = "--my-ecef=0,0,0" THEN "zero"
                        ELSE IF o = "--my-ecef=bad" THEN "none" ELSE my.ecef
          /\ my'.from = IF o = "--my-coord" THEN "coord" ELSE my.from
      BY <1>1, <2>1, OptionSource
    <2>3. \A x : EcefUpTo(argv, n + 1, x) <=>
                   o = x \/ (EcefUpTo(argv, n, x) /\ o \notin EcefOptions \ {x})
      BY <1>5, <1>6, EcefNext
    <2>4. \A x : HasUpTo(argv, n + 1, x) <=> HasUpTo(argv, n, x) \/ o = x
      BY <1>5, <1>6, HasNext
    <2>5. my'.ecef = "ecef" <=> EcefUpTo(argv, n + 1, "--my-ecef")
      BY <2>1, <2>2, <2>3 DEF EcefOptions
    <2>6. my'.from = "coord" <=> HasUpTo(argv, n + 1, "--my-coord")
      BY <2>1, <2>2, <2>4
    <2>7. my'.ecef = "zero" => EcefUpTo(argv, n + 1, "--my-ecef=0,0,0")
      BY <2>1, <2>2, <2>3 DEF EcefOptions
    <2> QED BY <1>1, <1>5, <1>7, <1>8, <2>1, <2>5, <2>6, <2>7, Zenon DEF SourceInv, argv
  <1>11. AnchorInv'
    <2>1. anchors \in Seq(Rings)
      BY DEF GeoInv, ToolTypeOK
    <2>2. cl.tool = "baudit" => Kept(argv, n, anchors)
      BY <1>1 DEF LineInv, AnchorInv, Before, argv, n
    <2>3. cl.tool = "baudit" => Kept(argv, n + 1, anchors')
      BY <1>1, <1>5, <1>6, <2>1, <2>2, KeptNext
    <2> QED BY <1>1, <1>5, <1>8, <2>3, Zenon DEF AnchorInv, argv
  <1> QED BY <1>9, <1>10, <1>11 DEF LineInv

(* The steps that only move main on, and the glue up to its question.      *)
LEMMA LineMoves ==
    ASSUME GeoInv, LineInv,
           \/ ResetPinAndExit \/ ParseEnd \/ GlueSkips \/ Probe \/ Exit
           \/ GlueNew \/ GlueAsks \/ ToolDies
    PROVE  LineInv'
  <1>1. UNCHANGED <<cl, args, my, anchors, st>>
    BY DEF ResetPinAndExit, ParseEnd, GlueSkips, Probe, Exit, GlueNew, GlueAsks, ToolDies
  <1>2. CASE tpc' = "idle"
    BY <1>1, <1>2, LineKept DEF Before
  <1>3. CASE tpc' # "idle"
    <2>1. \/ tpc = "parse" /\ tpc' = "glue" /\ args = <<>>
          \/ tpc = "glue" /\ tpc' \in {"probe", "locate"}
          \/ tpc = "probe" /\ tpc' = "locate"
          \/ tpc = "glue" /\ tpc' = "new" /\ ~HavePosition
          \/ tpc = "new" /\ tpc' = "asking"
      BY <1>3 DEF ResetPinAndExit, ParseEnd, GlueSkips, Probe, Exit, GlueNew, GlueAsks, ToolDies, AfterGlue
    <2>2. tpc \in Before /\ tpc' # "shown" /\ tpc' # "parse"
      BY <2>1 DEF Before
    <2>3. Len(args) = 0
      BY <2>1 DEF LineInv, ArgsInv, Before
    <2>4. tpc' \in {"new", "asking"} => ~HavePosition
      BY <2>1 DEF LineInv, SourceInv, Before
    <2> QED BY <1>1, <2>2, <2>3, <2>4, LineKept
  <1> QED BY <1>2, <1>3

(* bl_geo_get returned: it was asked because nothing else was given.       *)
LEMMA LineReturns ==
    ASSUME GeoInv, LineInv, GlueReturns
    PROVE  LineInv'
  <1>1. /\ tpc = "asking" /\ tpc' \in {"probe", "locate"} /\ st' = result
        /\ UNCHANGED <<cl, args, anchors>>
        /\ my' = my \/ (result = "BL_OK" /\ \E w, b \in BOOLEAN : my' = FromBridge(w, b))
        /\ result # "BL_OK" => my' = my
    BY DEF GlueReturns, AfterGlue
  <1>2. /\ st = "none" /\ my \in Positions /\ tpc \in Before /\ tpc' \in Before
        /\ tpc' # "parse" /\ tpc' # "shown" /\ tpc' \notin {"new", "asking"}
    BY <1>1 DEF GeoInv, ToolTypeOK, MyInv, Before
  <1>3. my.ecef = "none" /\ my.from = "none"
    BY <1>1 DEF LineInv, SourceInv, Before, HavePosition
  <1>4. /\ ~EcefUpTo(cl.argv, At, "--my-ecef") /\ ~HasUpTo(cl.argv, At, "--my-coord")
    BY <1>2, <1>3 DEF LineInv, SourceInv
  <1>5. my'.ecef \in {"none", "bridge"}
    <2>1. CASE my' = my
      BY <1>3, <2>1
    <2>2. CASE \E w, b \in BOOLEAN : my' = FromBridge(w, b)
      <3>1. PICK w \in BOOLEAN, b \in BOOLEAN : my' = FromBridge(w, b)
        BY <2>2
      <3>2. my'.ecef = IF b THEN "bridge" ELSE my.ecef
        BY <1>2, <3>1 DEF FromBridge, Positions
      <3> QED BY <1>3, <3>2
    <2> QED BY <1>1, <2>1, <2>2
  <1>6. At' = At
    BY <1>1 DEF At
  <1>7. FirstSourceWins' /\ VerdictHonest'
    BY <1>2 DEF FirstSourceWins, VerdictHonest
  <1>8. ArgsInv'
    <2>1. tpc # "parse"
      BY <1>1
    <2> QED BY <1>1, <1>2, <1>6, <2>1, Zenon DEF LineInv, ArgsInv
  <1>9. SourceInv'
    <2>1. st' # "BL_OK" => my' = my
      BY <1>1
    <2>2. st' # "BL_OK" => /\ my'.ecef = "ecef" <=> EcefUpTo(cl'.argv, At', "--my-ecef")
                           /\ my'.from = "coord" <=> HasUpTo(cl'.argv, At', "--my-coord")
                           /\ my'.ecef = "zero" => EcefUpTo(cl'.argv, At', "--my-ecef=0,0,0")
      BY <1>1, <1>3, <1>4, <1>6, <2>1
    <2>3. ~EcefUpTo(cl'.argv, At', "--my-ecef") /\ ~HasUpTo(cl'.argv, At', "--my-coord")
      BY <1>1, <1>4, <1>6
    <2> QED BY <1>2, <1>5, <1>7, <2>2, <2>3, Zenon DEF SourceInv
  <1>10. AnchorInv'
    BY <1>1, <1>2, <1>6, <1>7, Zenon DEF LineInv, AnchorInv
  <1> QED BY <1>8, <1>9, <1>10 DEF LineInv

(* A tool finds itself: the first source that gave a position is used.     *)
LEMMA SourceShown ==
    ASSUME GeoInv, LineInv, LocateBping \/ LocateBtraceroute \/ LocateBmtr \/ LocateBaudit
    PROVE  OneSource' => FirstSourceWins'
  <1>1. /\ tpc = "locate" /\ tpc \in Before /\ cl' = cl /\ st' = st
        /\ \E ok \in BOOLEAN : my' = bl_glue_annotate_tag(Fallback(my, ok))
    BY DEF LocateBping, LocateBtraceroute, LocateBmtr, LocateBaudit, Before
  <1>2. out' = "chord" => my'.ecef # "none"
    BY DEF LocateBping, LocateBtraceroute, LocateBmtr, LocateBaudit, Stats, SrcLine, Verdict
  <1>3. PICK ok \in BOOLEAN : my' = bl_glue_annotate_tag(Fallback(my, ok))
    BY <1>1
  <1>4. /\ my \in Positions /\ reason \in Slugs
        /\ IF st = "BL_OK" THEN ByBridge(my) ELSE Given(my)
    BY <1>1 DEF GeoInv, ToolTypeOK, MyInv
  <1> DEFINE f == Fallback(my, ok)
  <1>5. /\ f \in Positions /\ f.ecef = my.ecef
        /\ my.from # "none" => f = my
        /\ my.from = "none" /\ my.ecef = "none" => f.from \in {"geoIP", "none"}
        /\ my.from = "none" /\ my.ecef \notin {"none", "zero"} => f.from = my.ecef
    BY <1>4, FallbackParts
  <1> HIDE DEF f
  <1>6. my'.ecef = f.ecef /\ my'.from = f.from
    BY <1>3, <1>4, <1>5, AnnotateParts DEF f
  <1>7. At = Len(cl.argv)
    <2>1. Len(args) = 0 /\ cl.argv \in Seq(STRING)
      BY <1>1 DEF LineInv, ArgsInv
    <2> QED BY <2>1 DEF At
  <1>8. /\ EcefUpTo(cl.argv, At, "--my-ecef") <=> GaveEcef
        /\ HasUpTo(cl.argv, At, "--my-coord") <=> GaveCoord
        /\ EcefUpTo(cl.argv, At, "--my-ecef=0,0,0") <=> GaveZero
    BY <1>7 DEF EcefUpTo, EcefOptions, HasUpTo, GaveEcef, GaveCoord, GaveZero, Asked
  <1>9. /\ st # "BL_OK" => /\ my.ecef = "ecef" <=> GaveEcef
                           /\ my.from = "coord" <=> GaveCoord
                           /\ my.ecef = "zero" => GaveZero
        /\ st = "BL_OK" => my.ecef \in {"none", "bridge"}
        /\ st # "none" => ~GaveEcef /\ ~GaveCoord
    BY <1>1, <1>8, Zenon DEF LineInv, SourceInv
  <1>10. my.ecef \in {"none", "ecef", "zero", "bridge"}
    BY <1>4, PositionParts DEF Ecefs
  <1> DEFINE first == IF GaveEcef THEN "ecef"
                      ELSE IF GaveCoord THEN "coord"
                      ELSE IF st = "BL_OK" THEN "bridge" ELSE "geoIP"
  <1>11. ASSUME OneSource
         PROVE  /\ my'.from = first \/ (first = "geoIP" /\ my'.from = "none")
                /\ GaveEcef \/ GaveCoord => st = "none"
                /\ my'.ecef # "none" => my'.ecef = first
    <2>1. ~GaveZero /\ ~(GaveEcef /\ GaveCoord)
      BY <1>11 DEF OneSource
    <2>2. CASE st = "BL_OK"
      BY <1>4, <1>5, <1>6, <1>9, <2>2 DEF ByBridge
    <2>3. CASE st # "BL_OK"
      BY <1>4, <1>5, <1>6, <1>9, <1>10, <2>1, <2>3 DEF Given
    <2> QED BY <2>2, <2>3
  <1>12. (GaveEcef' <=> GaveEcef) /\ (GaveCoord' <=> GaveCoord) /\ (OneSource' <=> OneSource)
    BY <1>1 DEF OneSource, GaveZero, GaveEcef, GaveCoord, Asked
  <1> HIDE DEF first
  <1>13. first = IF GaveEcef' THEN "ecef"
                 ELSE IF GaveCoord' THEN "coord"
                 ELSE IF st' = "BL_OK" THEN "bridge" ELSE "geoIP"
    BY <1>1, <1>12 DEF first
  <1> QED BY <1>1, <1>2, <1>11, <1>12, <1>13 DEF FirstSourceWins

(* The verdict is over the anchors kept and baudit's own measurement.      *)
LEMMA VerdictShown ==
    ASSUME GeoInv, LineInv, LocateBping \/ LocateBtraceroute \/ LocateBmtr \/ LocateBaudit
    PROVE  VerdictHonest'
  <1>1. tpc = "locate" /\ tpc \in Before /\ cl' = cl
    BY DEF LocateBping, LocateBtraceroute, LocateBmtr, LocateBaudit, Before
  <1> SUFFICES ASSUME cl.tool = "baudit", out' = "consistent" PROVE VerdictHonest'
    BY <1>1 DEF VerdictHonest
  <1>2. LocateBaudit
    BY DEF LocateBping, LocateBtraceroute, LocateBmtr
  <1>3. self' \in Rings \cup {"none"} /\ Verdict(WithSelf(anchors, self'), tgt') = "consistent"
    BY <1>2 DEF LocateBaudit
  <1>4. Len(args) = 0 /\ cl.argv \in Seq(STRING)
    BY <1>1 DEF LineInv, ArgsInv
  <1>5. At = Len(cl.argv) /\ Len(cl.argv) \in Nat
    BY <1>4 DEF At
  <1>6. Kept(cl.argv, Len(cl.argv), anchors) /\ anchors \in Seq(Rings)
    BY <1>1, <1>5 DEF LineInv, AnchorInv, GeoInv, ToolTypeOK
  <1>7. /\ \A i \in RingsUpTo(cl.argv, Len(cl.argv)) :
              Cardinality(RingsUpTo(cl.argv, i)) <= MAX_ANCHORS => cl.argv[i] = "anchor-in"
        /\ Cardinality(RingsUpTo(cl.argv, Len(cl.argv))) < MAX_ANCHORS => self' # "anchor-out"
    BY <1>3, <1>5, <1>6, VerdictOverAll
  <1> QED BY <1>1, <1>7 DEF VerdictHonest

LEMMA LineLocates ==
    ASSUME GeoInv, LineInv, LocateBping \/ LocateBtraceroute \/ LocateBmtr \/ LocateBaudit
    PROVE  LineInv'
  <1>1. tpc' = "shown"
    BY DEF LocateBping, LocateBtraceroute, LocateBmtr, LocateBaudit
  <1>2. tpc' \notin Before
    BY <1>1 DEF Before
  <1> QED BY <1>2, SourceShown, VerdictShown DEF LineInv, ArgsInv, SourceInv, AnchorInv

LEMMA LineInit == ToolInit => LineInv
  <1> SUFFICES ASSUME ToolInit PROVE LineInv
    OBVIOUS
  <1>1. tpc \notin Before /\ tpc # "shown"
    BY DEF ToolInit, Before
  <1> QED BY <1>1 DEF LineInv, ArgsInv, SourceInv, AnchorInv, FirstSourceWins, VerdictHonest

LEMMA LineNext == GeoInv /\ LineInv /\ [ToolNext]_allVars => LineInv'
  <1> SUFFICES ASSUME GeoInv, LineInv, [ToolNext]_allVars PROVE LineInv'
    OBVIOUS
  <1>1. CASE Start
    BY <1>1, LineStart
  <1>2. CASE \/ ResetPinAndExit \/ ParseEnd \/ GlueSkips \/ Probe \/ Exit
             \/ GlueNew \/ GlueAsks \/ ToolDies
    BY <1>2, LineMoves
  <1>3. CASE ParseArg
    BY <1>3, LineParse
  <1>4. CASE GlueReturns
    BY <1>4, LineReturns
  <1>5. CASE LocateBping \/ LocateBtraceroute \/ LocateBmtr \/ LocateBaudit
    BY <1>5, LineLocates
  <1>6. CASE UNCHANGED toolVars
    BY <1>6, LineUntouched
  <1>7. CASE UNCHANGED allVars
    BY <1>6, <1>7 DEF allVars
  <1> QED BY <1>1, <1>2, <1>3, <1>4, <1>5, <1>6, <1>7 DEF ToolNext, ToolStep

LEMMA LineInvariance == ToolSpec => []LineInv
  BY GeoInvariance, LineInit, LineNext, PTL DEF ToolSpec

(* Unless the command line gives an ECEF position and a coordinate         *)
(* together, or the zero vector, the position used is that of the first    *)
(* source that gave one, whatever the bridge does meanwhile.               *)
THEOREM FirstSourceUsed == ToolSpec => [](OneSource => FirstSourceWins)
  <1>1. LineInv => (OneSource => FirstSourceWins)
    BY DEF LineInv, SourceInv
  <1> QED BY <1>1, LineInvariance, PTL

(* However many anchors are given, and whatever the table holds, baudit's  *)
(* "consistent" is contradicted by none of those it had room for, nor by   *)
(* its own measurement.                                                    *)
THEOREM VerdictsHonest == ToolSpec => []VerdictHonest
  <1>1. LineInv => VerdictHonest
    BY DEF LineInv, AnchorInv
  <1> QED BY <1>1, LineInvariance, PTL

-----------------------------------------------------------------------------
(* A run comes to its end.                                                 *)

(* What is left at each place.                                             *)
LEMMA LeftAt ==
    ASSUME TypeOK, ArgsInv
    PROVE  /\ CallLeft \in 0..8
           /\ tpc = "parse" => RunLeft = Len(args) + 15 /\ Len(args) \in Nat
           /\ tpc = "glue" => RunLeft = 14
           /\ tpc = "new" => RunLeft = 13
           /\ tpc = "asking" => RunLeft = CallLeft + 4
           /\ tpc = "probe" => RunLeft = 3
           /\ tpc = "locate" => RunLeft = 2
           /\ tpc = "shown" => RunLeft = 1
           /\ tpc = "idle" => RunLeft = 0
  <1>1. CallLeft \in 0..8
    BY CallLeftType
  <1>2. tpc = "parse" => Len(args) \in Nat
    BY DEF ArgsInv, Before
  <1> QED BY <1>1, <1>2 DEF RunLeft

(* A call leaves less of the run than there was before it, and each of its *)
(* steps less again.                                                       *)
LEMMA AskingFalls ==
    ASSUME NEW r, NEW t, NEW c \in 0..8, NEW d \in 0..8, r = d + 4,
           t = 13 \/ (t = c + 4 /\ d \in 0..(c - 1))
    PROVE  r \in 0..(t - 1)
  OBVIOUS

(* Each step of the tool or of its client brings the end nearer.           *)
LEMMA RunFalls ==
    ASSUME GeoInv, GeoInv', ArgsInv, ArgsInv', ToolStep
    PROVE  RunLeft' \in 0..(RunLeft - 1)
  <1>1. TypeOK /\ TypeOK' /\ AskInv
    BY DEF GeoInv, IInv
  <1>2. /\ CallLeft \in 0..8
        /\ tpc = "parse" => RunLeft = Len(args) + 15 /\ Len(args) \in Nat
        /\ tpc = "glue" => RunLeft = 14
        /\ tpc = "new" => RunLeft = 13
        /\ tpc = "asking" => RunLeft = CallLeft + 4
        /\ tpc = "probe" => RunLeft = 3
        /\ tpc = "locate" => RunLeft = 2
        /\ tpc = "shown" => RunLeft = 1
    BY <1>1, LeftAt, Zenon
  <1>3. /\ CallLeft' \in 0..8
        /\ tpc' = "parse" => RunLeft' = Len(args') + 15 /\ Len(args') \in Nat
        /\ tpc' = "glue" => RunLeft' = 14
        /\ tpc' = "new" => RunLeft' = 13
        /\ tpc' = "asking" => RunLeft' = CallLeft' + 4
        /\ tpc' = "probe" => RunLeft' = 3
        /\ tpc' = "locate" => RunLeft' = 2
        /\ tpc' = "shown" => RunLeft' = 1
        /\ tpc' = "idle" => RunLeft' = 0
    <2>1. (TypeOK /\ ArgsInv =>
           /\ CallLeft \in 0..8
           /\ tpc = "parse" => RunLeft = Len(args) + 15 /\ Len(args) \in Nat
           /\ tpc = "glue" => RunLeft = 14
           /\ tpc = "new" => RunLeft = 13
           /\ tpc = "asking" => RunLeft = CallLeft + 4
           /\ tpc = "probe" => RunLeft = 3
           /\ tpc = "locate" => RunLeft = 2
           /\ tpc = "shown" => RunLeft = 1
           /\ tpc = "idle" => RunLeft = 0)'
      BY LeftAt, PTL
    <2> QED BY <1>1, <2>1, Zenon
  <1>4. CASE ResetPinAndExit
    <2>1. tpc = "parse" /\ tpc' = "idle"
      BY <1>4 DEF ResetPinAndExit
    <2> QED BY <1>2, <1>3, <2>1
  <1>5. CASE ParseArg
    <2>1. /\ tpc = "parse" /\ args # <<>> /\ args' = Tail(args)
          /\ tpc' = "idle" \/ tpc' = "parse"
      BY <1>5 DEF ParseArg
    <2>2. args \in Seq(STRING)
      BY <2>1 DEF ArgsInv, Before
    <2>3. Len(args') = Len(args) - 1
      BY <2>1, <2>2
    <2> QED BY <1>2, <1>3, <2>1, <2>3
  <1>6. CASE ParseEnd
    <2>1. tpc = "parse" /\ tpc' \in {"glue", "idle"}
      BY <1>6 DEF ParseEnd
    <2> QED BY <1>2, <1>3, <2>1
  <1>7. CASE GlueSkips \/ GlueNew
    <2>1. tpc = "glue" /\ tpc' \in {"new", "probe", "locate"}
      BY <1>7 DEF GlueSkips, GlueNew, AfterGlue
    <2> QED BY <1>2, <1>3, <2>1
  <1>8. CASE GlueAsks
    <2>1. tpc = "new" /\ tpc' = "asking"
      BY <1>8 DEF GlueAsks
    <2>2. /\ RunLeft = 13 /\ CallLeft \in 0..8
          /\ RunLeft' = CallLeft' + 4 /\ CallLeft' \in 0..8
      BY <1>2, <1>3, <2>1, Zenon
    <2> QED BY <2>2, AskingFalls, Zenon
  <1>9. CASE GlueReturns \/ ToolDies
    <2>1. tpc = "asking" /\ tpc' \in {"probe", "locate", "idle"}
      BY <1>9 DEF GlueReturns, ToolDies, AfterGlue
    <2> QED BY <1>2, <1>3, <2>1
  <1>10. CASE Probe
    <2>1. tpc = "probe" /\ tpc' \in {"locate", "idle"}
      BY <1>10 DEF Probe
    <2> QED BY <1>2, <1>3, <2>1
  <1>11. CASE LocateBping \/ LocateBtraceroute \/ LocateBmtr \/ LocateBaudit
    <2>1. tpc = "locate" /\ tpc' = "shown"
      BY <1>11 DEF LocateBping, LocateBtraceroute, LocateBmtr, LocateBaudit
    <2> QED BY <1>2, <1>3, <2>1
  <1>12. CASE Exit
    <2>1. tpc = "shown" /\ tpc' = "idle"
      BY <1>12 DEF Exit
    <2> QED BY <1>2, <1>3, <2>1
  <1>13. CASE ClientStep /\ UNCHANGED toolVars
    <2>1. pc \in {"send", "wait"} /\ CallLeft' \in 0..(CallLeft - 1)
      BY <1>1, <1>13, CallFalls, Zenon
    <2>2. tpc = "asking" /\ tpc' = "asking"
      BY <1>1, <1>13, <2>1 DEF AskInv, toolVars
    <2>3. /\ RunLeft = CallLeft + 4 /\ CallLeft \in 0..8
          /\ RunLeft' = CallLeft' + 4 /\ CallLeft' \in 0..8
      BY <1>2, <1>3, <2>2, Zenon
    <2> QED BY <2>1, <2>3, AskingFalls, Zenon
  <1> QED
    BY <1>4, <1>5, <1>6, <1>7, <1>8, <1>9, <1>10, <1>11, <1>12, <1>13, Zenon DEF ToolStep

(* Only the user makes a run longer, by starting one.                      *)
LEMMA RunGrows ==
    ASSUME GeoInv, GeoInv', ArgsInv, ArgsInv', ToolNext, RunLeft' > RunLeft
    PROVE  Start /\ RunLeft' = Len(cl'.argv) + 15
  <1>1. TypeOK /\ TypeOK' /\ ToolTypeOK
    BY DEF GeoInv, IInv
  <1>2. RunLeft \in Nat
    <2>1. tpc \in Places
      BY <1>1 DEF ToolTypeOK
    <2> QED BY <1>1, <2>1, LeftAt DEF Places
  <1>3. CASE Start
    <2>1. tpc' = "parse" /\ args' = cl'.argv
      BY <1>3 DEF Start
    <2>2. (TypeOK /\ ArgsInv => (tpc = "parse" => RunLeft = Len(args) + 15))'
      BY LeftAt, PTL
    <2> QED BY <1>1, <1>3, <2>1, <2>2, Zenon
  <1>4. CASE ToolStep
    <2>1. RunLeft' \in 0..(RunLeft - 1)
      BY <1>4, RunFalls, Zenon
    <2> QED BY <1>2, <2>1
  <1>5. CASE (BridgeStep \/ ResetPin) /\ UNCHANGED toolVars
    <2>1. UNCHANGED <<pc, cmd, tpc, args>>
      BY <1>5 DEF BridgeStep, ResetPin, BridgeAnswers, SessionExpires, BridgeStops, BridgeStarts,
                  BridgeRekeys, clientVars, toolVars
    <2>2. RunLeft' = RunLeft
      BY <2>1 DEF RunLeft, CallLeft, Turn
    <2> QED BY <1>2, <2>2
  <1> QED BY <1>3, <1>4, <1>5, Zenon DEF ToolNext

(* A run of a geo tool takes at most one step for each argument and        *)
(* fifteen more, the exchanges of bl_geo_get with the bridge included,     *)
(* whatever the bridge and the user do between those steps.                *)
THEOREM RunsShrink == ToolSpec => RunShrinks
  <1>1. /\ GeoInv /\ GeoInv' /\ ArgsInv /\ ArgsInv' /\ [ToolNext]_allVars
        => [/\ ToolStep => RunLeft' \in 0..(RunLeft - 1)
            /\ RunLeft' > RunLeft => Start /\ RunLeft' = Len(cl'.argv) + 15]_allVars
    BY RunFalls, RunGrows, Zenon
  <1> QED BY <1>1, GeoInvariance, LineInvariance, PTL DEF LineInv, ToolSpec, RunShrinks
=============================================================================
