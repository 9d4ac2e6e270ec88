------------------------------ MODULE GeoTool ------------------------------
(***************************************************************************)
(* Where a b* tool (bping, btraceroute, bmtr, baudit) says it is: the      *)
(* command line, the BrightNexus bridge through brightlink_glue.h, geoIP,  *)
(* and what the tool prints from it.  One program is run again and again   *)
(* over one pin file; each run is the libBrightLink client of BrightLink   *)
(* with bl_glue_get_geo as its caller, so the bridge may stop, restart,    *)
(* change its identity or refuse between any two steps of a run.           *)
(*                                                                         *)
(* A position is abstracted to where it came from, an --anchor to whether  *)
(* its ring contains the target.                                           *)
(***************************************************************************)
EXTENDS BrightLink, FiniteSets

CONSTANTS
    Commandlines,     \* the command lines run: records [tool, argv]
    MAX_ANCHORS,      \* room in baudit's anchors[]
    MaxRuns           \* bound on the runs of the tool

ASSUME GeoToolAssumption ==
    /\ MAX_ANCHORS \in Nat \ {0}
    /\ MaxRuns \in 0..MaxCalls
    /\ \A c \in Commandlines : c.argv \in Seq(STRING)

VARIABLES
    tpc,              \* where main is (see Places)
    cl,               \* the command line of this run
    args,             \* the arguments main has still to look at
    dest,             \* was a destination given?
    my,               \* have_my_ecef, my_ecef, my_geo (see Positions)
    tgt,              \* the same of the target
    reason,           \* bl_glue_reason_buf, "" when nothing is recorded
    anchors,          \* baudit's anchors[]
    out,              \* what the run printed last
    nruns,            \* runs started
    st,               \* history: what bl_geo_get returned in this run, "none" before
    pinRead,          \* history: the pin this run's registration started from
    posKey,           \* history: the session key behind the bridge's position, or NoKey
    self              \* history: the ring baudit measured itself, "none" without one

toolVars == <<tpc, cl, args, dest, my, tgt, reason, anchors, out, nruns, st, pinRead, posKey, self>>
allVars == <<vars, toolVars>>

Tools == {"bping", "btraceroute", "bmtr", "baudit"}
Places == {"idle", "parse", "glue", "new", "asking", "probe", "locate", "shown"}
Rings == {"anchor-in", "anchor-out"}
Ecefs == {"none", "ecef", "zero", "bridge"}
Sources == {"none", "ecef", "coord", "bridge", "geoIP"}
Slugs == {"", "pin-mismatch", "crypto", "proto", "refused", "denied"}
Bases == {"", "[ecef]", "[coord]", "[brightlink]", "[brightlink:ecef]", "[~geoIP]"}
Outputs == {"nothing", "chord", "geo", "src", "no anchors", "consistent", "inconsistent", "unjudged"}

\* ecef is "none" when have_..._ecef is 0, from is "none" when geo.valid is 0.
Positions == [ecef : Ecefs, from : Sources, base : Bases, slug : Slugs]
Nowhere == [ecef |-> "none", from |-> "none", base |-> "", slug |-> ""]

(* The tool's types; baudit never writes past anchors[].                   *)
ToolTypeOK ==
    /\ TypeOK
    /\ tpc \in Places
    /\ cl \in Commandlines
    /\ dest \in BOOLEAN
    /\ my \in Positions
    /\ tgt \in Positions
    /\ reason \in Slugs
    /\ anchors \in Seq(Rings) /\ Len(anchors) <= MAX_ANCHORS
    /\ out \in Outputs
    /\ nruns \in 0..MaxRuns
    /\ st \in Status \cup {"none"}
    /\ pinRead \in Keys \cup {NoKey}
    /\ posKey \in Keys \cup {NoKey}
    /\ self \in Rings \cup {"none"}

ToolInit ==
    /\ Init
    /\ tpc = "idle"
    /\ cl \in Commandlines
    /\ args = <<>>
    /\ dest = FALSE
    /\ my = Nowhere /\ tgt = Nowhere
    /\ reason = ""
    /\ anchors = <<>>
    /\ out = "nothing"
    /\ nruns = 0
    /\ st = "none"
    /\ pinRead = NoKey /\ posKey = NoKey
    /\ self = "none"

-----------------------------------------------------------------------------
(* main up to the bridge.                                                  *)

\* The tool is started with one of the command lines; main zeroes its locals.
Start ==
    /\ tpc = "idle" /\ nruns < MaxRuns
    /\ \E c \in Commandlines : c.tool = cl.tool /\ cl' = c /\ args' = c.argv
    /\ tpc' = "parse"
    /\ dest' = FALSE
    /\ my' = Nowhere /\ tgt' = Nowhere
    /\ reason' = ""
    /\ anchors' = <<>>
    /\ out' = "nothing"
    /\ nruns' = nruns + 1
    /\ st' = "none"
    /\ pinRead' = NoKey /\ posKey' = NoKey
    /\ self' = "none"
    /\ UNCHANGED vars

Asked(o) == \E i \in 1..Len(cl.argv) : cl.argv[i] = o

\* bl_glue_handle_global_args, before anything is parsed: remove the pin file
\* (which may fail) and exit.
ResetPinAndExit ==
    /\ tpc = "parse" /\ args = cl.argv
    /\ Asked("--reset-brightlink-pin")
    /\ store' \in {NoKey, store}
    /\ tpc' = "idle"
    /\ UNCHANGED <<pc, cmd, call, session, pin, sepPub, lastError, result, ncalls, expired,
                   wireVars, bridgeVars>>
    /\ UNCHANGED <<cl, args, dest, my, tgt, reason, anchors, out, nruns, st, pinRead, posKey, self>>

\* What one argument does to my_ecef and my_geo.  A later --my-ecef decides,
\* even one that does not parse; a --my-coord that does not parse is ignored.
OptionMy(m, o) ==
    CASE o = "--my-ecef" -> [m EXCEPT !.ecef = "ecef"]
      [] o = "--my-ecef=0,0,0" -> [m EXCEPT !.ecef = "zero"]
      [] o = "--my-ecef=bad" -> [m EXCEPT !.ecef = "none"]
      [] o = "--my-coord" -> [m EXCEPT !.from = "coord", !.base = "[coord]"]
      [] OTHER -> m

\* The same for the target; only bping has these options.
OptionTgt(t, o) ==
    CASE o = "--target-ecef" -> [t EXCEPT !.ecef = "ecef"]
      [] o = "--target-coord" -> [t EXCEPT !.from = "coord", !.base = "[coord]"]
      [] OTHER -> t

\* Faulty variant: the test for room counts one place too many.
OptionAnchorOverrun(as, o) ==
    IF o \in Rings /\ Len(as) <= MAX_ANCHORS THEN Append(as, o) ELSE as

\* An --anchor is taken while there is room, and dropped without a word after.
OptionAnchor(as, o) ==
    IF o \in Rings /\ Len(as) < MAX_ANCHORS THEN Append(as, o) ELSE as

\* The body of main's loop over argv.
ParseArg ==
    /\ tpc = "parse" /\ args # <<>>
    /\ ~Asked("--reset-brightlink-pin")
    /\ args' = Tail(args)
    /\ my' = OptionMy(my, Head(args))
    /\ tgt' = IF cl.tool = "bping" THEN OptionTgt(tgt, Head(args)) ELSE tgt
    /\ anchors' = IF cl.tool = "baudit" THEN OptionAnchor(anchors, Head(args)) ELSE anchors
    /\ dest' = (dest \/ Head(args) = "dest")
    /\ tpc' = IF Head(args) = "--help" THEN "idle" ELSE "parse"
    /\ UNCHANGED <<vars, cl, reason, out, nruns, st, pinRead, posKey, self>>

\* The loop ends; without a destination usage() exits.
ParseEnd ==
    /\ tpc = "parse" /\ args = <<>> /\ ~Asked("--reset-brightlink-pin")
    /\ tpc' = IF dest THEN "glue" ELSE "idle"
    /\ UNCHANGED <<vars, cl, args, dest, my, tgt, reason, anchors, out, nruns, st, pinRead,
                   posKey, self>>

-----------------------------------------------------------------------------
(* bl_glue_get_geo.                                                        *)

\* bping pings the destination before it looks for itself.
AfterGlue == IF cl.tool = "bping" THEN "probe" ELSE "locate"

\* Faulty variant: an ECEF position from the command line does not stop the glue.
HavePositionGeoOnly == my.from # "none"

\* The command line gave a position.
HavePosition == my.ecef # "none" \/ my.from # "none"

\* It returns without asking: a position is there, or there is no home
\* directory, no pin directory, no pin store or no memory for a client.
GlueSkips ==
    /\ tpc = "glue"
    /\ tpc' = AfterGlue
    /\ UNCHANGED <<vars, cl, args, dest, my, tgt, reason, anchors, out, nruns, st, pinRead,
                   posKey, self>>

\* bl_pin_store_file and bl_client_new.
GlueNew ==
    /\ tpc = "glue" /\ ~HavePosition
    /\ ClientNew
    /\ tpc' = "new"
    /\ UNCHANGED <<cl, args, dest, my, tgt, reason, anchors, out, nruns, st, pinRead, posKey, self>>

\* bl_geo_get is called with BL_GEO_FORMAT_BOTH.
GlueAsks ==
    /\ tpc = "new"
    /\ GeoGet
    /\ pinRead' = pin'
    /\ tpc' = "asking"
    /\ UNCHANGED <<cl, args, dest, my, tgt, reason, anchors, out, nruns, st, posKey, self>>

\* The slug of a failure; transport failures and the rest have none.
Slug(s) ==
    CASE s = "BL_ERR_PIN_MISMATCH" -> "pin-mismatch"
      [] s = "BL_ERR_CRYPTO" -> "crypto"
      [] s = "BL_ERR_PROTOCOL" -> "proto"
      [] s = "BL_ERR_BRIDGE_REFUSED" -> "refused"
      [] s = "BL_ERR_DENIED" -> "denied"
      [] OTHER -> ""

\* What the answer's WGS84 and BrightSpace blocks set; either may be missing.
FromBridge(wgs84, brightspace) ==
    [my EXCEPT !.from = IF wgs84 THEN "bridge" ELSE @,
               !.ecef = IF brightspace THEN "bridge" ELSE @,
               !.base = IF brightspace THEN "[brightlink:ecef]" ELSE "[brightlink]"]

\* bl_geo_get returned: take the position or note why there is none, and free
\* the client.
GlueReturns ==
    /\ tpc = "asking" /\ pc = "idle"
    /\ st' = result
    /\ reason' = Slug(result)
    /\ \/ /\ result = "BL_OK"
          /\ \E w, b \in BOOLEAN : (w \/ b) /\ my' = FromBridge(w, b)
          /\ posKey' = session
       \/ /\ result # "BL_OK"
          /\ UNCHANGED <<my, posKey>>
    /\ ClientFree
    /\ tpc' = AfterGlue
    /\ UNCHANGED <<cl, args, dest, tgt, anchors, out, nruns, pinRead, self>>

\* SIGPIPE ended the process inside bl_geo_get; the next run is a new process.
ToolDies ==
    /\ tpc = "asking" /\ pc = "killed"
    /\ pc' = "none"
    /\ tpc' = "idle"
    /\ UNCHANGED <<cmd, call, session, pin, sepPub, store, lastError, result, ncalls, expired,
                   wireVars, bridgeVars>>
    /\ UNCHANGED <<cl, args, dest, my, tgt, reason, anchors, out, nruns, st, pinRead, posKey, self>>

-----------------------------------------------------------------------------
(* main from the bridge on.                                                *)

\* bping's child ping: without its summary line bping exits with 1.
Probe ==
    /\ tpc = "probe"
    /\ tpc' \in {"locate", "idle"}
    /\ UNCHANGED <<vars, cl, args, dest, my, tgt, reason, anchors, out, nruns, st, pinRead,
                   posKey, self>>

\* bs_geolocate for a position nothing else gave; ok: ip-api.com knew it.
bs_geolocate(p, ok) ==
    [p EXCEPT !.from = IF ok THEN "geoIP" ELSE "none", !.base = "[~geoIP]"]

\* bs_ecef_to_geo with the tag "[ecef]": the zero vector has no direction.
bs_ecef_to_geo(p) ==
    IF p.ecef = "zero" THEN p ELSE [p EXCEPT !.from = p.ecef, !.base = "[ecef]"]

\* Faulty variant: any tag is annotated, not only that of a geoIP position.
AnnotateAny(p) == [p EXCEPT !.slug = IF p.base = "" THEN "" ELSE "refused"]

\* bl_glue_annotate_tag.
bl_glue_annotate_tag(p) ==
    IF reason # "" /\ p.base = "[~geoIP]" THEN [p EXCEPT !.slug = reason] ELSE p

\* The fallback chain every tool runs for itself, bping for the target too.
Fallback(p, ok) ==
    LET q == IF p.ecef = "none" /\ p.from = "none" THEN bs_geolocate(p, ok) ELSE p IN
    IF q.ecef # "none" /\ q.from = "none" THEN bs_ecef_to_geo(q) ELSE q

\* print_stats of bping: the chord when both have ECEF, else the great circle
\* when both have a position.
Stats(m, t) ==
    IF m.ecef # "none" /\ t.ecef # "none" THEN "chord"
    ELSE IF m.from # "none" /\ t.from # "none" THEN "geo" ELSE "nothing"

\* The src line of btraceroute and bmtr.
SrcLine(m) == IF m.from # "none" THEN "src" ELSE "nothing"

\* baudit puts itself before the other anchors when there is room.
WithSelf(as, s) == IF s # "none" /\ Len(as) < MAX_ANCHORS THEN <<s>> \o as ELSE as

\* Faulty variant: the verdict looks at the first anchor only.
VerdictFirst(as, t) ==
    IF as = <<>> THEN "no anchors"
    ELSE IF t.from = "none" THEN "unjudged"
    ELSE IF as[1] = "anchor-in" THEN "consistent" ELSE "inconsistent"

\* baudit's verdict: n_inside against nanchors.
Verdict(as, t) ==
    LET inside == {i \in 1..Len(as) : as[i] = "anchor-in"} IN
    IF as = <<>> THEN "no anchors"
    ELSE IF t.from = "none" THEN "unjudged"
    ELSE IF inside = 1..Len(as) THEN "consistent" ELSE "inconsistent"

\* What bping does after its ping: the target by geoIP unless an option gave
\* it, itself, the annotation, print_stats.
LocateBping ==
    /\ tpc = "locate" /\ cl.tool = "bping"
    /\ \E selfOk, tgtOk \in BOOLEAN :
          /\ my' = bl_glue_annotate_tag(Fallback(my, selfOk))
          /\ tgt' = Fallback(tgt, tgtOk)
    /\ out' = Stats(my', tgt')
    /\ tpc' = "shown"
    /\ UNCHANGED <<vars, cl, args, dest, anchors, reason, nruns, st, pinRead, posKey, self>>

\* btraceroute: the destination, itself, the annotation, the two header lines.
LocateBtraceroute ==
    /\ tpc = "locate" /\ cl.tool = "btraceroute"
    /\ \E selfOk, tgtOk \in BOOLEAN :
          /\ my' = bl_glue_annotate_tag(Fallback(my, selfOk))
          /\ tgt' = bs_geolocate(tgt, tgtOk)
    /\ out' = SrcLine(my')
    /\ tpc' = "shown"
    /\ UNCHANGED <<vars, cl, args, dest, anchors, reason, nruns, st, pinRead, posKey, self>>

\* bmtr: itself and the annotation; its table then starts with the src line.
LocateBmtr ==
    /\ tpc = "locate" /\ cl.tool = "bmtr"
    /\ \E selfOk \in BOOLEAN : my' = bl_glue_annotate_tag(Fallback(my, selfOk))
    /\ out' = SrcLine(my')
    /\ tpc' = "shown"
    /\ UNCHANGED <<vars, cl, args, dest, tgt, anchors, reason, nruns, st, pinRead, posKey, self>>

\* baudit: itself, the annotation, the target; a ping from here if it knows
\* where here is, and its own anchor if the ping brought a time; the verdict.
LocateBaudit ==
    /\ tpc = "locate" /\ cl.tool = "baudit"
    /\ \E selfOk, tgtOk \in BOOLEAN :
          /\ my' = bl_glue_annotate_tag(Fallback(my, selfOk))
          /\ tgt' = bs_geolocate(tgt, tgtOk)
    /\ self' \in IF my'.from # "none" THEN Rings \cup {"none"} ELSE {"none"}
    /\ anchors' = WithSelf(anchors, self')
    /\ out' = Verdict(anchors', tgt')
    /\ tpc' = "shown"
    /\ UNCHANGED <<vars, cl, args, dest, reason, nruns, st, pinRead, posKey>>

\* main returns.
Exit ==
    /\ tpc = "shown"
    /\ tpc' = "idle"
    /\ UNCHANGED <<vars, cl, args, dest, my, tgt, reason, anchors, out, nruns, st, pinRead,
                   posKey, self>>

-----------------------------------------------------------------------------
\* The steps of a running tool.
ToolStep ==
    \/ ResetPinAndExit \/ ParseArg \/ ParseEnd
    \/ GlueSkips \/ GlueNew \/ GlueAsks \/ GlueReturns \/ ToolDies
    \/ Probe \/ LocateBping \/ LocateBtraceroute \/ LocateBmtr \/ LocateBaudit \/ Exit
    \/ ClientStep /\ UNCHANGED toolVars

BridgeStep ==
    \/ BridgeAnswers \/ SessionExpires \/ BridgeStops \/ BridgeStarts \/ BridgeRekeys

ToolNext ==
    \/ Start
    \/ ToolStep
    \/ BridgeStep /\ UNCHANGED toolVars
    \/ ResetPin /\ UNCHANGED toolVars

ToolSpec == ToolInit /\ [][ToolNext]_allVars

\* A started tool is never descheduled for ever, and its reads time out; the
\* user need not start another run and the bridge need not answer.
ToolFairSpec == ToolSpec /\ WF_allVars(ToolStep)

-----------------------------------------------------------------------------
(* What a run of a tool promises.                                          *)

GaveCoord == Asked("--my-coord")

\* The last --my-ecef is the one that counts.
GaveEcef ==
    \E i \in 1..Len(cl.argv) :
       /\ cl.argv[i] = "--my-ecef"
       /\ \A j \in (i + 1)..Len(cl.argv) : cl.argv[j] \notin {"--my-ecef=0,0,0", "--my-ecef=bad"}

(* BSPACE.md:36, "--my-ecef > --my-coord > BrightNexus bridge > auto-geoIP": *)
(* the position a tool uses is that of the first source that gave one,     *)
(* whatever the bridge did meanwhile, a lower source is not even asked,    *)
(* and the distance bping prints starts from that same position.           *)
FirstSourceWins ==
    tpc = "shown" =>
       LET first == IF GaveEcef THEN "ecef"
                    ELSE IF GaveCoord THEN "coord"
                    ELSE IF st = "BL_OK" THEN "bridge" ELSE "geoIP" IN
       /\ my.from = first \/ (first = "geoIP" /\ my.from = "none")
       /\ GaveEcef \/ GaveCoord => st = "none"
       /\ out = "chord" => my.ecef = first

(* The tag tells an approximate position from an exact one: it says geoIP  *)
(* exactly when the position came from there, and the reason it carries is *)
(* why the bridge failed in this very run.                                 *)
TagTells ==
    tpc = "shown" /\ my.from # "none" =>
       /\ my.from = "geoIP" <=> my.base = "[~geoIP]"
       /\ my.slug = IF my.from = "geoIP" THEN Slug(st) ELSE ""

(* A position tagged as the bridge's was given in a session that was       *)
(* signed by the key the run read from its pin file, if it read one, even  *)
(* when the bridge changed its identity during the run.                    *)
TrustedPosition ==
    /\ posKey # NoKey /\ pinRead # NoKey => posKey = pinRead
    /\ tpc = "shown" /\ my.from = "bridge" => posKey # NoKey

\* The --anchor options among the first n arguments.
RingsUpTo(argv, n) == {j \in 1..n : argv[j] \in Rings}

(* baudit calls a placement consistent only when no measurement it had     *)
(* room for contradicts it: every --anchor up to the limit, and its own    *)
(* measurement unless the table was full.                                  *)
VerdictHonest ==
    tpc = "shown" /\ cl.tool = "baudit" /\ out = "consistent" =>
       LET all == RingsUpTo(cl.argv, Len(cl.argv)) IN
       /\ \A i \in all : Cardinality(RingsUpTo(cl.argv, i)) <= MAX_ANCHORS => cl.argv[i] = "anchor-in"
       /\ Cardinality(all) < MAX_ANCHORS => self # "anchor-out"

(* Every run of a tool comes to an end, whatever the bridge does.          *)
RunEnds == (tpc # "idle") ~> (tpc = "idle")

\* Steps to the end of the run.
RunLeft ==
    CASE tpc = "parse" -> Len(args) + 15
      [] tpc = "glue" -> 14
      [] tpc = "new" -> 13
      [] tpc = "asking" -> CallLeft + 4
      [] tpc = "probe" -> 3
      [] tpc = "locate" -> 2
      [] tpc = "shown" -> 1
      [] OTHER -> 0

(* A run takes one step for each argument and at most fifteen more, the    *)
(* four exchanges with the bridge included: nothing that the bridge or     *)
(* the user do meanwhile makes it longer.                                  *)
RunShrinks ==
    [][/\ ToolStep => RunLeft' \in 0..(RunLeft - 1)
       /\ RunLeft' > RunLeft => Start /\ RunLeft' = Len(cl'.argv) + 15]_allVars

(* BSPACE.md:85-89: "[ecef]" is for --my-ecef alone, and a position of the *)
(* bridge carries one of its two tags.                                     *)
TagNamesSource ==
    tpc = "shown" =>
       /\ my.base = "[ecef]" => GaveEcef
       /\ my.from = "bridge" => my.base \in {"[brightlink]", "[brightlink:ecef]"}

(* BSPACE.md:366-367: with a position, baudit "automatically probes the    *)
(* destination and adds itself as an anchor".                              *)
SelfIsAnchor ==
    tpc = "shown" /\ self # "none" => Len(anchors) > 0 /\ anchors[1] = self
=============================================================================
