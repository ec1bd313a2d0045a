------------------------------ MODULE Utilities ------------------------------
(***************************************************************************)
(* The programs with what they are there for: the lifecycle of main and,   *)
(* at its "work" stage, the component that works.  Three components are    *)
(* executed here step by step: the listings of strusInspect (Inspect), the *)
(* queries of strusAnalyzeQuery (QueryLoader) and the threads of           *)
(* strusPatternMatcher (PatternMatcher).  The others are the outcomes of   *)
(* ProgramLifecycle; most of them have a module and runs of their own.     *)
(***************************************************************************)
EXTENDS ProgramLifecycle, Programs, Inspect, PatternMatcher, QueryLoader

CONSTANT
    Matching   \* the options strusPatternMatcher is called with

(* Without threads main is the only one to run.                            *)
WithMain(m) == IF m.threads = {} THEN [m EXCEPT !.threads = {0}] ELSE m
ASSUME MatchingAssumption ==
    \A m \in Matching : m.threads \subseteq Thread /\ WithMain(m) \in Mode

(* Some stage of these kinds that no option switches off comes after i.    *)
FollowedBy(p, i, kinds) ==
    \E k \in i + 1 .. Len(Script[p]) :
        Script[p][k].do \in kinds /\ Unconditional(Script[p][k])

(* main ends at its last stage, and no refusal has the code 0.             *)
ASSUME CodeAssumption ==
    \A p \in Program : \A i \in 1 .. Len(Script[p]) : LET s == Script[p][i] IN
        /\ s.do = "exit" => i = Len(Script[p])
        /\ s.do = "help" => "help" \in s.need
        /\ s.do = "inform" => s.need \cap {"license", "version"} # {}
        /\ s.do \in {"arguments", "complain", "require", "verdict"} => s.rt % 256 # 0

(* A failure that is not tolerated meets a test of the error buffer, the   *)
(* failure of a thread a verdict; nothing takes a message out of the       *)
(* buffer before it was tested.                                            *)
ASSUME NoticeAssumption ==
    \A p \in Program : \A i \in 1 .. Len(Script[p]) : LET s == Script[p][i] IN
        /\ s.what \notin Tolerated[p] =>
               /\ s.do # "report"
               /\ s.do \in Leaving => FollowedBy(p, i, {"test"})
               /\ s.do = "workers" => FollowedBy(p, i, {"verdict"})
        /\ s.do \in {"attempt", "portions"} => FollowedBy(p, i, {"test", "testnone"})
        /\ \A j \in i + 1 .. Len(Script[p]) :
               /\ s.do \in Leaving /\ Script[p][j].do = "report"
               /\ Together(s, Script[p][j])
               => \E k \in i + 1 .. j - 1 :
                      Script[p][k].do = "test" /\ Unconditional(Script[p][k])

(* Every command line that asks for more than information gives its        *)
(* program something to do, but for the one that SuccessIsComplete names.  *)
ASSUME WorkAssumption ==
    \A p \in Program : \A c \in CommandLine[p] :
        c.given \cap {"help", "license", "version"} = {} =>
            \/ p = "strusUpdateStorageCalcStatistics" /\ "storage" \notin c.given
            \/ \E i \in 1 .. Len(Script[p]) :
                   /\ Script[p][i].do \in Completing
                   /\ Script[p][i].need \subseteq c.given
                   /\ Script[p][i].bar \cap c.given = {}

componentVars == <<inspectVars, matcherVars, loaderVars>>
utilityVars == <<lifeVars, componentVars>>

Detailed == {"strusInspect", "strusAnalyzeQuery", "strusPatternMatcher"}
AtWork(p) == prog = p /\ (Reached("work") \/ Reached("workers"))

-----------------------------------------------------------------------------

UtilityInit ==
    LifeInit /\ InspectInit /\ MatcherInit /\ LoaderInit

(* main itself, which waits for the threads of strusPatternMatcher, and    *)
(* the components that are not detailed here.                              *)
InMain ==
    /\ MainStep \/ (prog \notin Detailed /\ \E outcome \in Outcome : Work(outcome))
    /\ UNCHANGED componentVars
Waiting == mode # <<>> /\ 0 \notin DOMAIN ctx /\ ~MatchingEnded
InMainNoMemory ==
    /\ OutOfMemory /\ ~(AtWork("strusPatternMatcher") /\ Waiting)
    /\ UNCHANGED componentVars

StartListing ==
    /\ AtWork("strusInspect")
    /\ task = <<>> /\ \E t \in Task : BeginInspect(t)
    /\ UNCHANGED <<lifeVars, matcherVars, loaderVars>>
List ==
    /\ AtWork("strusInspect") /\ InspectStep
    /\ UNCHANGED <<lifeVars, matcherVars, loaderVars>>
(* The storage may have left an error in the buffer.                       *)
EndListing ==
    /\ AtWork("strusInspect") /\ result # "none"
    /\ \/ result = "ok" /\ \E outcome \in {"ok", "error"} : Work(outcome)
       \/ result = "throw" /\ Work("throw")
       \/ result = "crash" /\ Perish(Crashed)
    /\ UNCHANGED componentVars

StartQuery ==
    /\ AtWork("strusAnalyzeQuery")
    /\ reading = "idle" /\ \E q \in Query : BeginQuery(q)
    /\ UNCHANGED <<lifeVars, inspectVars, matcherVars>>
Load ==
    /\ AtWork("strusAnalyzeQuery") /\ LoaderStep
    /\ UNCHANGED <<lifeVars, inspectVars, matcherVars>>
EndQuery ==
    /\ AtWork("strusAnalyzeQuery") /\ verdictOfQuery # "none"
    /\ Work(IF verdictOfQuery = "shown" THEN "ok" ELSE "throw")
    /\ UNCHANGED componentVars

StartMatching ==
    /\ AtWork("strusPatternMatcher")
    /\ \E m \in Matching : BeginMatching(WithMain(m))
    /\ UNCHANGED <<lifeVars, inspectVars, loaderVars>>
Match(t) ==
    /\ AtWork("strusPatternMatcher") /\ MatchStep(t)
    /\ UNCHANGED <<lifeVars, inspectVars, loaderVars>>
LoseOutput(t) ==
    /\ AtWork("strusPatternMatcher") /\ LoseStream(t)
    /\ UNCHANGED <<lifeVars, inspectVars, loaderVars>>
(* The memory runs out in a thread outside of the handlers of run, or the  *)
(* markup of a document cannot be created, which nobody tests.             *)
MatchingPerishes ==
    /\ AtWork("strusPatternMatcher")
    /\ \/ Waiting /\ Perish(Aborted)
       \/ /\ \E t \in DOMAIN ctx :
                 /\ ThreadAt(t, "scan") /\ ctx[t].seg > Len(Segments(t))
                 /\ mode.markup /\ ~Pending(t)
          /\ Perish(Crashed)
    /\ UNCHANGED componentVars
EndMatching ==
    /\ AtWork("strusPatternMatcher") /\ MatchingEnded
    /\ Work(IF failed = {} THEN "ok" ELSE "told")
    /\ UNCHANGED componentVars

UtilityStep ==
    \/ (\E t \in Thread \cup {0} : Match(t)) \/ Load \/ List
    \/ StartListing \/ StartQuery \/ StartMatching
    \/ EndListing \/ EndQuery \/ EndMatching
    \/ InMain

UtilityNext == UtilityStep \/ InMainNoMemory \/ MatchingPerishes
               \/ \E t \in Thread \cup {0} : LoseOutput(t)

(* The programs are run: a process that can make a step does.  That memory *)
(* runs out is nothing to rely on.                                         *)
UtilitySpec == UtilityInit /\ [][UtilityNext]_utilityVars /\ WF_utilityVars(UtilityStep)

-----------------------------------------------------------------------------

(* A program that returns 0, and was not asked for information only, has   *)
(* done what it is there for, and had none of the failures that it is not  *)
(* known to survive (Tolerated): the tests of the error buffer in main.    *)
(* Known to do nothing is strusUpdateStorageCalcStatistics --rpc.          *)
SuccessIsComplete ==
    status = 0 /\ given \cap {"help", "license", "version"} = {} =>
        /\ unseen \subseteq Tolerated[prog]
        /\ done \cup part # {} \/ (prog = "strusUpdateStorageCalcStatistics"
                                   /\ "storage" \notin given)

(* Every program ends, but for the two listings that run for ever.         *)
ProgramEnds == <>(status # Running \/ NeverEnds)
=============================================================================
