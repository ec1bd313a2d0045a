-------------------------- MODULE ProgramLifecycle --------------------------
(***************************************************************************)
(* The life of one command line program of the utilities: the function     *)
(* main that every src/src/strus*/strus*.cpp has.  All 26 are written      *)
(* after one pattern (parse the options, load modules, print information,  *)
(* complain and print the usage, build the objects, work, report) and      *)
(* differ in which step comes first, which is tested and how it fails.     *)
(* Script[p] is the sequence of the stages of program p, in the order of   *)
(* its main; this module says what a stage of each kind does.              *)
(*                                                                         *)
(* A failing call either returns an error that main turns into an          *)
(* exception ("try"), or leaves a message in the error buffer only         *)
(* ("note"), which some later stage has to look for ("test").              *)
(***************************************************************************)
EXTENDS Integers, Sequences, FiniteSets, SequencesExt

CONSTANTS
    Program,       \* the programs
    Script,        \* the stages of the main function of each
    CommandLine,   \* the [given, nargs] each is started with
    Contradiction, \* the option sets that each program refuses
    LateRefusal,   \* those it refuses only once it has opened the storage
    Unlooked       \* the failures each finds only after it has done its work

(* How a component at work ends: done, with an error in the buffer, with   *)
(* errors that were only printed (threads), or with an exception.          *)
Outcome == {"ok", "error", "told", "throw"}
OutcomesOf(kind) == Outcome \ IF kind = "workers" THEN {"throw"} ELSE {"told"}

(* The stages that touch the index or produce output.                      *)
Touching == {"open", "effect", "attempt", "portions", "work", "workers"}
(* The stages that decide that the usage is printed.                       *)
Deciding == {"help", "arguments", "complain", "require"}

(* The stages that may leave a message in the error buffer, and those that *)
(* complete something.                                                     *)
Leaving == {"note", "attempt", "portions", "work", "workers"}
Completing == {"effect", "attempt", "portions", "work", "workers"}

Unconditional(s) == s.need = {} /\ s.bar = {}
(* Some command line has both stages.                                      *)
Together(s, r) == s.need \cap r.bar = {} /\ r.need \cap s.bar = {}

(* Positions of program p that come before every stage that touches.       *)
BeforeTouching(p, i) ==
    \A j \in 1 .. Len(Script[p]) : Script[p][j].do \in Touching => i < j
BeforeCompleting(p, i) ==
    \A j \in 1 .. Len(Script[p]) : Script[p][j].do \in Completing => i < j

LastStage(p) == Script[p][Len(Script[p])]

ASSUME ScriptAssumption ==
    /\ Script \in [Program -> Seq([do : STRING, what : STRING,
                       need : SUBSET STRING, bar : SUBSET STRING,
                       low : Int, high : Int, rt : Int])]
    /\ \A p \in Program : Len(Script[p]) > 0 /\ LastStage(p).do = "exit"
                           /\ Unconditional(LastStage(p))
    /\ \A p \in Program : \A c \in CommandLine[p] :
           c.given \in SUBSET STRING /\ c.nargs \in Nat

(* Whatever asks for the usage comes before the one place where it is      *)
(* printed, and everything that touches the index comes after it.          *)
ASSUME UsageAssumption ==
    \A p \in Program : \E u \in 1 .. Len(Script[p]) :
        /\ Script[p][u].do = "usage" /\ Unconditional(Script[p][u])
        /\ BeforeTouching(p, u)
        /\ \A j \in 1 .. Len(Script[p]) : Script[p][j].do \in Deciding => j < u

(* Each contradiction meets a stage that refuses it before anything is     *)
(* completed, the late ones behind the usage.                              *)
ASSUME RefusalAssumption ==
    \A p \in Program : \A c \in Contradiction[p] :
        \E r \in 1 .. Len(Script[p]) :
            /\ Script[p][r].do \in {"refuse", "complain"}
            /\ Script[p][r].need \subseteq c /\ Script[p][r].bar = {}
            /\ BeforeCompleting(p, r)
            /\ c \notin LateRefusal[p] => BeforeTouching(p, r)

(* Between a stage that may leave a message and one that completes         *)
(* something the error buffer is tested.                                   *)
ASSUME HeedAssumption ==
    \A p \in Program : \A i, j \in 1 .. Len(Script[p]) :
        /\ i < j /\ Together(Script[p][i], Script[p][j])
        /\ Script[p][i].do \in Leaving /\ Script[p][i].what \notin Unlooked[p]
        /\ Script[p][j].do \in Completing
        => \E k \in i + 1 .. j - 1 :
               Script[p][k].do = "test" /\ Unconditional(Script[p][k])

VARIABLES
    prog, given, nargs,  \* the program, its options, its other arguments
    at,                  \* the stage main is at
    usage,               \* printUsageAndExit
    rt,                  \* rt
    err,                 \* errorBuffer->hasError()
    opened,              \* the builders and clients have been asked for
    done, part,          \* what has been completed, or left incomplete
    status               \* what the process returned, Running before
    (* history *)
    , unseen             \* the failures main did not turn into an exception

commandLine == <<prog, given, nargs>>
verdict == <<usage, rt>>
errors == <<err, unseen>>
product == <<opened, done, part>>
lifeVars == <<commandLine, at, verdict, errors, product, status>>

Running == -1
Failed == 255        \* return -1
NoMemory == 254      \* return -2
Crashed == 139       \* a null pointer followed
Aborted == 134       \* std::terminate

Stage == Script[prog][at]
Applies(s) == s.need \subseteq given /\ s.bar \cap given = {}
Reached(kind) == status = Running /\ Stage.do = kind /\ Applies(Stage)
Proceed == at' = at + 1 /\ UNCHANGED <<commandLine, status>>
Return(code) == status' = code /\ UNCHANGED <<commandLine, at>>
Throw == Return(Failed)

LifeInit ==
    /\ prog \in Program
    /\ \E c \in CommandLine[prog] : given = c.given /\ nargs = c.nargs
    /\ at = 1
    /\ usage = FALSE /\ rt = 0
    /\ err = FALSE /\ unseen = {}
    /\ opened = FALSE /\ done = {} /\ part = {}
    /\ status = Running

(* An option that was not given, or that another one switches off.         *)
Skip ==
    /\ status = Running /\ ~Applies(Stage)
    /\ Proceed
    /\ UNCHANGED <<verdict, errors, product>>

(* --help: the usage will be printed.                                      *)
Help ==
    /\ Reached("help") /\ Proceed
    /\ usage' = TRUE
    /\ UNCHANGED <<rt, errors, product>>

(* --license and --version: the end, unless there is a usage to print.     *)
Inform ==
    /\ Reached("inform")
    /\ IF usage THEN Proceed ELSE Return(0)
    /\ UNCHANGED <<verdict, errors, product>>

(* The number of arguments, looked at only if no usage is due anyway.      *)
Misfit == ~usage /\ nargs \notin Stage.low .. Stage.high
Arguments ==
    /\ Reached("arguments") /\ Proceed
    /\ usage' = (usage \/ Misfit)
    /\ rt' = IF Misfit THEN Stage.rt ELSE rt
    /\ UNCHANGED <<errors, product>>

(* Options that exclude each other: a message, the usage and a code.       *)
Complain ==
    /\ Reached("complain") /\ Proceed
    /\ usage' = TRUE /\ rt' = Stage.rt
    /\ UNCHANGED <<errors, product>>

(* A missing option, of no interest if the usage is due anyway.            *)
Require ==
    /\ Reached("require") /\ Proceed
    /\ usage' = TRUE /\ rt' = IF usage THEN rt ELSE Stage.rt
    /\ UNCHANGED <<errors, product>>

(* The configuration parameters within the usage come from the modules.    *)
Describe ==
    /\ Reached("describe")
    /\ Proceed \/ (usage /\ Throw)
    /\ UNCHANGED <<verdict, errors, product>>

(* faulty: the usage is printed, and main goes on.                         *)
UsageGoesOn ==
    /\ Reached("usage") /\ Proceed
    /\ UNCHANGED <<verdict, errors, product>>
Usage ==
    /\ Reached("usage")
    /\ IF usage THEN Return(rt % 256) ELSE Proceed
    /\ UNCHANGED <<verdict, errors, product>>

(* Options that exclude each other: an exception.                          *)
Refuse ==
    /\ Reached("refuse") /\ Throw
    /\ UNCHANGED <<verdict, errors, product>>

Try ==
    /\ Reached("try")
    /\ Proceed \/ Throw
    /\ UNCHANGED <<verdict, errors, product>>

Note ==
    /\ Reached("note") /\ Proceed
    /\ \/ UNCHANGED errors
       \/ err' = TRUE /\ unseen' = unseen \cup {Stage.what}
    /\ UNCHANGED <<verdict, product>>

(* A failure that is printed with fetchError, which empties the buffer.    *)
Report ==
    /\ Reached("report") /\ Proceed
    /\ \/ UNCHANGED errors
       \/ err' = FALSE /\ unseen' = unseen \cup {Stage.what}
    /\ UNCHANGED <<verdict, product>>

(* faulty: the message is printed, and main goes on.                       *)
TestPrints ==
    /\ Reached("test") /\ Proceed
    /\ err' = FALSE
    /\ UNCHANGED <<verdict, unseen, product>>
(* faulty: the error is only noticed, as TestNone does after an update.     *)
TestWarns ==
    /\ Reached("test") /\ Proceed
    /\ UNCHANGED <<verdict, errors, product>>
Test ==
    /\ Reached("test")
    /\ IF err THEN Throw ELSE Proceed
    /\ UNCHANGED <<verdict, errors, product>>

(* if (!nofUpdates && hasError()): only if nothing was done.               *)
TestNone ==
    /\ Reached("testnone")
    /\ IF err /\ done \cup part = {} THEN Throw ELSE Proceed
    /\ UNCHANGED <<verdict, errors, product>>

(* The result of a call is used without a look at it.                      *)
Dereference ==
    /\ Reached("dereference")
    /\ Proceed \/ Return(Crashed)
    /\ UNCHANGED <<verdict, errors, product>>

(* An object builder or a client, of the modules or of the RPC server.     *)
Open ==
    /\ Reached("open")
    /\ Proceed \/ Throw
    /\ opened' = TRUE
    /\ UNCHANGED <<verdict, errors, done, part>>

(* What the program is there for, with a failure that is noticed.          *)
Effect ==
    /\ Reached("effect")
    /\ \/ Proceed /\ done' = done \cup {Stage.what}
       \/ Throw /\ done' = done
    /\ UNCHANGED <<verdict, errors, opened, part>>

(* The same with a failure that is left in the error buffer; if it is done *)
(* in portions, any number of them may be through by then.                 *)
Attempt ==
    /\ Reached("attempt") \/ Reached("portions")
    /\ Proceed
    /\ \/ /\ done' = done \cup {Stage.what}
          /\ UNCHANGED <<errors, part>>
       \/ /\ part' \in IF Stage.do = "portions"
                       THEN {part, part \cup {Stage.what}} ELSE {part}
          /\ err' = TRUE /\ unseen' = unseen \cup {Stage.what}
          /\ done' = done
    /\ UNCHANGED <<verdict, opened>>

(* A component with a module of its own is at work, in main or in threads. *)
Work(outcome) ==
    /\ Reached("work") \/ Reached("workers")
    /\ outcome \in OutcomesOf(Stage.do)
    /\ IF outcome = "throw" THEN Throw ELSE Proceed
    /\ done' = IF outcome = "ok" THEN done \cup {Stage.what} ELSE done
    /\ part' = IF outcome = "ok" THEN part ELSE part \cup {Stage.what}
    /\ err' = (err \/ outcome = "error")
    /\ unseen' = IF outcome \in {"error", "told"} THEN unseen \cup {Stage.what}
                 ELSE unseen
    /\ UNCHANGED <<verdict, opened>>

(* rt = -3 after a worker failed.                                          *)
Verdict ==
    /\ Reached("verdict") /\ Proceed
    /\ rt' = IF part # {} THEN Stage.rt ELSE rt
    /\ UNCHANGED <<usage, errors, product>>

(* faulty: the number of failures as the return value of the process.      *)
ExitUnreduced ==
    /\ Reached("exit")
    /\ Return(IF part # {} THEN 256 * Cardinality(part) ELSE rt)
    /\ UNCHANGED <<verdict, errors, product>>
Exit ==
    /\ Reached("exit")
    /\ Return(rt % 256)
    /\ UNCHANGED <<verdict, errors, product>>

(* std::bad_alloc reaches the handler of main from any stage in its try.   *)
OutOfMemory ==
    /\ status = Running /\ at > 1
    /\ Return(NoMemory)
    /\ UNCHANGED <<verdict, errors, product>>

(* The process ends in the midst of a component at work: a null pointer    *)
(* followed, or an exception that leaves a thread.                         *)
Perish(code) ==
    /\ Reached("work") \/ Reached("workers")
    /\ Return(code)
    /\ UNCHANGED <<verdict, errors, product>>

MainStep ==
    \/ Skip \/ Help \/ Inform \/ Arguments \/ Complain \/ Require \/ Describe
    \/ Usage \/ Refuse \/ Try \/ Note \/ Report \/ Test \/ TestNone
    \/ Dereference \/ Open \/ Effect \/ Attempt \/ Verdict \/ Exit

LifeNext ==
    \/ MainStep \/ OutOfMemory
    \/ \E outcome \in Outcome : Work(outcome)
    \/ \E code \in {Crashed, Aborted} : Perish(code)
LifeSpec == LifeInit /\ [][LifeNext]_lifeVars

-----------------------------------------------------------------------------

TypeOK ==
    /\ prog \in Program
    /\ given \in SUBSET STRING /\ nargs \in Nat
    /\ at \in 1 .. Len(Script[prog])
    /\ usage \in BOOLEAN /\ err \in BOOLEAN /\ opened \in BOOLEAN
    /\ rt \in Int /\ status \in -1 .. 255

(* A program that is to print its usage, because it was asked to or        *)
(* because its arguments are wrong, never opens a storage and does         *)
(* nothing.  One that was given options that contradict each other         *)
(* completes nothing and does not return 0, unless it was asked for        *)
(* information; it never opens a storage either, but for the options that  *)
(* are compared too late (LateRefusal): the mains of all programs.         *)
RefusedCommandLine ==
    /\ usage => ~opened /\ done \cup part = {}
    /\ \A c \in Contradiction[prog] : c \subseteq given =>
           /\ done \cup part = {}
           /\ opened => c \in LateRefusal[prog]
           /\ status = 0 => given \cap {"help", "license", "version"} # {}

(* Nothing is completed in the index with a message in the error buffer,   *)
(* but for those failures that no test meets on the way (Unlooked): the    *)
(* tests of the error buffer between initialization and work.              *)
NothingDoneInError ==
    [][done' # done => ~err \/ unseen \cap Unlooked[prog] # {}]_lifeVars
=============================================================================
