--------------------------- MODULE UtilitiesProofs ---------------------------
(***************************************************************************)
(* Proofs about the programs as a whole.  First main, for any table of     *)
(* programs that satisfies the assumptions of ProgramLifecycle and         *)
(* Utilities: types, refusal, errors, exit code zero.  Then the listings   *)
(* of strusInspect, for any index and any call, and the threads of         *)
(* strusPatternMatcher, for any files.  Last the composition, which keeps  *)
(* what its parts promise: a step of Utilities is a step of                *)
(* ProgramLifecycle or leaves it alone, and the same holds for Inspect and *)
(* for PatternMatcher.                                                     *)
(***************************************************************************)
EXTENDS Utilities, DataInduction, FiniteSetTheorems, SequenceTheorems, TLAPS

(* Every place of a sequence over S holds a member of S.                   *)
LEMMA ElementOfSequence ==
    ASSUME NEW S, NEW s \in Seq(S), NEW i \in 1 .. Len(s)
    PROVE  s[i] \in S
OBVIOUS

(* The stages in terms of their type.                                      *)
LEMMA StageType ==
    ASSUME TypeOK
    PROVE  /\ Len(Script[prog]) \in Nat
           /\ Stage.rt \in Int /\ Stage.do \in STRING
           /\ Stage.need \in SUBSET STRING /\ Stage.bar \in SUBSET STRING
<1>1. Script[prog] \in Seq([do : STRING, what : STRING,
                       need : SUBSET STRING, bar : SUBSET STRING,
                       low : Int, high : Int, rt : Int])
  BY ScriptAssumption DEF TypeOK
<1>2. at \in 1 .. Len(Script[prog])
  BY DEF TypeOK
<1>3. Script[prog][at] \in [do : STRING, what : STRING,
                       need : SUBSET STRING, bar : SUBSET STRING,
                       low : Int, high : Int, rt : Int]
  BY <1>1, <1>2, ElementOfSequence
<1>4. Len(Script[prog]) \in Nat
  BY <1>1
<1> QED
  BY <1>3, <1>4 DEF Stage

(* main goes on to a stage that exists: the last one returns.              *)
LEMMA StagesLast ==
    ASSUME TypeOK, Proceed, ~(Stage.do = "exit" /\ Applies(Stage))
    PROVE  at' \in 1 .. Len(Script[prog'])
<1>1. prog' = prog /\ at' = at + 1
  BY DEF Proceed, commandLine
<1>2. at \in 1 .. Len(Script[prog]) /\ Len(Script[prog]) \in Nat
  BY StageType DEF TypeOK
<1>3. ASSUME at = Len(Script[prog]) PROVE FALSE
  BY <1>3, ScriptAssumption DEF TypeOK, LastStage, Unconditional, Stage, Applies
<1> QED
  BY <1>1, <1>2, <1>3

(* What a step does with the position, the command line and the status.    *)
Moves ==
    /\ prog' = prog /\ given' = given /\ nargs' = nargs
    /\ at' \in 1 .. Len(Script[prog]) /\ at' \in {at, at + 1}
    /\ status' \in -1 .. 255

(* Going on to the next stage is a move of main,                           *)
LEMMA ProceedMoves ==
    ASSUME TypeOK, Proceed, ~(Stage.do = "exit" /\ Applies(Stage))
    PROVE  Moves
BY StagesLast DEF Moves, Proceed, commandLine, TypeOK

(* and so is the return.                                                   *)
LEMMA ReturnMoves ==
    ASSUME TypeOK, NEW code \in 0 .. 255, Return(code)
    PROVE  Moves
BY DEF Moves, Return, commandLine, TypeOK

(* Every step of main is one of the moves.                                 *)
LEMMA StepMoves ==
    ASSUME TypeOK, [LifeNext]_lifeVars
    PROVE  Moves
<1> USE DEF Throw, Failed, NoMemory, Crashed, Reached
<1>0. rt % 256 \in 0 .. 255
  BY DEF TypeOK
<1>1. CASE Skip
  BY <1>1, ProceedMoves DEF Skip
<1>2. CASE Help
  BY <1>2, <1>0, ProceedMoves, ReturnMoves DEF Help
<1>3. CASE Inform
  BY <1>3, <1>0, ProceedMoves, ReturnMoves DEF Inform
<1>4. CASE Arguments
  BY <1>4, <1>0, ProceedMoves, ReturnMoves DEF Arguments
<1>5. CASE Complain
  BY <1>5, <1>0, ProceedMoves, ReturnMoves DEF Complain
<1>6. CASE Require
  BY <1>6, <1>0, ProceedMoves, ReturnMoves DEF Require
<1>7. CASE Describe
  BY <1>7, <1>0, ProceedMoves, ReturnMoves DEF Describe
<1>8. CASE Usage
  BY <1>8, <1>0, ProceedMoves, ReturnMoves DEF Usage
<1>9. CASE Refuse
  BY <1>9, <1>0, ProceedMoves, ReturnMoves DEF Refuse
<1>10. CASE Try
  BY <1>10, <1>0, ProceedMoves, ReturnMoves DEF Try
<1>11. CASE Note
  BY <1>11, <1>0, ProceedMoves, ReturnMoves DEF Note
<1>12. CASE Report
  BY <1>12, <1>0, ProceedMoves, ReturnMoves DEF Report
<1>13. CASE Test
  BY <1>13, <1>0, ProceedMoves, ReturnMoves DEF Test
<1>14. CASE TestNone
  BY <1>14, <1>0, ProceedMoves, ReturnMoves DEF TestNone
<1>15. CASE Dereference
  BY <1>15, <1>0, ProceedMoves, ReturnMoves DEF Dereference
<1>16. CASE Open
  BY <1>16, <1>0, ProceedMoves, ReturnMoves DEF Open
<1>17. CASE Effect
  BY <1>17, <1>0, ProceedMoves, ReturnMoves DEF Effect
<1>18. CASE Attempt
  BY <1>18, <1>0, ProceedMoves, ReturnMoves DEF Attempt
<1>19. CASE Verdict
  BY <1>19, <1>0, ProceedMoves, ReturnMoves DEF Verdict
<1>20. CASE Exit
  BY <1>20, <1>0, ProceedMoves, ReturnMoves DEF Exit
<1>21. CASE OutOfMemory
  BY <1>21, ReturnMoves DEF OutOfMemory
<1>22. CASE \E outcome \in Outcome : Work(outcome)
  BY <1>22, ProceedMoves, ReturnMoves DEF Work
<1>23. CASE UNCHANGED lifeVars
  BY <1>23 DEF Moves, TypeOK, lifeVars, commandLine
<1>24. CASE \E code \in {Crashed, Aborted} : Perish(code)
  BY <1>24, ReturnMoves DEF Perish, Crashed, Aborted
<1> QED
  BY <1>1, <1>2, <1>3, <1>4, <1>5, <1>6, <1>7, <1>8, <1>9, <1>10, <1>11, <1>12, <1>13, <1>14, <1>15, <1>16, <1>17, <1>18, <1>19, <1>20, <1>21, <1>22, <1>23, <1>24 DEF LifeNext, MainStep

(* The verdict, the error buffer and the builders keep their types.        *)
LEMMA FlagsKeepTheirTypes ==
    ASSUME TypeOK, [LifeNext]_lifeVars
    PROVE  usage' \in BOOLEAN /\ err' \in BOOLEAN /\ opened' \in BOOLEAN /\ rt' \in Int
<1>0. /\ usage \in BOOLEAN /\ err \in BOOLEAN /\ opened \in BOOLEAN /\ rt \in Int
      /\ Stage.rt \in Int
  BY StageType DEF TypeOK
<1> USE <1>0 DEF verdict, errors, product
<1>1. CASE Skip
  BY <1>1 DEF Skip
<1>2. CASE Help
  BY <1>2 DEF Help
<1>3. CASE Inform
  BY <1>3 DEF Inform
<1>4. CASE Arguments
  BY <1>4 DEF Arguments
<1>5. CASE Complain
  BY <1>5 DEF Complain
<1>6. CASE Require
  BY <1>6 DEF Require
<1>7. CASE Describe
  BY <1>7 DEF Describe
<1>8. CASE Usage
  BY <1>8 DEF Usage
<1>9. CASE Refuse
  BY <1>9 DEF Refuse
<1>10. CASE Try
  BY <1>10 DEF Try
<1>11. CASE Note
  BY <1>11 DEF Note
<1>12. CASE Report
  BY <1>12 DEF Report
<1>13. CASE Test
  BY <1>13 DEF Test
<1>14. CASE TestNone
  BY <1>14 DEF TestNone
<1>15. CASE Dereference
  BY <1>15 DEF Dereference
<1>16. CASE Open
  BY <1>16 DEF Open
<1>17. CASE Effect
  BY <1>17 DEF Effect
<1>18. CASE Attempt
  BY <1>18 DEF Attempt
<1>19. CASE Verdict
  BY <1>19 DEF Verdict
<1>20. CASE Exit
  BY <1>20 DEF Exit
<1>21. CASE OutOfMemory
  BY <1>21 DEF OutOfMemory
<1>22. CASE \E outcome \in Outcome : Work(outcome)
  BY <1>22 DEF Work
<1>23. CASE UNCHANGED lifeVars
  BY <1>23 DEF lifeVars
<1>24. CASE \E code \in {Crashed, Aborted} : Perish(code)
  BY <1>24 DEF Perish
<1> QED
  BY <1>1, <1>2, <1>3, <1>4, <1>5, <1>6, <1>7, <1>8, <1>9, <1>10, <1>11, <1>12, <1>13, <1>14, <1>15, <1>16, <1>17, <1>18, <1>19, <1>20, <1>21, <1>22, <1>23, <1>24 DEF LifeNext, MainStep

(* A program starts well typed.                                            *)
LEMMA InitialTypes ==
    ASSUME LifeInit
    PROVE  TypeOK
<1>1. prog \in Program
  BY DEF LifeInit
<1>2. given \in SUBSET STRING /\ nargs \in Nat
  BY <1>1, ScriptAssumption DEF LifeInit
<1>3. Script[prog] \in Seq([do : STRING, what : STRING,
                     need : SUBSET STRING, bar : SUBSET STRING,
                     low : Int, high : Int, rt : Int])
  BY <1>1, ScriptAssumption
<1>4. Len(Script[prog]) \in Nat /\ Len(Script[prog]) > 0
  BY <1>1, <1>3, ScriptAssumption
<1>5. at = 1 /\ usage = FALSE /\ rt = 0 /\ err = FALSE /\ opened = FALSE /\ status = -1
  BY DEF LifeInit, Running
<1>6. at \in 1 .. Len(Script[prog])
  BY <1>4, <1>5
<1>7. usage \in BOOLEAN /\ err \in BOOLEAN /\ opened \in BOOLEAN
  BY <1>5
<1>8. rt \in Int /\ status \in -1 .. 255
  BY <1>5
<1> QED
  BY <1>1, <1>2, <1>6, <1>7, <1>8 DEF TypeOK

(* The variables of every program keep their types, whatever its stages    *)
(* are: the mains.                                                         *)
THEOREM TypeCorrect == LifeSpec => []TypeOK
<1>1. LifeInit => TypeOK
  BY InitialTypes
<1>2. TypeOK /\ [LifeNext]_lifeVars => TypeOK'
  <2> SUFFICES ASSUME TypeOK, [LifeNext]_lifeVars PROVE TypeOK'
    OBVIOUS
  <2>1. Moves
    BY StepMoves
  <2> QED
    BY <2>1, FlagsKeepTheirTypes DEF TypeOK, Moves
<1> QED
  BY <1>1, <1>2, PTL DEF LifeSpec

-----------------------------------------------------------------------------
(* Refusal.                                                                *)

(* Only some stages ask for the usage, and none withdraws that; only some  *)
(* touch the index; and some are not passed by every command line.         *)
Effects ==
    /\ usage => usage'
    /\ usage' # usage => Stage.do \in Deciding
    /\ product' = product \/ Stage.do \in Touching
    /\ UNCHANGED <<done, part>> \/ Stage.do \in Completing
    /\ at' = at + 1 =>
           /\ Stage.do = "usage" /\ Unconditional(Stage) => ~usage
           /\ Stage.do = "refuse" => ~Applies(Stage)
           /\ Stage.do = "complain" /\ Applies(Stage) => usage'

(* Every step has these effects at the stages named only.                  *)
LEMMA StepEffects ==
    ASSUME TypeOK, [LifeNext]_lifeVars
    PROVE  Effects
<1>0. at \in Int /\ at + 1 # at /\ usage \in BOOLEAN
  BY DEF TypeOK
<1> USE <1>0 DEF Effects, verdict, product, Reached, Deciding, Touching, Completing
<1>1. CASE Skip
  BY <1>1 DEF Skip, Applies, Unconditional
<1>2. CASE Help
  BY <1>2 DEF Help, Return, Throw
<1>3. CASE Inform
  BY <1>3 DEF Inform, Return, Throw
<1>4. CASE Arguments
  BY <1>4 DEF Arguments, Return, Throw
<1>5. CASE Complain
  BY <1>5 DEF Complain, Return, Throw
<1>6. CASE Require
  BY <1>6 DEF Require, Return, Throw
<1>7. CASE Describe
  BY <1>7 DEF Describe, Return, Throw
<1>8. CASE Usage
  BY <1>8 DEF Usage, Return, Throw
<1>9. CASE Refuse
  BY <1>9 DEF Refuse, Return, Throw
<1>10. CASE Try
  BY <1>10 DEF Try, Return, Throw
<1>11. CASE Note
  BY <1>11 DEF Note, Return, Throw
<1>12. CASE Report
  BY <1>12 DEF Report, Return, Throw
<1>13. CASE Test
  BY <1>13 DEF Test, Return, Throw
<1>14. CASE TestNone
  BY <1>14 DEF TestNone, Return, Throw
<1>15. CASE Dereference
  BY <1>15 DEF Dereference, Return, Throw
<1>16. CASE Open
  BY <1>16 DEF Open, Return, Throw
<1>17. CASE Effect
  BY <1>17 DEF Effect, Return, Throw
<1>18. CASE Attempt
  BY <1>18 DEF Attempt, Return, Throw
<1>19. CASE Verdict
  BY <1>19 DEF Verdict, Return, Throw
<1>20. CASE Exit
  BY <1>20 DEF Exit, Return, Throw
<1>21. CASE OutOfMemory
  BY <1>21 DEF OutOfMemory, Return
<1>22. CASE \E outcome \in Outcome : Work(outcome)
  BY <1>22 DEF Work
<1>23. CASE UNCHANGED lifeVars
  BY <1>23 DEF lifeVars
<1>24. CASE \E code \in {Crashed, Aborted} : Perish(code)
  BY <1>24 DEF Perish, Return
<1> QED
  BY <1>1, <1>2, <1>3, <1>4, <1>5, <1>6, <1>7, <1>8, <1>9, <1>10, <1>11, <1>12, <1>13, <1>14, <1>15, <1>16, <1>17, <1>18, <1>19, <1>20, <1>21, <1>22, <1>23, <1>24 DEF LifeNext, MainStep

(* The place where the usage is printed, see UsageAssumption.              *)
IsUsage(p, u) ==
    /\ Script[p][u].do = "usage" /\ Unconditional(Script[p][u])
    /\ BeforeTouching(p, u)
    /\ \A j \in 1 .. Len(Script[p]) : Script[p][j].do \in Deciding => j < u
(* A stage that refuses the options of a contradiction.                    *)
Refuses(p, r, c) ==
    /\ Script[p][r].do \in {"refuse", "complain"}
    /\ Script[p][r].need \subseteq c /\ Script[p][r].bar = {}
    /\ BeforeCompleting(p, r)
    /\ c \notin LateRefusal[p] => BeforeTouching(p, r)

Touched == opened \/ done \cup part # {}
TouchingBegun ==
    /\ Touched => \E j \in 1 .. Len(Script[prog]) :
                      j <= at /\ Script[prog][j].do \in Touching
    /\ done \cup part # {} => \E j \in 1 .. Len(Script[prog]) :
                                  j <= at /\ Script[prog][j].do \in Completing
UsagePassed ==
    \A u \in 1 .. Len(Script[prog]) : IsUsage(prog, u) /\ u < at => ~usage
RefusalPassed ==
    \A c \in Contradiction[prog] : \A r \in 1 .. Len(Script[prog]) :
        Refuses(prog, r, c) /\ c \subseteq given /\ r < at =>
            Script[prog][r].do = "complain" /\ usage

(* Why nothing is touched in vain: by the time a stage touches the index,  *)
(* main has passed the usage and every stage that refuses something, but   *)
(* for the late refusals, which it has passed when something is completed. *)
RefusalInv == TypeOK /\ TouchingBegun /\ UsagePassed /\ RefusalPassed

(* Whoever opens a storage has passed the usage, and does not print it.    *)
LEMMA UsageIsBehind ==
    ASSUME RefusalInv, NEW j \in 1 .. Len(Script[prog]), j <= at,
           Script[prog][j].do \in Touching \cup {"exit"}
    PROVE  ~usage
<1>0. prog \in Program /\ at \in Int /\ Len(Script[prog]) \in Nat
  BY StageType DEF RefusalInv, TypeOK
<1>1. PICK u \in 1 .. Len(Script[prog]) : IsUsage(prog, u)
  BY <1>0, UsageAssumption DEF IsUsage
<1>2. u < at
  <2>1. CASE Script[prog][j].do \in Touching
    BY <1>0, <1>1, <2>1 DEF IsUsage, BeforeTouching
  <2>2. CASE Script[prog][j].do = "exit"
    <3>1. j = Len(Script[prog]) /\ u # j
      BY <1>0, <1>1, <2>2, CodeAssumption DEF IsUsage
    <3>2. QED BY <1>0, <1>1, <3>1
  <2>3. QED BY <2>1, <2>2
<1>3. QED BY <1>1, <1>2 DEF RefusalInv, UsagePassed

(* What is kept of refusals says what the property says of the storage.    *)
LEMMA RefusalImplied ==
    ASSUME RefusalInv
    PROVE  /\ usage => ~Touched
           /\ \A c \in Contradiction[prog] : c \subseteq given =>
                  /\ done \cup part = {}
                  /\ opened => c \in LateRefusal[prog]
<1>0. prog \in Program /\ at \in Int /\ Len(Script[prog]) \in Nat
  BY StageType DEF RefusalInv, TypeOK
<1>1. ASSUME Touched PROVE ~usage
  BY <1>1, UsageIsBehind DEF RefusalInv, TouchingBegun
<1>2. ASSUME NEW c \in Contradiction[prog], c \subseteq given,
             Touched, done \cup part # {} \/ c \notin LateRefusal[prog]
      PROVE  FALSE
  <2>1. PICK r \in 1 .. Len(Script[prog]) : Refuses(prog, r, c)
    BY <1>0, RefusalAssumption DEF Refuses
  <2>2. r < at
    <3>1. CASE done \cup part # {}
      <4>1. PICK j \in 1 .. Len(Script[prog]) : j <= at /\ Script[prog][j].do \in Completing
        BY <3>1 DEF RefusalInv, TouchingBegun
      <4>2. QED BY <1>0, <2>1, <4>1 DEF Refuses, BeforeCompleting
    <3>2. CASE c \notin LateRefusal[prog]
      <4>1. PICK j \in 1 .. Len(Script[prog]) : j <= at /\ Script[prog][j].do \in Touching
        BY <1>2 DEF RefusalInv, TouchingBegun
      <4>2. QED BY <1>0, <2>1, <3>2, <4>1 DEF Refuses, BeforeTouching
    <3>3. QED BY <1>2, <3>1, <3>2
  <2>3. QED BY <1>1, <1>2, <2>1, <2>2 DEF RefusalInv, RefusalPassed
<1>3. QED BY <1>1, <1>2 DEF Touched

(* Every step keeps it.                                                    *)
LEMMA RefusalPreserved ==
    ASSUME RefusalInv, [LifeNext]_lifeVars
    PROVE  RefusalInv'
<1>0. TypeOK
  BY DEF RefusalInv
<1>1. Effects /\ Moves
  BY <1>0, StepEffects, StepMoves
<1>2. TypeOK'
  BY <1>0, <1>1, FlagsKeepTheirTypes DEF TypeOK, Moves
<1>3. prog' = prog /\ given' = given /\ at \in 1 .. Len(Script[prog])
      /\ at' \in {at, at + 1} /\ Len(Script[prog]) \in Nat
  BY <1>0, <1>1, StageType DEF Moves, TypeOK
<1>4. TouchingBegun'
  <2>1. CASE product' = product
    BY <1>3, <2>1 DEF RefusalInv, TouchingBegun, Touched, product
  <2>2. CASE Stage.do \in Touching
    <3>1. CASE Stage.do \in Completing
      BY <1>3, <2>2, <3>1 DEF TouchingBegun, Stage
    <3>2. CASE Stage.do \notin Completing
      <4>1. UNCHANGED <<done, part>>
        BY <1>1, <3>2 DEF Effects
      <4>2. QED BY <1>3, <2>2, <4>1 DEF RefusalInv, TouchingBegun, Stage
    <3>3. QED BY <3>1, <3>2
  <2> QED
    BY <1>1, <2>1, <2>2 DEF Effects
<1>5. UsagePassed'
  <2> SUFFICES ASSUME NEW u \in 1 .. Len(Script[prog]), IsUsage(prog, u), u < at'
               PROVE  ~usage'
    BY <1>3 DEF UsagePassed, IsUsage, BeforeTouching
  <2>1. usage' = usage
    BY <1>1, <1>3 DEF Effects, IsUsage, Stage
  <2>2. CASE u < at
    BY <2>1, <2>2 DEF RefusalInv, UsagePassed
  <2>3. CASE u = at /\ at' = at + 1
    BY <1>1, <2>1, <2>3 DEF Effects, IsUsage, Stage
  <2> QED
    BY <1>3, <2>2, <2>3
<1>6. RefusalPassed'
  <2> SUFFICES ASSUME NEW c \in Contradiction[prog], NEW r \in 1 .. Len(Script[prog]),
                      Refuses(prog, r, c), c \subseteq given, r < at'
               PROVE  Script[prog][r].do = "complain" /\ usage'
    BY <1>3 DEF RefusalPassed, Refuses, BeforeTouching
  <2>1. CASE r < at
    BY <1>1, <2>1 DEF RefusalInv, RefusalPassed, Effects
  <2>2. CASE r = at /\ at' = at + 1
    <3>1. Applies(Stage)
      BY <2>2 DEF Applies, Stage, Refuses
    <3> QED
      BY <1>1, <2>2, <3>1 DEF Effects, Refuses, Stage
  <2> QED
    BY <1>3, <2>1, <2>2
<1> QED
  BY <1>2, <1>4, <1>5, <1>6 DEF RefusalInv

-----------------------------------------------------------------------------
(* Errors.                                                                 *)

(* A message comes from a stage that may leave one and is recorded; no     *)
(* test that everybody meets is passed with a message; only some stages    *)
(* complete something.                                                     *)
Heeds ==
    /\ unseen \subseteq unseen'
    /\ status' = Running => status = Running
    /\ err' => err \/ (/\ Stage.do \in Leaving /\ Applies(Stage)
                       /\ Stage.what \in unseen' /\ at' = at + 1)
    /\ Stage.do = "test" /\ Unconditional(Stage) /\ status' = Running /\ at' = at + 1 => ~err
    /\ done' # done => /\ status = Running
                       /\ Stage.do \in Completing /\ Applies(Stage)

(* Every step heeds the failures in this way.                              *)
LEMMA StepHeeds ==
    ASSUME TypeOK, [LifeNext]_lifeVars
    PROVE  Heeds
<1>0. /\ at \in Int /\ at + 1 # at /\ status \in Int
      /\ Failed # Running /\ NoMemory # Running
      /\ Crashed # Running /\ Aborted # Running
  BY DEF TypeOK, Failed, NoMemory, Crashed, Aborted, Running
<1> USE <1>0 DEF Heeds, errors, product, Reached, Proceed, Return, Throw, Leaving,
                 Completing
<1>1. CASE Skip
  BY <1>1 DEF Skip, Applies, Unconditional
<1>2. CASE Help
  BY <1>2 DEF Help
<1>3. CASE Inform
  BY <1>3 DEF Inform
<1>4. CASE Arguments
  BY <1>4 DEF Arguments
<1>5. CASE Complain
  BY <1>5 DEF Complain
<1>6. CASE Require
  BY <1>6 DEF Require
<1>7. CASE Describe
  BY <1>7 DEF Describe
<1>8. CASE Usage
  BY <1>8 DEF Usage
<1>9. CASE Refuse
  BY <1>9 DEF Refuse
<1>10. CASE Try
  BY <1>10 DEF Try
<1>11. CASE Note
  BY <1>11 DEF Note
<1>12. CASE Report
  BY <1>12 DEF Report
<1>13. CASE Test
  BY <1>13 DEF Test, Applies, Unconditional
<1>14. CASE TestNone
  BY <1>14 DEF TestNone
<1>15. CASE Dereference
  BY <1>15 DEF Dereference
<1>16. CASE Open
  BY <1>16 DEF Open
<1>17. CASE Effect
  BY <1>17 DEF Effect
<1>18. CASE Attempt
  BY <1>18 DEF Attempt
<1>19. CASE Verdict
  BY <1>19 DEF Verdict
<1>20. CASE Exit
  BY <1>20 DEF Exit
<1>21. CASE OutOfMemory
  BY <1>21 DEF OutOfMemory
<1>22. CASE \E outcome \in Outcome : Work(outcome)
  BY <1>22 DEF Work
<1>23. CASE UNCHANGED lifeVars
  BY <1>23 DEF lifeVars
<1>24. CASE \E code \in {Crashed, Aborted} : Perish(code)
  BY <1>24 DEF Perish
<1> QED
  BY <1>1, <1>2, <1>3, <1>4, <1>5, <1>6, <1>7, <1>8, <1>9, <1>10, <1>11, <1>12, <1>13, <1>14, <1>15, <1>16, <1>17, <1>18, <1>19, <1>20, <1>21, <1>22, <1>23, <1>24 DEF LifeNext, MainStep

(* Stage i of program p, called with the options g, may have left an       *)
(* unknown failure, and no test of the error buffer comes before stage n.  *)
Untested(p, g, i, n) ==
    /\ i < n
    /\ Script[p][i].do \in Leaving
    /\ Script[p][i].need \subseteq g /\ Script[p][i].bar \cap g = {}
    /\ Script[p][i].what \notin Unlooked[p]
    /\ \A k \in i + 1 .. n - 1 :
           ~(Script[p][k].do = "test" /\ Unconditional(Script[p][k]))
Known == unseen \cap Unlooked[prog] # {}
HeedInv ==
    TypeOK /\ (status = Running /\ err =>
                  Known \/ \E i \in 1 .. Len(Script[prog]) :
                               Untested(prog, given, i, at))

(* Every step keeps what is known of the failures still unseen.            *)
LEMMA HeedPreserved ==
    ASSUME HeedInv, [LifeNext]_lifeVars
    PROVE  HeedInv'
<1>1. TypeOK /\ Heeds /\ Moves
  BY StepHeeds, StepMoves DEF HeedInv
<1>2. TypeOK'
  BY <1>1, FlagsKeepTheirTypes DEF TypeOK, Moves
<1>3. prog' = prog /\ given' = given /\ at \in 1 .. Len(Script[prog])
      /\ at' \in {at, at + 1} /\ Len(Script[prog]) \in Nat
  BY <1>1, StageType DEF Moves, TypeOK
<1> SUFFICES ASSUME status' = Running, err', ~Known'
             PROVE  \E i \in 1 .. Len(Script[prog]) : Untested(prog, given, i, at')
  BY <1>2, <1>3 DEF HeedInv
<1>4. status = Running /\ ~Known
  BY <1>1, <1>3 DEF Heeds, Known
<1>5. CASE err
  <2>1. PICK i \in 1 .. Len(Script[prog]) : Untested(prog, given, i, at)
    BY <1>4, <1>5 DEF HeedInv
  <2>2. ASSUME NEW k \in i + 1 .. at' - 1
        PROVE  ~(Script[prog][k].do = "test" /\ Unconditional(Script[prog][k]))
    <3>1. CASE k \in i + 1 .. at - 1
      BY <2>1, <3>1 DEF Untested
    <3>2. CASE k = at /\ at' = at + 1
      BY <1>1, <1>5, <3>2 DEF Heeds, Stage
    <3>3. at \in Int /\ i \in Int /\ (at' = at \/ at' = at + 1)
      BY <1>3
    <3>4. k \in Int /\ i + 1 <= k /\ k <= at' - 1
      BY <3>3, <2>2
    <3>5. k \in i + 1 .. at - 1 \/ (k = at /\ at' = at + 1)
      BY <3>3, <3>4
    <3> QED
      BY <3>1, <3>2, <3>5
  <2>3. i < at'
    BY <1>3, <2>1 DEF Untested
  <2>4. Untested(prog, given, i, at')
    BY <2>1, <2>2, <2>3 DEF Untested
  <2> QED
    BY <2>4
<1>6. CASE ~err
  <2>1. /\ Stage.do \in Leaving /\ Applies(Stage)
        /\ Stage.what \in unseen' /\ at' = at + 1
    BY <1>1, <1>6 DEF Heeds
  <2>2. Stage.what \notin Unlooked[prog]
    BY <1>3, <2>1 DEF Known
  <2>3. at + 1 .. at' - 1 = {}
    BY <1>3, <2>1
  <2>4. Untested(prog, given, at, at')
    BY <1>3, <2>1, <2>2, <2>3 DEF Untested, Stage, Applies
  <2> QED
    BY <1>3, <2>4
<1> QED
  BY <1>5, <1>6

(* With that, no step completes anything in an unknown error.              *)
LEMMA HeedImplied ==
    ASSUME HeedInv, [LifeNext]_lifeVars, done' # done, err, ~Known
    PROVE  FALSE
<1>1. TypeOK /\ Heeds
  BY StepHeeds DEF HeedInv
<1>2. /\ status = Running /\ Stage.do \in Completing /\ Applies(Stage)
      /\ prog \in Program /\ at \in 1 .. Len(Script[prog])
  BY <1>1 DEF Heeds, TypeOK
<1>3. PICK i \in 1 .. Len(Script[prog]) : Untested(prog, given, i, at)
  BY <1>2 DEF HeedInv
<1>4. Together(Script[prog][i], Stage)
  BY <1>2, <1>3 DEF Untested, Applies, Together
<1>5. PICK k \in i + 1 .. at - 1 :
          Script[prog][k].do = "test" /\ Unconditional(Script[prog][k])
  BY <1>2, <1>3, <1>4, HeedAssumption DEF Untested, Stage
<1> QED
  BY <1>3, <1>5 DEF Untested

(* Whatever the stages of a program are: if every stage that completes     *)
(* something is kept from those that may leave a message by a test of the  *)
(* error buffer, then nothing is completed with a message in it: mains.    *)
THEOREM NothingIsDoneInError == LifeSpec => NothingDoneInError
<1>1. LifeInit => HeedInv
  BY InitialTypes DEF LifeInit, HeedInv
<1>2. HeedInv /\ [LifeNext]_lifeVars => HeedInv'
  BY HeedPreserved
<1>3. HeedInv /\ [LifeNext]_lifeVars =>
          [done' # done => ~err \/ unseen \cap Unlooked[prog] # {}]_lifeVars
  BY HeedImplied DEF Known
<1> QED
  BY <1>1, <1>2, <1>3, PTL DEF LifeSpec, NothingDoneInError

-----------------------------------------------------------------------------
(* Exit code zero.                                                         *)

(* The stages that set rt, and those that let main go on with a failure.   *)
Coding == {"arguments", "complain", "require", "verdict"}
Trying == {"attempt", "portions"}

(* What a step does to the verdict, to the record of failures and to what  *)
(* was completed.                                                          *)
Codes ==
    /\ rt' = rt \/ (rt' = Stage.rt /\ Stage.do \in Coding)
    /\ usage' => \/ usage
                 \/ Stage.do = "help" /\ Applies(Stage)
                 \/ rt' = Stage.rt /\ Stage.do \in Coding
    /\ at' = at + 1 /\ Stage.do = "verdict" /\ Unconditional(Stage) /\ part # {} =>
           rt' = Stage.rt
Records ==
    /\ done \subseteq done' /\ part \subseteq part'
    /\ unseen' # unseen => /\ unseen' \subseteq unseen \cup {Stage.what}
                           /\ status' = Running => at' = at + 1 /\ Applies(Stage)
                           /\ \/ Stage.do = "report"
                              \/ Stage.do \in Leaving /\ err'
                              \/ Stage.do = "workers" /\ part' # {}
    /\ err /\ ~err' => Stage.do = "report" /\ Applies(Stage)
Passes ==
    at' = at + 1 =>
        /\ Stage.do = "test" /\ Unconditional(Stage) => ~err
        /\ Stage.do = "testnone" /\ Unconditional(Stage) /\ err => done \cup part # {}
        /\ Stage.do \in Completing /\ Applies(Stage) =>
               done' \cup part' # {} \/ (Stage.do \in Trying /\ err')
Concludes ==
    /\ status # Running => UNCHANGED <<status, given, prog, unseen, done, part>>
    /\ status = Running /\ status' = 0 =>
           /\ UNCHANGED <<given, prog, unseen, done, part>>
           /\ \/ Stage.do = "inform" /\ Applies(Stage)
              \/ usage /\ rt % 256 = 0
              \/ Stage.do = "exit" /\ rt % 256 = 0

(* Every step sets rt in this way.                                         *)
LEMMA StepCodes ==
    ASSUME TypeOK, [LifeNext]_lifeVars
    PROVE  Codes
<1>0. /\ at \in Int /\ at + 1 # at /\ status \in Int /\ usage \in BOOLEAN /\ err \in BOOLEAN
      /\ Failed \notin {0, Running} /\ NoMemory \notin {0, Running}
      /\ Crashed \notin {0, Running} /\ Aborted \notin {0, Running}
  BY DEF TypeOK, Failed, NoMemory, Crashed, Aborted, Running
<1> USE <1>0 DEF Codes, Coding, errors, product, verdict, commandLine, Reached, Proceed, Return, Throw
<1>1. CASE Skip
  BY <1>1 DEF Skip, Applies, Unconditional
<1>2. CASE Help
  BY <1>2 DEF Help
<1>3. CASE Inform
  BY <1>3 DEF Inform
<1>4. CASE Arguments
  BY <1>4 DEF Arguments, Misfit
<1>5. CASE Complain
  BY <1>5 DEF Complain
<1>6. CASE Require
  BY <1>6 DEF Require
<1>7. CASE Describe
  BY <1>7 DEF Describe
<1>8. CASE Usage
  BY <1>8 DEF Usage
<1>9. CASE Refuse
  BY <1>9 DEF Refuse
<1>10. CASE Try
  BY <1>10 DEF Try
<1>11. CASE Note
  BY <1>11 DEF Note
<1>12. CASE Report
  BY <1>12 DEF Report
<1>13. CASE Test
  BY <1>13 DEF Test
<1>14. CASE TestNone
  BY <1>14 DEF TestNone
<1>15. CASE Dereference
  BY <1>15 DEF Dereference
<1>16. CASE Open
  BY <1>16 DEF Open
<1>17. CASE Effect
  BY <1>17 DEF Effect
<1>18. CASE Attempt
  BY <1>18 DEF Attempt
<1>19. CASE Verdict
  BY <1>19 DEF Verdict
<1>20. CASE Exit
  BY <1>20 DEF Exit
<1>21. CASE OutOfMemory
  BY <1>21 DEF OutOfMemory
<1>22. CASE \E outcome \in Outcome : Work(outcome)
  BY <1>22 DEF Work, OutcomesOf, Outcome
<1>23. CASE UNCHANGED lifeVars
  BY <1>23 DEF lifeVars, commandLine
<1>24. CASE \E code \in {Crashed, Aborted} : Perish(code)
  BY <1>24 DEF Perish
<1> QED
  BY <1>1, <1>2, <1>3, <1>4, <1>5, <1>6, <1>7, <1>8, <1>9, <1>10, <1>11, <1>12, <1>13, <1>14, <1>15, <1>16, <1>17, <1>18, <1>19, <1>20, <1>21, <1>22, <1>23, <1>24 DEF LifeNext, MainStep

(* Every step records failures and what was done in this way.              *)
LEMMA StepRecords ==
    ASSUME TypeOK, [LifeNext]_lifeVars
    PROVE  Records
<1>0. /\ at \in Int /\ at + 1 # at /\ status \in Int /\ usage \in BOOLEAN /\ err \in BOOLEAN
      /\ Failed \notin {0, Running} /\ NoMemory \notin {0, Running}
      /\ Crashed \notin {0, Running} /\ Aborted \notin {0, Running}
  BY DEF TypeOK, Failed, NoMemory, Crashed, Aborted, Running
<1> USE <1>0 DEF Records, Leaving, errors, product, verdict, commandLine, Reached, Proceed, Return, Throw
<1>1. CASE Skip
  BY <1>1 DEF Skip
<1>2. CASE Help
  BY <1>2 DEF Help
<1>3. CASE Inform
  BY <1>3 DEF Inform
<1>4. CASE Arguments
  BY <1>4 DEF Arguments
<1>5. CASE Complain
  BY <1>5 DEF Complain
<1>6. CASE Require
  BY <1>6 DEF Require
<1>7. CASE Describe
  BY <1>7 DEF Describe
<1>8. CASE Usage
  BY <1>8 DEF Usage
<1>9. CASE Refuse
  BY <1>9 DEF Refuse
<1>10. CASE Try
  BY <1>10 DEF Try
<1>11. CASE Note
  BY <1>11 DEF Note
<1>12. CASE Report
  BY <1>12 DEF Report
<1>13. CASE Test
  BY <1>13 DEF Test
<1>14. CASE TestNone
  BY <1>14 DEF TestNone
<1>15. CASE Dereference
  BY <1>15 DEF Dereference
<1>16. CASE Open
  BY <1>16 DEF Open
<1>17. CASE Effect
  BY <1>17 DEF Effect
<1>18. CASE Attempt
  BY <1>18 DEF Attempt
<1>19. CASE Verdict
  BY <1>19 DEF Verdict
<1>20. CASE Exit
  BY <1>20 DEF Exit
<1>21. CASE OutOfMemory
  BY <1>21 DEF OutOfMemory
<1>22. CASE \E outcome \in Outcome : Work(outcome)
  BY <1>22 DEF Work, OutcomesOf, Outcome
<1>23. CASE UNCHANGED lifeVars
  BY <1>23 DEF lifeVars, commandLine
<1>24. CASE \E code \in {Crashed, Aborted} : Perish(code)
  BY <1>24 DEF Perish
<1> QED
  BY <1>1, <1>2, <1>3, <1>4, <1>5, <1>6, <1>7, <1>8, <1>9, <1>10, <1>11, <1>12, <1>13, <1>14, <1>15, <1>16, <1>17, <1>18, <1>19, <1>20, <1>21, <1>22, <1>23, <1>24 DEF LifeNext, MainStep

(* Every step passes the tests in this way.                                *)
LEMMA StepPasses ==
    ASSUME TypeOK, [LifeNext]_lifeVars
    PROVE  Passes
<1>0. /\ at \in Int /\ at + 1 # at /\ status \in Int /\ usage \in BOOLEAN /\ err \in BOOLEAN
      /\ Failed \notin {0, Running} /\ NoMemory \notin {0, Running}
      /\ Crashed \notin {0, Running} /\ Aborted \notin {0, Running}
  BY DEF TypeOK, Failed, NoMemory, Crashed, Aborted, Running
<1> USE <1>0 DEF Passes, Completing, Trying, errors, product, verdict, commandLine, Reached, Proceed, Return, Throw
<1>1. CASE Skip
  BY <1>1 DEF Skip, Applies, Unconditional
<1>2. CASE Help
  BY <1>2 DEF Help
<1>3. CASE Inform
  BY <1>3 DEF Inform
<1>4. CASE Arguments
  BY <1>4 DEF Arguments
<1>5. CASE Complain
  BY <1>5 DEF Complain
<1>6. CASE Require
  BY <1>6 DEF Require
<1>7. CASE Describe
  BY <1>7 DEF Describe
<1>8. CASE Usage
  BY <1>8 DEF Usage
<1>9. CASE Refuse
  BY <1>9 DEF Refuse
<1>10. CASE Try
  BY <1>10 DEF Try
<1>11. CASE Note
  BY <1>11 DEF Note
<1>12. CASE Report
  BY <1>12 DEF Report
<1>13. CASE Test
  BY <1>13 DEF Test
<1>14. CASE TestNone
  BY <1>14 DEF TestNone
<1>15. CASE Dereference
  BY <1>15 DEF Dereference
<1>16. CASE Open
  BY <1>16 DEF Open
<1>17. CASE Effect
  BY <1>17 DEF Effect
<1>18. CASE Attempt
  BY <1>18 DEF Attempt
<1>19. CASE Verdict
  BY <1>19 DEF Verdict
<1>20. CASE Exit
  BY <1>20 DEF Exit
<1>21. CASE OutOfMemory
  BY <1>21 DEF OutOfMemory
<1>22. CASE \E outcome \in Outcome : Work(outcome)
  BY <1>22 DEF Work, OutcomesOf, Outcome
<1>23. CASE UNCHANGED lifeVars
  BY <1>23 DEF lifeVars, commandLine
<1>24. CASE \E code \in {Crashed, Aborted} : Perish(code)
  BY <1>24 DEF Perish
<1> QED
  BY <1>1, <1>2, <1>3, <1>4, <1>5, <1>6, <1>7, <1>8, <1>9, <1>10, <1>11, <1>12, <1>13, <1>14, <1>15, <1>16, <1>17, <1>18, <1>19, <1>20, <1>21, <1>22, <1>23, <1>24 DEF LifeNext, MainStep

(* Every step ends the program in this way.                                *)
LEMMA StepConcludes ==
    ASSUME TypeOK, [LifeNext]_lifeVars
    PROVE  Concludes
<1>0. /\ at \in Int /\ at + 1 # at /\ status \in Int /\ usage \in BOOLEAN /\ err \in BOOLEAN
      /\ Running # 0 /\ Failed \notin {0, Running} /\ NoMemory \notin {0, Running}
      /\ Crashed \notin {0, Running} /\ Aborted \notin {0, Running}
  BY DEF TypeOK, Failed, NoMemory, Crashed, Aborted, Running
<1> USE <1>0 DEF Concludes, errors, product, verdict, commandLine, Reached, Proceed, Return, Throw
<1>1. CASE Skip
  BY <1>1 DEF Skip
<1>2. CASE Help
  BY <1>2 DEF Help
<1>3. CASE Inform
  BY <1>3 DEF Inform
<1>4. CASE Arguments
  BY <1>4 DEF Arguments
<1>5. CASE Complain
  BY <1>5 DEF Complain
<1>6. CASE Require
  BY <1>6 DEF Require
<1>7. CASE Describe
  BY <1>7 DEF Describe
<1>8. CASE Usage
  BY <1>8 DEF Usage
<1>9. CASE Refuse
  BY <1>9 DEF Refuse
<1>10. CASE Try
  BY <1>10 DEF Try
<1>11. CASE Note
  BY <1>11 DEF Note
<1>12. CASE Report
  BY <1>12 DEF Report
<1>13. CASE Test
  BY <1>13 DEF Test
<1>14. CASE TestNone
  BY <1>14 DEF TestNone
<1>15. CASE Dereference
  BY <1>15 DEF Dereference
<1>16. CASE Open
  BY <1>16 DEF Open
<1>17. CASE Effect
  BY <1>17 DEF Effect
<1>18. CASE Attempt
  BY <1>18 DEF Attempt
<1>19. CASE Verdict
  BY <1>19 DEF Verdict
<1>20. CASE Exit
  BY <1>20 DEF Exit
<1>21. CASE OutOfMemory
  BY <1>21 DEF OutOfMemory
<1>22. CASE \E outcome \in Outcome : Work(outcome)
  BY <1>22 DEF Work, OutcomesOf, Outcome
<1>23. CASE UNCHANGED lifeVars
  BY <1>23 DEF lifeVars, commandLine
<1>24. CASE \E code \in {Crashed, Aborted} : Perish(code)
  BY <1>24 DEF Perish
<1> QED
  BY <1>1, <1>2, <1>3, <1>4, <1>5, <1>6, <1>7, <1>8, <1>9, <1>10, <1>11, <1>12, <1>13, <1>14, <1>15, <1>16, <1>17, <1>18, <1>19, <1>20, <1>21, <1>22, <1>23, <1>24 DEF LifeNext, MainStep

(* The options g lead to stage i of program p.                             *)
Active(p, g, i) == Script[p][i].need \subseteq g /\ Script[p][i].bar \cap g = {}

(* No stage of these kinds that everybody meets is between i and n.        *)
Missing(p, i, n, kinds) ==
    \A k \in i + 1 .. n - 1 :
        ~(Script[p][k].do \in kinds /\ Unconditional(Script[p][k]))

(* Why a failure can be unseen at stage n, and why nothing can be          *)
(* completed: the stage that looks for it is still to come.                *)
LookedForAt(w, i) ==
    /\ Script[prog][i].what = w
    /\ \/ Script[prog][i].do \in Leaving /\ err /\ Missing(prog, i, at, {"test"})
       \/ /\ Script[prog][i].do = "workers" /\ part # {}
          /\ Missing(prog, i, at, {"verdict"}) \/ rt % 256 # 0
Tried(i) ==
    /\ Script[prog][i].do \in Trying /\ err
    /\ Missing(prog, i, at, {"test", "testnone"})

CalledProperly == \E c \in CommandLine[prog] : given = c.given
UsageHasCode == usage /\ "help" \notin given => rt % 256 # 0
FailuresPending ==
    \A w \in unseen \ Tolerated[prog] :
        \E i \in 1 .. at - 1 : Active(prog, given, i) /\ LookedForAt(w, i)
WorkDone ==
    \A i \in 1 .. at - 1 :
        Active(prog, given, i) /\ Script[prog][i].do \in Completing =>
            done \cup part # {} \/ Tried(i)

(* Why exit code zero says that all is well: up to the last stage, every   *)
(* failure has a stage before it that everybody meets and that would not   *)
(* let main return zero.                                                   *)
ZeroInv ==
    /\ TypeOK /\ CalledProperly
    /\ status = Running => UsageHasCode /\ FailuresPending /\ WorkDone
    /\ SuccessIsComplete

(* A program starts that way.                                              *)
LEMMA ZeroInitially ==
    ASSUME LifeInit
    PROVE  ZeroInv
<1>0. TypeOK
  BY InitialTypes
<1>1. /\ TypeOK /\ at = 1 /\ usage = FALSE /\ unseen = {} /\ status = Running
      /\ status # 0
  BY <1>0 DEF LifeInit, Running
<1>2. CalledProperly
  BY DEF LifeInit, CalledProperly
<1>3. 1 .. at - 1 = {}
  BY <1>1
<1>4. SuccessIsComplete
  BY <1>1 DEF SuccessIsComplete
<1>5. UsageHasCode /\ FailuresPending /\ WorkDone
  BY <1>1, <1>3 DEF UsageHasCode, FailuresPending, WorkDone
<1> QED
  BY <1>1, <1>2, <1>4, <1>5 DEF ZeroInv

(* What is missing before stage n is missing before the next one, unless   *)
(* stage n is of that kind.                                                *)
LEMMA MissingExtended ==
    ASSUME TypeOK, NEW i \in 1 .. at - 1, NEW kinds, Missing(prog, i, at, kinds),
           NEW n, n \in {at, at + 1},
           n = at + 1 => ~(Stage.do \in kinds /\ Unconditional(Stage))
    PROVE  Missing(prog, i, n, kinds)
<1>1. at \in Nat /\ i \in Nat /\ n \in Nat
  BY StageType DEF TypeOK
<1> SUFFICES ASSUME NEW k \in i + 1 .. n - 1
             PROVE  ~(Script[prog][k].do \in kinds /\ Unconditional(Script[prog][k]))
  BY DEF Missing
<1>2. k \in i + 1 .. at - 1 \/ (k = at /\ n = at + 1)
  BY <1>1
<1> QED
  BY <1>2 DEF Missing, Stage

(* A message is not taken out of the buffer before it was tested.          *)
LEMMA KeptUntilTested ==
    ASSUME TypeOK, Records, err, NEW i \in 1 .. at - 1, Active(prog, given, i),
           Script[prog][i].do \in Leaving, Missing(prog, i, at, {"test"})
    PROVE  err'
<1> SUFFICES ASSUME ~err' PROVE FALSE
  OBVIOUS
<1>1. Stage.do = "report" /\ Applies(Stage)
  BY DEF Records
<1>2. prog \in Program /\ at \in 1 .. Len(Script[prog]) /\ Len(Script[prog]) \in Nat
  BY StageType DEF TypeOK
<1>3. i \in 1 .. Len(Script[prog]) /\ at \in i + 1 .. Len(Script[prog])
  BY <1>2
<1>4. Together(Script[prog][i], Script[prog][at])
  BY <1>1 DEF Active, Applies, Together, Stage
<1>5. \E k \in i + 1 .. at - 1 :
          Script[prog][k].do = "test" /\ Unconditional(Script[prog][k])
  BY <1>1, <1>2, <1>3, <1>4, NoticeAssumption DEF Stage
<1> QED
  BY <1>5 DEF Missing

(* A stage before the one main is at is before the next one, too.          *)
LEMMA BeforeTheNext ==
    \A n \in Nat : \A a \in 1 .. n : \A b \in {a, a + 1} : \A j \in 1 .. a - 1 :
        j \in 1 .. b - 1 /\ j \in 1 .. n
OBVIOUS

(* The failures stay pending when a program goes on.                       *)
LEMMA FailuresStayPending ==
    ASSUME ZeroInv, [LifeNext]_lifeVars, status' = Running, status = Running
    PROVE  FailuresPending'
<1>1. /\ TypeOK /\ Codes /\ Records /\ Passes /\ Moves
      /\ FailuresPending
  BY StepCodes, StepRecords, StepPasses, StepMoves DEF ZeroInv
<1>2. /\ prog' = prog /\ given' = given /\ prog \in Program
      /\ at \in 1 .. Len(Script[prog]) /\ Len(Script[prog]) \in Nat
      /\ at' \in {at, at + 1}
  BY <1>1, StageType DEF Moves, TypeOK
<1>3. ASSUME NEW w \in unseen \ Tolerated[prog]
      PROVE  \E i \in 1 .. at' - 1 : Active(prog, given, i) /\ LookedForAt(w, i)'
  <2>1. PICK i \in 1 .. at - 1 : Active(prog, given, i) /\ LookedForAt(w, i)
    BY <1>1, <1>3 DEF FailuresPending
  <2>2. i \in 1 .. at' - 1 /\ i \in 1 .. Len(Script[prog])
    BY <1>2, BeforeTheNext
  <2>3. CASE Script[prog][i].do \in Leaving /\ err /\ Missing(prog, i, at, {"test"})
    <3>1. err'
      BY <1>1, <2>1, <2>3, KeptUntilTested
    <3>2. Missing(prog, i, at', {"test"})
      BY <1>1, <1>2, <2>3, MissingExtended DEF Passes
    <3> QED
      BY <1>2, <2>1, <2>2, <2>3, <3>1, <3>2 DEF LookedForAt, Missing
  <2>4. CASE /\ Script[prog][i].do = "workers" /\ part # {}
             /\ Missing(prog, i, at, {"verdict"}) \/ rt % 256 # 0
    <3>1. part' # {}
      BY <1>1, <2>4 DEF Records
    <3>2. CASE rt' % 256 # 0
      BY <1>2, <2>1, <2>2, <2>4, <3>1, <3>2 DEF LookedForAt
    <3>3. CASE rt' % 256 = 0
      <4>1. rt' = rt
        BY <1>1, <1>2, <3>3, CodeAssumption DEF Codes, Coding, Stage
      <4>2. ~(at' = at + 1 /\ Stage.do = "verdict" /\ Unconditional(Stage))
        BY <1>1, <1>2, <2>4, <3>3, CodeAssumption DEF Codes, Stage
      <4>3. Missing(prog, i, at', {"verdict"})
        BY <1>1, <1>2, <2>4, <3>3, <4>1, <4>2, MissingExtended
      <4> QED
        BY <1>2, <2>1, <2>2, <2>4, <3>1, <4>3 DEF LookedForAt, Missing
    <3> QED
      BY <3>2, <3>3
  <2> QED
    BY <2>1, <2>3, <2>4 DEF LookedForAt
<1>4. ASSUME NEW w \in unseen' \ Tolerated[prog], w \notin unseen
      PROVE  \E i \in 1 .. at' - 1 : Active(prog, given, i) /\ LookedForAt(w, i)'
  <2>1. /\ w = Stage.what /\ at' = at + 1 /\ Applies(Stage)
        /\ \/ Stage.do = "report"
           \/ Stage.do \in Leaving /\ err'
           \/ Stage.do = "workers" /\ part' # {}
    BY <1>1, <1>4 DEF Records
  <2>2. Stage.do # "report"
    BY <1>2, <1>4, <2>1, NoticeAssumption DEF Stage
  <2>3. at \in 1 .. at' - 1 /\ at + 1 .. at' - 1 = {}
    BY <1>2, <2>1
  <2>4. Active(prog, given, at)
    BY <2>1 DEF Active, Applies, Stage
  <2>5. PICK i \in 1 .. at' - 1 : i = at
    BY <2>3
  <2>6. Missing(prog, i, at', {"test"}) /\ Missing(prog, i, at', {"verdict"})
    BY <2>3, <2>5 DEF Missing
  <2>7. Script[prog][i].what = w
    BY <2>1, <2>5 DEF Stage
  <2>8. \/ Script[prog][i].do \in Leaving /\ err'
        \/ Script[prog][i].do = "workers" /\ part' # {}
    BY <2>1, <2>2, <2>5 DEF Stage
  <2>9. LookedForAt(w, i)'
    BY <1>2, <2>6, <2>7, <2>8 DEF LookedForAt, Missing
  <2> QED
    BY <2>4, <2>5, <2>9
<1>5. \A w \in unseen' \ Tolerated[prog'] :
          \E i \in 1 .. at' - 1 : Active(prog', given', i) /\ LookedForAt(w, i)'
  BY <1>2, <1>3, <1>4
<1> QED
  BY <1>5 DEF FailuresPending, Active

(* What was to be done stays done.                                         *)
LEMMA WorkStaysDone ==
    ASSUME ZeroInv, [LifeNext]_lifeVars, status' = Running, status = Running
    PROVE  WorkDone'
<1>1. TypeOK /\ Records /\ Passes /\ Moves /\ WorkDone
  BY StepRecords, StepPasses, StepMoves DEF ZeroInv
<1>2. /\ prog' = prog /\ given' = given /\ prog \in Program
      /\ at \in 1 .. Len(Script[prog]) /\ Len(Script[prog]) \in Nat
      /\ at' \in {at, at + 1}
  BY <1>1, StageType DEF Moves, TypeOK
<1>3. ASSUME NEW i \in 1 .. at' - 1, Active(prog, given, i),
             Script[prog][i].do \in Completing, done' \cup part' = {}
      PROVE  Tried(i)'
  <2>1. done \cup part = {}
    BY <1>1, <1>3 DEF Records
  <2>2. CASE i \in 1 .. at - 1
    <3>1. Tried(i)
      BY <1>1, <1>3, <2>1, <2>2 DEF WorkDone
    <3>2. Script[prog][i].do \in Leaving /\ Missing(prog, i, at, {"test"})
      BY <3>1 DEF Tried, Trying, Leaving, Missing
    <3>3. err'
      BY <1>1, <1>3, <2>2, <3>1, <3>2, KeptUntilTested DEF Tried
    <3>4. at' = at + 1 =>
              ~(Stage.do \in {"test", "testnone"} /\ Unconditional(Stage))
      BY <1>1, <2>1, <3>1 DEF Passes, Tried
    <3>5. Missing(prog, i, at, {"test", "testnone"})
      BY <3>1 DEF Tried
    <3>6. Missing(prog, i, at', {"test", "testnone"})
      BY <1>1, <1>2, <2>2, <3>4, <3>5, MissingExtended
    <3> QED
      BY <1>2, <3>1, <3>3, <3>6 DEF Tried, Missing
  <2>3. CASE i = at /\ at' = at + 1
    <3>1. Applies(Stage) /\ Stage.do \in Completing
      BY <1>3, <2>3 DEF Active, Applies, Stage
    <3>2. Stage.do \in Trying /\ err'
      BY <1>1, <1>3, <2>3, <3>1 DEF Passes
    <3>3. i + 1 .. at' - 1 = {}
      BY <1>2, <2>3
    <3> QED
      BY <1>2, <2>3, <3>2, <3>3 DEF Tried, Missing, Stage
  <2>4. i \in 1 .. at - 1 \/ (i = at /\ at' = at + 1)
    <3>1. at \in Int /\ (at' = at \/ at' = at + 1)
      BY <1>2
    <3> QED
      BY <3>1
  <2> QED
    BY <2>2, <2>3, <2>4
<1>4. \A i \in 1 .. at' - 1 :
          Active(prog', given', i) /\ Script[prog'][i].do \in Completing =>
              done' \cup part' # {} \/ Tried(i)'
  BY <1>2, <1>3
<1> QED
  BY <1>4 DEF WorkDone, Active

(* The usage has a code unless it was asked for.                           *)
LEMMA UsageKeepsCode ==
    ASSUME ZeroInv, [LifeNext]_lifeVars, status = Running
    PROVE  UsageHasCode'
<1>1. TypeOK /\ Codes /\ Moves /\ UsageHasCode
  BY StepCodes, StepMoves DEF ZeroInv
<1>2. /\ prog' = prog /\ given' = given /\ prog \in Program
      /\ at \in 1 .. Len(Script[prog])
  BY <1>1 DEF Moves, TypeOK
<1> SUFFICES ASSUME usage', "help" \notin given PROVE rt' % 256 # 0
  BY <1>2 DEF UsageHasCode
<1>3. CASE rt' = Stage.rt /\ Stage.do \in Coding
  BY <1>2, <1>3, CodeAssumption DEF Coding, Stage
<1>4. CASE rt' = rt /\ usage
  BY <1>1, <1>4 DEF UsageHasCode
<1>5. CASE Stage.do = "help" /\ Applies(Stage)
  BY <1>2, <1>5, CodeAssumption DEF Applies, Stage
<1> QED
  BY <1>1, <1>3, <1>4, <1>5 DEF Codes

(* At the last stage nothing is pending any more.                          *)
LEMMA NothingPendingAtExit ==
    ASSUME ZeroInv, status = Running, Stage.do = "exit", rt % 256 = 0,
           given \cap {"help", "license", "version"} = {}
    PROVE  /\ unseen \subseteq Tolerated[prog]
           /\ done \cup part # {} \/ (prog = "strusUpdateStorageCalcStatistics"
                                      /\ "storage" \notin given)
<1>1. /\ prog \in Program /\ at \in 1 .. Len(Script[prog])
      /\ Len(Script[prog]) \in Nat
      /\ FailuresPending /\ WorkDone
  BY StageType DEF ZeroInv, TypeOK
<1>2. at = Len(Script[prog])
  BY <1>1, CodeAssumption DEF Stage
<1>3. ASSUME NEW i \in 1 .. at - 1, NEW kinds, "exit" \notin kinds,
             FollowedBy(prog, i, kinds), Missing(prog, i, at, kinds)
      PROVE  FALSE
  <2>1. PICK k \in i + 1 .. Len(Script[prog]) :
            Script[prog][k].do \in kinds /\ Unconditional(Script[prog][k])
    BY <1>3 DEF FollowedBy
  <2>2. k # at
    BY <1>3, <2>1 DEF Stage
  <2>3. k \in i + 1 .. at - 1
    BY <1>1, <1>2, <2>2
  <2> QED
    BY <1>3, <2>1, <2>3 DEF Missing
<1>4. ASSUME NEW w \in unseen \ Tolerated[prog] PROVE FALSE
  <2>1. PICK i \in 1 .. at - 1 : Active(prog, given, i) /\ LookedForAt(w, i)
    BY <1>1, <1>4 DEF FailuresPending
  <2>2. i \in 1 .. Len(Script[prog]) /\ Script[prog][i].what \notin Tolerated[prog]
    BY <1>1, <1>4, <2>1 DEF LookedForAt
  <2>3. CASE Script[prog][i].do \in Leaving /\ Missing(prog, i, at, {"test"})
    <3>1. FollowedBy(prog, i, {"test"})
      BY <1>1, <2>2, <2>3, NoticeAssumption
    <3> QED
      BY <1>3, <2>3, <3>1
  <2>4. CASE Script[prog][i].do = "workers" /\ Missing(prog, i, at, {"verdict"})
    <3>1. FollowedBy(prog, i, {"verdict"})
      BY <1>1, <2>2, <2>4, NoticeAssumption
    <3> QED
      BY <1>3, <2>4, <3>1
  <2> QED
    BY <2>1, <2>3, <2>4 DEF LookedForAt
<1>5. ASSUME ~(prog = "strusUpdateStorageCalcStatistics" /\ "storage" \notin given)
      PROVE  done \cup part # {}
  <2>1. PICK i \in 1 .. Len(Script[prog]) :
            Script[prog][i].do \in Completing /\ Active(prog, given, i)
    BY <1>1, <1>5, WorkAssumption DEF ZeroInv, CalledProperly, Active
  <2>2. i # at
    BY <2>1 DEF Completing, Stage
  <2>3. i \in 1 .. at - 1
    BY <1>1, <1>2, <2>2
  <2>4. ASSUME Tried(i) PROVE FALSE
    <3>1. FollowedBy(prog, i, {"test", "testnone"})
      BY <1>1, <2>1, <2>4, NoticeAssumption DEF Tried, Trying
    <3> QED
      BY <1>3, <2>3, <2>4, <3>1 DEF Tried
  <2> QED
    BY <1>1, <2>1, <2>3, <2>4 DEF WorkDone
<1> QED
  BY <1>4, <1>5

(* Every step keeps it.                                                    *)
LEMMA ZeroPreserved ==
    ASSUME ZeroInv, [LifeNext]_lifeVars
    PROVE  ZeroInv'
<1>1. TypeOK /\ Concludes /\ Moves /\ SuccessIsComplete
  BY StepConcludes, StepMoves DEF ZeroInv
<1>2. TypeOK'
  BY <1>1, FlagsKeepTheirTypes DEF TypeOK, Moves
<1>3. CalledProperly'
  BY <1>1 DEF Moves, ZeroInv, CalledProperly
<1>4. CASE status # Running
  <2>1. UNCHANGED <<status, given, prog, unseen, done, part>>
    BY <1>1, <1>4 DEF Concludes
  <2>2. SuccessIsComplete'
    BY <1>1, <2>1 DEF SuccessIsComplete
  <2> QED
    BY <1>2, <1>3, <1>4, <2>1, <2>2 DEF ZeroInv
<1>5. CASE status = Running /\ status' = Running
  <2>1. SuccessIsComplete'
    BY <1>5 DEF SuccessIsComplete, Running
  <2> QED
    BY <1>2, <1>3, <1>5, <2>1, UsageKeepsCode, FailuresStayPending, WorkStaysDone
    DEF ZeroInv
<1>6. CASE status = Running /\ status' # Running
  <2> SUFFICES ASSUME status' = 0, given' \cap {"help", "license", "version"} = {}
               PROVE  SuccessIsComplete'
    BY <1>2, <1>3, <1>6 DEF ZeroInv, SuccessIsComplete
  <2>1. /\ UNCHANGED <<given, prog, unseen, done, part>>
        /\ \/ Stage.do = "inform" /\ Applies(Stage)
           \/ usage /\ rt % 256 = 0
           \/ Stage.do = "exit" /\ rt % 256 = 0
    BY <1>1, <1>6 DEF Concludes
  <2>2. prog \in Program /\ at \in 1 .. Len(Script[prog])
    BY <1>1 DEF TypeOK
  <2>3. ASSUME Stage.do = "inform" /\ Applies(Stage) PROVE FALSE
    BY <2>1, <2>2, <2>3, CodeAssumption DEF Applies, Stage
  <2>4. ASSUME usage /\ rt % 256 = 0 PROVE FALSE
    BY <1>6, <2>1, <2>4 DEF ZeroInv, UsageHasCode
  <2>5. Stage.do = "exit" /\ rt % 256 = 0
    BY <2>1, <2>3, <2>4
  <2> QED
    BY <1>6, <2>1, <2>5, NothingPendingAtExit DEF SuccessIsComplete
<1> QED
  BY <1>4, <1>5, <1>6

(* Whatever the stages of a program are: if its failures meet a test, its  *)
(* threads a verdict and its refusals a code, then it returns 0 only when  *)
(* it has done what it is there for: the mains.                            *)
THEOREM ZeroIsComplete == LifeSpec => []SuccessIsComplete
<1>1. LifeInit => ZeroInv
  BY ZeroInitially
<1>2. ZeroInv /\ [LifeNext]_lifeVars => ZeroInv'
  BY ZeroPreserved
<1>3. ZeroInv => SuccessIsComplete
  BY DEF ZeroInv
<1> QED
  BY <1>1, <1>2, <1>3, PTL DEF LifeSpec

-----------------------------------------------------------------------------
(* No program with options that contradict each other returns 0.           *)
RefusedZero ==
    status = 0 /\ given \cap {"help", "license", "version"} = {} =>
        \A c \in Contradiction[prog] : ~(c \subseteq given)

LEMMA RefusedZeroPreserved ==
    ASSUME RefusalInv, ZeroInv, RefusedZero, [LifeNext]_lifeVars
    PROVE  RefusedZero'
<1>1. TypeOK /\ Concludes /\ Moves
  BY StepConcludes, StepMoves DEF ZeroInv
<1>2. CASE status # Running
  BY <1>1, <1>2 DEF Concludes, RefusedZero
<1>3. CASE status = Running /\ status' = 0 /\ given' \cap {"help", "license", "version"} = {}
  <2> SUFFICES ASSUME NEW c \in Contradiction[prog], c \subseteq given PROVE FALSE
    BY <1>1, <1>3 DEF Concludes, RefusedZero
  <2>1. /\ UNCHANGED <<given, prog, unseen, done, part>>
        /\ \/ Stage.do = "inform" /\ Applies(Stage)
           \/ usage /\ rt % 256 = 0
           \/ Stage.do = "exit" /\ rt % 256 = 0
    BY <1>1, <1>3 DEF Concludes
  <2>2. prog \in Program /\ at \in 1 .. Len(Script[prog]) /\ Len(Script[prog]) \in Nat
    BY <1>1, StageType DEF TypeOK
  <2>3. ASSUME Stage.do = "inform" /\ Applies(Stage) PROVE FALSE
    BY <1>3, <2>1, <2>2, <2>3, CodeAssumption DEF Applies, Stage
  <2>4. ASSUME usage /\ rt % 256 = 0 PROVE FALSE
    BY <1>3, <2>1, <2>4 DEF ZeroInv, UsageHasCode
  <2>5. Stage.do = "exit" /\ at = Len(Script[prog])
    BY <2>1, <2>2, <2>3, <2>4, CodeAssumption DEF Stage
  <2>6. ~usage
    BY <2>2, <2>5, UsageIsBehind DEF Stage
  <2>7. PICK r \in 1 .. Len(Script[prog]) : Refuses(prog, r, c)
    BY <2>2, RefusalAssumption DEF Refuses
  <2>8. r # at
    BY <2>5, <2>7 DEF Refuses, Stage
  <2>9. r < at
    BY <2>2, <2>5, <2>8
  <2>10. QED BY <2>6, <2>7, <2>9 DEF RefusalInv, RefusalPassed
<1>4. QED BY <1>2, <1>3 DEF RefusedZero

(* Whatever the stages of a program are: if they meet the assumptions on   *)
(* usage and refusal, a command line that asks for the usage or lacks an   *)
(* argument makes it open nothing, and one that contradicts itself makes   *)
(* it complete nothing and return something else than 0.                   *)
THEOREM NothingIsTouchedInVain == LifeSpec => []RefusedCommandLine
<1>1. LifeInit => RefusalInv /\ ZeroInv /\ RefusedZero
  <2> SUFFICES ASSUME LifeInit PROVE RefusalInv /\ RefusedZero
    BY ZeroInitially
  <2>1. TypeOK
    BY InitialTypes
  <2>2. at = 1 /\ opened = FALSE /\ done = {} /\ part = {} /\ status # 0
    BY DEF LifeInit, Running
  <2> QED
    BY <2>1, <2>2
    DEF RefusalInv, TouchingBegun, Touched, UsagePassed, RefusalPassed, RefusedZero
<1>2. /\ RefusalInv /\ ZeroInv /\ RefusedZero /\ [LifeNext]_lifeVars
      => RefusalInv' /\ ZeroInv' /\ RefusedZero'
  BY RefusalPreserved, ZeroPreserved, RefusedZeroPreserved
<1>3. RefusalInv /\ RefusedZero => RefusedCommandLine
  BY RefusalImplied DEF RefusedCommandLine, RefusedZero, Touched
<1> QED
  BY <1>1, <1>2, <1>3, PTL DEF LifeSpec

-----------------------------------------------------------------------------
(* The listings of strusInspect.                                           *)

(* The items that are listed document by document.                         *)
ListedItems == {"pos", "indexterms", "ff", "ttf", "indexstructs", "attribute",
                "metadata", "content", "fwmap"}
Listed == task.document = AllDocuments /\ task.item \in ListedItems

(* The documents that a listing has shown when it is through.              *)
Expected ==
    LET all == 1 .. MaxDocno
        having == task.having \cap all
        gaps == task.empty /\ task.item # "fwmap"
                /\ ~(task.item = "ff" /\ task.handle > 0)
    IN  {d \in all : d \in having \/ task.item = "ttf"
                     \/ (gaps /\ (task.item \in {"pos", "indexterms"} =>
                                     \E m \in having : d <= m))}

(* The lines l show the documents D, each once and in ascending order.     *)
Shows(l, D, having) ==
    /\ l \in Seq([at : Nat, has : BOOLEAN])
    /\ {l[i].at : i \in DOMAIN l} = D
    /\ \A i, j \in DOMAIN l : i < j => l[i].at < l[j].at
    /\ \A i \in DOMAIN l : l[i].has = (l[i].at \in having)

(* The loop that starts over for ever.                                     *)
StartsOver == task.item = "ff" /\ MaxDocno \notin task.having
                  /\ ~(task.empty /\ task.handle <= 0)

ListingInv ==
    /\ task = <<>> => lines = <<>> /\ wrapped = FALSE /\ result = "none"
    /\ task # <<>> => task \in Task
    /\ task # <<>> /\ Listed /\ result \notin {"throw", "crash"} =>
          /\ docno \in 1 .. MaxDocno + 1
          /\ result \in {"none", "ok"}
          /\ wrapped => result = "none" /\ docno <= MaxDocno /\ StartsOver
          /\ ~wrapped /\ result = "none" =>
                Shows(lines, {d \in Expected : d < docno}, task.having)
          /\ result = "ok" => Shows(lines, Expected, task.having)
    /\ task # <<>> /\ task.document = AllDocuments /\ result = "ok" =>
          task.item \in ListedItems \cup {"value"}

(* The call of a listing.                                                  *)
LEMMA TaskType ==
    ASSUME task \in Task, Listed
    PROVE  /\ MaxDocno \in Nat
           /\ task.having \subseteq 1 .. MaxDocno
           /\ task.empty \in BOOLEAN
           /\ task.handle \in -1 .. 1
BY InspectAssumption DEF Listed

(* What the iterators answer.                                              *)
LEMMA SkipToFinds ==
    ASSUME task.having \subseteq Nat \ {0}, NEW d \in Nat
    PROVE  \/ SkipTo(d) = 0 /\ \A m \in task.having : m < d
           \/ /\ SkipTo(d) \in task.having /\ SkipTo(d) # 0 /\ d <= SkipTo(d)
              /\ \A m \in task.having : d <= m => SkipTo(d) <= m
<1> DEFINE later == {m \in task.having : m >= d}
<1>1. later \subseteq Nat /\ \A m \in task.having : m \in Nat /\ (m \notin later => m < d)
  OBVIOUS
<1>2. SkipTo(d) = IF later = {} THEN 0 ELSE Min(later)
  BY DEF SkipTo
<1>3. CASE later = {}
  BY <1>1, <1>2, <1>3
<1>4. CASE later # {}
  <2>1. Min(later) \in later /\ \A n \in later : Min(later) <= n
    BY <1>1, <1>4, MinOfNumbers
  <2>2. SkipTo(d) = Min(later)
    BY <1>2, <1>4
  <2>3. QED BY <2>1, <2>2
<1>5. QED BY <1>3, <1>4

(* The lines of consecutive documents, behind those of documents before.   *)
LEMMA LinesAppended ==
    ASSUME NEW l, NEW D, Shows(l, D, task.having),
           NEW first \in Nat, NEW last \in Nat, first <= last,
           \A d \in D : d < first
    PROVE  Shows(l \o LinesOf(first, last), D \cup (first .. last), task.having)
<1> DEFINE more == LinesOf(first, last)
           R == [at : Nat, has : BOOLEAN]
           all == l \o more
<1>1. PICK m \in Nat : m = Len(l)
  BY DEF Shows
<1>2. PICK n \in Nat : n = last - first + 1
  OBVIOUS
<1>3. /\ l \in Seq(R) /\ DOMAIN l = 1 .. m
      /\ \A i \in 1 .. m : l[i] \in R
  <2>1. l \in Seq(R)
    BY DEF Shows
  <2> HIDE DEF R
  <2>2. QED BY <1>1, <2>1
<1>4. more = [i \in 1 .. n |-> Line(first + i - 1)]
  BY <1>2 DEF LinesOf
<1>5. \A i \in 1 .. n : /\ more[i] \in R /\ more[i].at = first + i - 1
                        /\ more[i].has = (more[i].at \in task.having)
  <2>1. ASSUME NEW i \in 1 .. n
        PROVE  /\ more[i] \in R /\ more[i].at = first + i - 1
               /\ more[i].has = (more[i].at \in task.having)
    <3>1. first + i - 1 \in Nat
      OBVIOUS
    <3>2. more[i] = Line(first + i - 1)
      BY <1>4
    <3>3. QED BY <3>1, <3>2 DEF Line
  <2>2. QED BY <2>1
<1>6. more \in Seq(R) /\ Len(more) = n
  <2> DEFINE h(i) == Line(first + i - 1)
  <2>1. \A i \in 1 .. n : h(i) \in R
    BY <1>4, <1>5
  <2>2. more = [i \in 1 .. n |-> h(i)]
    BY <1>4
  <2> HIDE DEF R, h, more
  <2>3. QED BY <2>1, <2>2
<1>7. /\ all \in Seq(R) /\ DOMAIN all = 1 .. m + n
      /\ \A i \in 1 .. m : all[i] = l[i]
      /\ \A i \in m + 1 .. m + n : all[i] = more[i - m] /\ i - m \in 1 .. n
  <2> HIDE DEF R, more
  <2>1. /\ all \in Seq(R) /\ Len(all) = m + n
        /\ \A i \in 1 .. m + n : all[i] = IF i <= m THEN l[i] ELSE more[i - m]
    BY <1>1, <1>3, <1>6, ConcatProperties
  <2> HIDE DEF all
  <2>2. \A i \in 1 .. m : i \in 1 .. m + n /\ i <= m
    OBVIOUS
  <2>3. \A i \in m + 1 .. m + n : i \in 1 .. m + n /\ ~(i <= m) /\ i - m \in 1 .. n
    OBVIOUS
  <2>4. DOMAIN all = 1 .. m + n
    BY <2>1
  <2>5. QED BY <2>1, <2>2, <2>3, <2>4
<1> HIDE DEF all, more
<1>8. \A i \in 1 .. m + n : i \in 1 .. m \/ i \in m + 1 .. m + n
  OBVIOUS
<1>9. /\ \A i \in 1 .. m : all[i].at = l[i].at /\ all[i].has = l[i].has /\ l[i].at \in D
      /\ \A i \in m + 1 .. m + n :
            /\ all[i].at = first + (i - m) - 1
            /\ all[i].has = (all[i].at \in task.having)
  <2>1. \A i \in 1 .. m : l[i].at \in D
    BY <1>3 DEF Shows
  <2>2. QED BY <1>5, <1>7, <2>1
<1>10. \A i \in 1 .. m : all[i].at \in Nat /\ all[i].at < first
  BY <1>3, <1>9
<1>11. {all[i].at : i \in DOMAIN all} = D \cup (first .. last)
  <2>1. ASSUME NEW d \in D PROVE \E i \in DOMAIN all : all[i].at = d
    <3>1. PICK i \in 1 .. m : l[i].at = d
      BY <1>3 DEF Shows
    <3>2. i \in 1 .. m + n
      OBVIOUS
    <3>3. QED BY <1>7, <1>9, <3>1, <3>2
  <2>2. ASSUME NEW d \in first .. last PROVE \E i \in DOMAIN all : all[i].at = d
    <3>1. PICK i \in m + 1 .. m + n : d = first + (i - m) - 1
      <4>1. d - first + 1 + m \in m + 1 .. m + n
        BY <1>2
      <4>2. d = first + ((d - first + 1 + m) - m) - 1
        OBVIOUS
      <4>3. QED BY <4>1, <4>2
    <3>2. i \in 1 .. m + n
      OBVIOUS
    <3>3. QED BY <1>7, <1>9, <3>1, <3>2
  <2>3. ASSUME NEW i \in DOMAIN all PROVE all[i].at \in D \cup (first .. last)
    <3>1. CASE i \in 1 .. m
      BY <1>9, <3>1
    <3>2. CASE i \in m + 1 .. m + n
      <4>1. first + (i - m) - 1 \in first .. last
        BY <1>2, <3>2
      <4>2. QED BY <1>9, <3>2, <4>1
    <3>3. QED BY <1>7, <1>8, <3>1, <3>2
  <2>4. QED BY <2>1, <2>2, <2>3
<1>12. ASSUME NEW i \in 1 .. m + n, NEW j \in 1 .. m + n, i < j
       PROVE  all[i].at < all[j].at
  <2>1. CASE i \in 1 .. m /\ j \in 1 .. m
    <3>1. l[i].at < l[j].at
      BY <1>3, <1>12, <2>1 DEF Shows
    <3>2. QED BY <1>9, <2>1, <3>1
  <2>2. CASE i \in 1 .. m /\ j \in m + 1 .. m + n
    <3>1. PICK a \in Nat, b \in Nat : a = all[i].at /\ b = all[j].at /\ a < first
                                      /\ b = first + (j - m) - 1
      <4>1. first + (j - m) - 1 \in Nat
        BY <2>2
      <4>2. QED BY <1>9, <1>10, <2>2, <4>1
    <3>2. a < b
      BY <2>2, <3>1
    <3>3. QED BY <3>1, <3>2
  <2>3. CASE i \in m + 1 .. m + n /\ j \in m + 1 .. m + n
    <3>1. first + (i - m) - 1 < first + (j - m) - 1
      BY <1>12, <2>3
    <3>2. QED BY <1>9, <2>3, <3>1
  <2>4. QED BY <1>8, <1>12, <2>1, <2>2, <2>3
<1>13. \A i \in 1 .. m + n : all[i].has = (all[i].at \in task.having)
  <2>1. \A i \in 1 .. m : l[i].has = (l[i].at \in task.having)
    BY <1>3 DEF Shows
  <2>2. QED BY <1>8, <1>9, <2>1
<1>14. QED BY <1>7, <1>11, <1>12, <1>13 DEF Shows, all, more

-----------------------------------------------------------------------------
(* What every step of a listing has to keep, in terms of the state before. *)
LEMMA ListingGoesOn ==
    ASSUME ListingInv, task # <<>>, task' = task,
           docno' \in 1 .. MaxDocno + 1, result' \in {"none", "ok"},
           wrapped' => result' = "none" /\ docno' <= MaxDocno /\ StartsOver,
           ~wrapped' /\ result' = "none" =>
               Shows(lines', {d \in Expected : d < docno'}, task.having),
           result' = "ok" => Shows(lines', Expected, task.having),
           Listed
    PROVE  ListingInv'
<1>1. Expected' = Expected /\ StartsOver' = StartsOver
  BY DEF Expected, StartsOver
<1>2. QED BY <1>1 DEF ListingInv, Listed

(* The documents that are expected are documents.                          *)
LEMMA ExpectedIsBounded == Expected \subseteq 1 .. MaxDocno
BY DEF Expected

(* A listing at work.                                                      *)
LEMMA ListingAtWork ==
    ASSUME ListingInv, result = "none", task # <<>>, Listed
    PROVE  /\ task \in Task /\ MaxDocno \in Nat
           /\ task.having \subseteq 1 .. MaxDocno /\ task.having \subseteq Nat \ {0}
           /\ docno \in 1 .. MaxDocno + 1
           /\ wrapped => docno <= MaxDocno /\ StartsOver
           /\ ~wrapped => Shows(lines, {d \in Expected : d < docno}, task.having)
BY TaskType DEF ListingInv

(* Document by document.                                                   *)
LEMMA PresentKept ==
    ASSUME ListingInv, result = "none", task # <<>>, Listed, task.item # "ff",
           NEW empty \in BOOLEAN,
           Expected = IF empty THEN 1 .. MaxDocno ELSE task.having \cap (1 .. MaxDocno),
           ListPresent(empty)
    PROVE  ListingInv'
<1> DEFINE D == {d \in Expected : d < docno}
<1>1. /\ MaxDocno \in Nat /\ docno \in 1 .. MaxDocno /\ docno + 1 \in 1 .. MaxDocno + 1
      /\ ~wrapped /\ Shows(lines, D, task.having)
  BY ListingAtWork DEF ListPresent, InLoop, StartsOver
<1>2. /\ docno' = docno + 1 /\ task' = task /\ wrapped' = wrapped /\ result' = result
      /\ lines' = IF empty \/ docno \in task.having
                  THEN lines \o LinesOf(docno, docno) ELSE lines
  BY DEF ListPresent
<1>3. Shows(lines', {d \in Expected : d < docno + 1}, task.having)
  <2>1. CASE empty \/ docno \in task.having
    <3>1. Shows(lines \o LinesOf(docno, docno), D \cup (docno .. docno), task.having)
      <4>1. docno \in Nat /\ docno <= docno /\ \A d \in D : d < docno
        BY <1>1
      <4> HIDE DEF D
      <4>2. QED BY <1>1, <4>1, LinesAppended
    <3>2. D \cup (docno .. docno) = {d \in Expected : d < docno + 1}
      BY <1>1, <2>1
    <3>3. QED BY <1>2, <2>1, <3>1, <3>2
  <2>2. CASE ~(empty \/ docno \in task.having)
    <3>1. D = {d \in Expected : d < docno + 1}
      BY <1>1, <2>2
    <3>2. QED BY <1>1, <1>2, <2>2, <3>1
  <2>3. QED BY <2>1, <2>2
<1>4. QED BY <1>1, <1>2, <1>3, ListingGoesOn

(* The documents up to the next match behind those before.                 *)
LEMMA MatchShown ==
    ASSUME ListingInv, result = "none", task # <<>>, Listed, ~wrapped,
           docno <= MaxDocno,
           NEW next, next = SkipTo(docno), next # 0,
           NEW fills \in BOOLEAN,
           Expected \cap (docno .. next) =
               IF fills THEN docno .. next ELSE task.having \cap (docno .. next)
    PROVE  /\ next \in docno .. MaxDocno
           /\ Shows(lines \o LinesOf(IF fills THEN docno ELSE next, next),
                    {d \in Expected : d < next + 1}, task.having)
<1> DEFINE D == {d \in Expected : d < docno}
           first == IF fills THEN docno ELSE next
<1>1. /\ MaxDocno \in Nat /\ docno \in 1 .. MaxDocno
      /\ task.having \subseteq 1 .. MaxDocno /\ task.having \subseteq Nat \ {0}
      /\ Shows(lines, D, task.having)
  BY ListingAtWork
<1>2. /\ next \in task.having /\ docno <= next
      /\ \A m \in task.having : docno <= m => next <= m
  BY <1>1, SkipToFinds
<1>3. next \in docno .. MaxDocno
  BY <1>1, <1>2
<1>4. first \in Nat /\ first <= next /\ \A d \in D : d < first
  <2>1. D \subseteq Nat /\ \A d \in D : d < docno
    <3>1. 1 .. MaxDocno \subseteq Nat
      BY <1>1
    <3>2. D \subseteq Expected /\ \A d \in D : d < docno
      BY Zenon
    <3>3. QED BY <3>1, <3>2, ExpectedIsBounded, Zenon
  <2> HIDE DEF D
  <2>2. QED BY <1>1, <1>3, <2>1
<1>5. Shows(lines \o LinesOf(first, next), D \cup (first .. next), task.having)
  <2> HIDE DEF D, first
  <2>1. next \in Nat
    BY <1>1, <1>3
  <2>2. QED BY <1>1, <1>4, <2>1, LinesAppended
<1>6. D \cup (first .. next) = {d \in Expected : d < next + 1}
  <2>1. ASSUME NEW d \in Expected PROVE d < docno \/ d \in docno .. next <=> d < next + 1
    BY <1>1, <1>3, ExpectedIsBounded
  <2>2. {d \in Expected : d < next + 1} = D \cup (Expected \cap (docno .. next))
    BY <2>1, <1>3
  <2>3. CASE fills
    BY <2>2, <2>3
  <2>4. CASE ~fills
    <3>1. task.having \cap (docno .. next) = next .. next
      BY <1>1, <1>2, <1>3
    <3>2. QED BY <2>2, <2>4, <3>1
  <2>5. QED BY <2>3, <2>4
<1>7. QED BY <1>3, <1>5, <1>6

(* From match to match.                                                    *)
LEMMA MatchesKept ==
    ASSUME ListingInv, result = "none", task # <<>>, Listed,
           task.item \in {"pos", "indexterms"}, ListMatches
    PROVE  ListingInv'
<1> DEFINE next == SkipTo(docno)
           D == {d \in Expected : d < docno}
<1>1. /\ MaxDocno \in Nat /\ docno \in 1 .. MaxDocno /\ ~wrapped
      /\ task.having \subseteq 1 .. MaxDocno /\ task.having \subseteq Nat \ {0}
      /\ Shows(lines, D, task.having)
      /\ task.empty \in BOOLEAN
  BY ListingAtWork, TaskType DEF ListMatches, InLoop, StartsOver
<1>2. Expected = IF ~task.empty THEN task.having \cap (1 .. MaxDocno)
                 ELSE {d \in 1 .. MaxDocno :
                          \E m \in task.having \cap (1 .. MaxDocno) : d <= m}
  BY DEF Expected
<1>3. CASE next = 0
  <2>1. /\ result' = "ok" /\ lines' = lines /\ task' = task /\ docno' = docno
        /\ wrapped' = wrapped
    BY <1>3 DEF ListMatches, Ending
  <2>2. \A m \in task.having : m < docno
    BY <1>1, <1>3, SkipToFinds
  <2>3. \A d \in Expected : d < docno
    BY <1>1, <1>2, <2>2
  <2>4. D = Expected
    BY <2>3
  <2>5. docno \in 1 .. MaxDocno + 1
    BY <1>1
  <2> HIDE DEF D
  <2>6. QED BY <1>1, <2>1, <2>4, <2>5, ListingGoesOn
<1>4. CASE next # 0
  <2>1. /\ result' = result /\ docno' = next + 1 /\ task' = task /\ wrapped' = wrapped
        /\ lines' = lines \o LinesOf(IF task.empty THEN docno ELSE next, next)
    BY <1>4 DEF ListMatches
  <2>2. next \in task.having /\ docno <= next
    BY <1>1, <1>4, SkipToFinds
  <2>3. Expected \cap (docno .. next) =
            IF task.empty THEN docno .. next ELSE task.having \cap (docno .. next)
    <3> HIDE DEF next
    <3>1. next \in 1 .. MaxDocno
      BY <1>1, <2>2
    <3>2. CASE task.empty
      BY <1>1, <1>2, <2>2, <3>1, <3>2
    <3>3. CASE ~task.empty
      BY <1>1, <1>2, <3>3
    <3>4. QED BY <3>2, <3>3
  <2>4. /\ next \in docno .. MaxDocno
        /\ Shows(lines', {d \in Expected : d < next + 1}, task.having)
    <3>1. next = SkipTo(docno) /\ docno <= MaxDocno
      BY <1>1
    <3> HIDE DEF next
    <3>2. QED BY <1>1, <1>4, <2>1, <2>3, <3>1, MatchShown
  <2> HIDE DEF next
  <2>5. next + 1 \in 1 .. MaxDocno + 1
    BY <1>1, <2>4
  <2>6. QED BY <1>1, <2>1, <2>4, <2>5, ListingGoesOn
<1>5. QED BY <1>3, <1>4

(* The feature frequency, which may start over for ever.                   *)
LEMMA FrequencyKept ==
    ASSUME ListingInv, result = "none", task # <<>>, Listed, FeatureFrequency
    PROVE  ListingInv'
<1> DEFINE next == SkipTo(docno)
           fills == task.empty /\ task.handle <= 0
           D == {d \in Expected : d < docno}
<1>1. /\ MaxDocno \in Nat /\ docno \in 1 .. MaxDocno
      /\ task.having \subseteq 1 .. MaxDocno /\ task.having \subseteq Nat \ {0}
      /\ wrapped => StartsOver
      /\ ~wrapped => Shows(lines, D, task.having)
      /\ task.empty \in BOOLEAN /\ task.handle \in -1 .. 1
  BY ListingAtWork, TaskType DEF FeatureFrequency, InLoop
<1>2. task.item = "ff" /\ fills \in BOOLEAN
  BY <1>1 DEF FeatureFrequency, Listing, At
<1>3. Expected = IF fills THEN 1 .. MaxDocno ELSE task.having \cap (1 .. MaxDocno)
  BY <1>1, <1>2 DEF Expected
<1>4. StartsOver <=> MaxDocno \notin task.having /\ ~fills
  BY <1>2 DEF StartsOver
<1>5. CASE next = 0 /\ fills
  <2>1. /\ result' = "ok" /\ lines' = lines \o LinesOf(docno, MaxDocno)
        /\ task' = task /\ docno' = docno /\ wrapped' = wrapped
    BY <1>5 DEF FeatureFrequency, Ending
  <2>2. ~wrapped
    BY <1>1, <1>4, <1>5
  <2>3. docno \in Nat /\ docno <= MaxDocno /\ \A d \in D : d < docno
    BY <1>1
  <2>4. D \cup (docno .. MaxDocno) = Expected
    BY <1>1, <1>3, <1>5
  <2> HIDE DEF D
  <2>5. Shows(lines', Expected, task.having)
    BY <1>1, <2>1, <2>2, <2>3, <2>4, LinesAppended
  <2>6. docno \in 1 .. MaxDocno + 1
    BY <1>1
  <2>7. QED BY <2>1, <2>2, <2>5, <2>6, ListingGoesOn
<1>6. CASE next = 0 /\ ~fills
  <2>1. result' = result /\ docno' = 1 /\ task' = task /\ wrapped' = TRUE
    BY <1>6 DEF FeatureFrequency
  <2>2. \A m \in task.having : m < docno
    BY <1>1, <1>6, SkipToFinds
  <2>3. MaxDocno \notin task.having
    BY <1>1, <2>2
  <2>4. 1 \in 1 .. MaxDocno + 1 /\ 1 <= MaxDocno
    BY <1>1
  <2>5. StartsOver
    BY <1>4, <1>6, <2>3
  <2>6. QED BY <2>1, <2>4, <2>5, ListingGoesOn
<1>7. CASE next # 0
  <2>1. /\ result' = result /\ docno' = next + 1 /\ task' = task /\ wrapped' = wrapped
        /\ lines' = IF wrapped THEN lines
                    ELSE lines \o LinesOf(IF fills THEN docno ELSE next, next)
    BY <1>7 DEF FeatureFrequency
  <2>2. next \in task.having /\ docno <= next
    BY <1>1, <1>7, SkipToFinds
  <2>3. next = SkipTo(docno) /\ docno <= MaxDocno
    BY <1>1
  <2> HIDE DEF next, fills
  <2>4. next \in 1 .. MaxDocno /\ next + 1 \in 1 .. MaxDocno + 1
    BY <1>1, <2>2
  <2>5. CASE wrapped
    <3>1. next + 1 <= MaxDocno
      BY <1>1, <1>4, <2>2, <2>4, <2>5
    <3>2. QED BY <1>1, <2>1, <2>4, <2>5, <3>1, ListingGoesOn
  <2>6. CASE ~wrapped
    <3>1. Expected \cap (docno .. next) =
              IF fills THEN docno .. next ELSE task.having \cap (docno .. next)
      BY <1>1, <1>3, <2>4
    <3>2. Shows(lines', {d \in Expected : d < next + 1}, task.having)
      BY <1>2, <1>7, <2>1, <2>3, <2>6, <3>1, MatchShown
    <3>3. QED BY <2>1, <2>4, <2>6, <3>2, ListingGoesOn
  <2>7. QED BY <2>5, <2>6
<1>8. QED BY <1>5, <1>6, <1>7

(* Every step keeps what is known of the lines of a listing.               *)
LEMMA StepKeepsListing ==
    ASSUME ListingInv, [InspectNext]_inspectVars
    PROVE  ListingInv'
<1>1. ASSUME NEW t \in Task, BeginInspect(t) PROVE ListingInv'
  <2>1. /\ lines' = <<>> /\ wrapped' = FALSE /\ result' = "none"
        /\ task' = t /\ docno' = 1
    BY <1>1 DEF BeginInspect, ListingInv
  <2>2. MaxDocno \in Nat /\ 1 \in 1 .. MaxDocno + 1
    BY InspectAssumption
  <2>3. Expected' \subseteq 1 .. MaxDocno
    BY DEF Expected
  <2>4. {d \in Expected' : d < 1} = {}
    <3>1. \A d \in 1 .. MaxDocno : ~(d < 1)
      BY <2>2
    <3>2. QED BY <2>3, <3>1
  <2>5. Shows(<<>>, {}, task'.having)
    BY DEF Shows
  <2>6. ~wrapped' /\ result' = "none" =>
            Shows(lines', {d \in Expected' : d < docno'}, task'.having)
    BY <2>1, <2>4, <2>5
  <2>7. QED BY <2>1, <2>2, <2>6 DEF ListingInv
<1>2. ASSUME InspectStep PROVE ListingInv'
  <2>1. result = "none" /\ task # <<>> /\ task' = task
    BY <1>2 DEF InspectStep, CannotStart, NoReader, LastDocument, Positions, IndexTerms,
         FeatureFrequency, IndexStructures, DocAttribute, DocMetaData, Content, DocumentTermTypeStats,
         ForwardIndexMap, OneDocument, NoSuchDocument, FieldContents, OneValue,
         ListMatches, ListPresent, Ending, Listing, At
  <2>2. CASE ~Listed
    <3>1. ASSUME task.document = AllDocuments, result' = "ok" PROVE task.item = "value"
      <4>1. task.item \notin ListedItems
        BY <2>2, <3>1 DEF Listed
      <4>2. ~(task.document > UnknownDocument)
        BY <3>1 DEF AllDocuments, UnknownDocument
      <4>3. OneValue \/ NoSuchDocument \/ CannotStart \/ NoReader
        BY <1>2, <4>1, <4>2 DEF InspectStep, LastDocument, Positions, IndexTerms,
           FeatureFrequency, IndexStructures, DocAttribute, DocMetaData, Content,
           DocumentTermTypeStats, ForwardIndexMap, OneDocument, FieldContents,
           Listing, At, ListedItems
      <4>4. QED BY <3>1, <4>3 DEF OneValue, NoSuchDocument, CannotStart, NoReader, At, Ending
    <3>2. QED BY <2>1, <2>2, <3>1 DEF ListingInv, Listed
  <2>3. CASE Listed
    <3>1. CASE LastDocument
      <4>1. /\ docno' = docno /\ result' = "ok" /\ lines' = lines /\ wrapped' = wrapped
            /\ ~(docno <= MaxDocno)
        BY <3>1 DEF LastDocument, Ending, InLoop
      <4>2. /\ ~wrapped /\ docno \in 1 .. MaxDocno + 1 /\ MaxDocno \in Nat
            /\ Shows(lines, {d \in Expected : d < docno}, task.having)
        BY <2>1, <2>3, <4>1, ListingAtWork
      <4>3. {d \in Expected : d < docno} = Expected
        <5>1. MaxDocno < docno
          BY <4>1, <4>2
        <5>2. \A d \in Expected : d < docno
          <6> SUFFICES ASSUME NEW d \in 1 .. MaxDocno PROVE d < docno
            BY ExpectedIsBounded
          <6>1. docno \in Nat /\ MaxDocno \in Nat
            BY <4>2
          <6>2. QED BY <5>1, <6>1
        <5>3. QED BY <5>2
      <4>4. QED BY <2>1, <2>3, <4>1, <4>2, <4>3, ListingGoesOn
    <3>2. CASE Positions \/ IndexTerms
      BY <2>1, <2>3, <3>2, MatchesKept DEF Positions, IndexTerms, Listing, At
    <3>3. CASE FeatureFrequency
      BY <2>1, <2>3, <3>3, FrequencyKept
    <3>4. CASE IndexStructures \/ DocAttribute \/ DocMetaData \/ Content
      <4>1. /\ task.item \in {"indexstructs", "attribute", "metadata", "content"}
            /\ ListPresent(task.empty)
        BY <3>4 DEF IndexStructures, DocAttribute, DocMetaData, Content, Listing, At
      <4>2. Expected = IF task.empty THEN 1 .. MaxDocno
                       ELSE task.having \cap (1 .. MaxDocno)
        BY <4>1 DEF Expected
      <4>3. task.empty \in BOOLEAN
        BY <2>1, <2>3, ListingAtWork, TaskType
      <4>4. QED BY <2>1, <2>3, <4>1, <4>2, <4>3, PresentKept
    <3>5. CASE DocumentTermTypeStats
      <4>1. task.item = "ttf" /\ ListPresent(TRUE)
        BY <3>5 DEF DocumentTermTypeStats, Listing, At
      <4>2. Expected = 1 .. MaxDocno
        BY <4>1 DEF Expected
      <4>3. QED BY <2>1, <2>3, <4>1, <4>2, PresentKept
    <3>6. CASE ForwardIndexMap
      <4>1. task.item = "fwmap" /\ ListPresent(FALSE)
        BY <3>6 DEF ForwardIndexMap, Listing, At
      <4>2. Expected = task.having \cap (1 .. MaxDocno)
        BY <4>1 DEF Expected
      <4>3. QED BY <2>1, <2>3, <4>1, <4>2, PresentKept
    <3>7. CASE OneDocument \/ NoSuchDocument \/ FieldContents \/ OneValue
      BY <2>3, <3>7 DEF OneDocument, NoSuchDocument, FieldContents, OneValue, At, Listed,
           ListedItems, AllDocuments, UnknownDocument
    <3>8. CASE CannotStart \/ NoReader
      BY <2>1, <3>8 DEF CannotStart, NoReader, Ending, ListingInv
    <3>9. QED
      BY <1>2, <3>1, <3>2, <3>3, <3>4, <3>5, <3>6, <3>7, <3>8 DEF InspectStep
  <2>4. QED BY <2>2, <2>3
<1>3. CASE UNCHANGED inspectVars
  BY <1>3 DEF inspectVars, ListingInv, Listed, StartsOver, Expected
<1>4. QED BY <1>1, <1>2, <1>3 DEF InspectNext

(* That is what is asked for, but for the documents that are left out.     *)
LEMMA ExpectedIsWanted ==
    ASSUME task \in Task, Listed
    PROVE  Expected = Wanted \ LeftOut
<1>1. /\ MaxDocno \in Nat /\ task.having \subseteq 1 .. MaxDocno
      /\ \A d \in 1 .. MaxDocno : d \in Nat
  BY TaskType
<1>2. ASSUME NEW d \in 1 .. MaxDocno
      PROVE  (\A m \in task.having : m < d)
             <=> ~(\E m \in task.having \cap (1 .. MaxDocno) : d <= m)
  <2>1. \A m \in task.having : m < d <=> ~(d <= m)
    BY <1>1
  <2>2. QED BY <1>1, <2>1
<1>3. ASSUME NEW d \in 1 .. MaxDocno, d \in task.having
      PROVE  ~(\A m \in task.having : m < d)
  BY <1>1, <1>3
<1>4. ASSUME NEW d \in 1 .. MaxDocno
      PROVE  d \in Expected <=> d \in Wanted /\ d \notin LeftOut
  <2>1. (\A m \in task.having : m < d)
        <=> ~(\E m \in task.having \cap (1 .. MaxDocno) : d <= m)
    BY <1>2
  <2>2. d \in task.having => ~(\A m \in task.having : m < d)
    BY <1>3
  <2>3. QED BY <2>1, <2>2 DEF Expected, Wanted, LeftOut
<1>5. Expected \subseteq 1 .. MaxDocno /\ Wanted \subseteq 1 .. MaxDocno
  BY DEF Expected, Wanted
<1>6. QED BY <1>4, <1>5

(* A listing of all documents that ends has shown each document that it is *)
(* asked for once, but for those that are left out, in ascending order,    *)
(* and has said of each whether it has the item, for any index and any     *)
(* call: the loops of the inspect functions.                               *)
THEOREM ListingsAreComplete == InspectSpec => []ListingIsComplete
<1>1. InspectInit => ListingInv
  BY DEF InspectInit, ListingInv
<1>2. ListingInv /\ [InspectNext]_inspectVars => ListingInv'
  BY StepKeepsListing
<1>3. ListingInv => ListingIsComplete
  <2> SUFFICES ASSUME ListingInv, Finished
               PROVE  /\ ~wrapped
                      /\ Shows(lines, Wanted \ LeftOut, task.having)
    BY DEF ListingIsComplete, Shows, Shown
  <2>1. task # <<>> /\ task \in Task /\ Listed
    BY DEF ListingInv, Listed, ListedItems, Finished
  <2>2. QED BY <2>1, ExpectedIsWanted DEF ListingInv, Finished
<1>4. QED BY <1>1, <1>2, <1>3, PTL DEF InspectSpec

-----------------------------------------------------------------------------
(* The threads of strusPatternMatcher, for any number of them and any files.*)

Position == {"fetch", "next", "file", "document", "scan", "ended"}
Context == [at : Position, todo : Seq(Range(File)), file : Range(File) \cup {Nothing},
            doc : Nat, seg : Nat, ordposOffset : Nat, headed : BOOLEAN,
            input : Seq(Nat \X Nat), buffer : Range(File) \cup {Nothing}]

(* A thread that works on a file has one, and is at one of its documents.  *)
Placed(c) ==
    /\ c.at \in {"file", "document", "scan"} => c.file \in Range(File)
    /\ c.at \in {"document", "scan"} => c.doc \in 1 .. Len(DocumentsOf(c.file))
    /\ c.at = "scan" => c.seg \in Nat \ {0}

MatcherType ==
    /\ fileitr \in Nat
    /\ mode = <<>> => ctx = <<>> /\ failed = {}
    /\ mode # <<>> => /\ mode \in Mode
                      /\ ctx \in [mode.threads -> Context]
                      /\ \A t \in mode.threads : Placed(ctx[t])

(* A way to call the program is not that of the program not yet called.    *)
LEMMA ModeIsNone ==
    ASSUME NEW m \in Mode
    PROVE  m # <<>>
<1>1. "threads" \in DOMAIN m
  BY DEF Mode
<1>2. DOMAIN <<>> = {}
  OBVIOUS
<1> QED
  BY <1>1, <1>2

(* The threads start idle.                                                 *)
LEMMA BeginKeepsTypes ==
    ASSUME MatcherType,
           NEW m \in Mode, BeginMatching(m)
    PROVE  MatcherType'
<1>1. mode' = m /\ ctx' = [t \in m.threads |-> Idle] /\ fileitr' = fileitr
  BY DEF BeginMatching
<1>2. mode' # <<>>
  BY <1>1, ModeIsNone
<1>3. Idle \in Context /\ \A c : c = Idle => Placed(c)'
  BY DEF Idle, Context, Position, Placed
<1> QED
  BY <1>1, <1>2, <1>3 DEF MatcherType

(* A step is one of a thread that exists; it changes its own context only, *)
(* and the program was begun.                                              *)
LEMMA ThreadExists ==
    ASSUME MatcherType, NEW t, NEW step, ThreadAt(t, step)
    PROVE  /\ mode # <<>> /\ t \in mode.threads /\ ctx \in [mode.threads -> Context]
           /\ DOMAIN ctx = mode.threads
           /\ ctx[t] \in Context /\ Placed(ctx[t]) /\ ctx[t].at = step
<1>1. t \in DOMAIN ctx /\ ctx[t].at = step
  BY DEF ThreadAt
<1>2. mode # <<>>
  <2> SUFFICES ASSUME mode = <<>> PROVE FALSE
    OBVIOUS
  <2>1. ctx = <<>>
    BY DEF MatcherType
  <2>2. DOMAIN ctx = {}
    BY <2>1
  <2> QED
    BY <1>1, <2>2
<1> QED
  BY <1>1, <1>2 DEF MatcherType

(* The type is kept if the new context of the thread has it.               *)
LEMMA TypeOfStep ==
    ASSUME MatcherType, NEW t \in mode.threads, mode # <<>>, NEW c \in Context, Placed(c),
           ctx' = [ctx EXCEPT ![t] = c], fileitr' \in Nat, mode' = mode
    PROVE  MatcherType'
<1>1. ctx' \in [mode.threads -> Context]
  BY DEF MatcherType
<1>2. \A s \in mode.threads : Placed(ctx'[s])
  BY DEF MatcherType
<1>3. \A d : Placed(d) <=> Placed(d)'
  BY DEF Placed, DocumentsOf
<1> QED
  BY <1>1, <1>2, <1>3 DEF MatcherType

(* A thread that gets files, or the end of them.                           *)
LEMMA FetchKeepsTypes ==
    ASSUME MatcherType, NEW t, FetchFiles(t)
    PROVE  MatcherType'
<1>1. /\ mode # <<>> /\ t \in mode.threads /\ ctx[t] \in Context /\ mode.fetch \in Nat
      /\ fileitr \in Nat /\ mode' = mode
  BY ThreadExists DEF FetchFiles, MatcherType, Mode
<1> DEFINE upto == IF fileitr + mode.fetch < Len(File) THEN fileitr + mode.fetch
                   ELSE Len(File)
<1>2. CASE fileitr < Len(File)
  <2>1. upto \in Nat /\ upto <= Len(File)
    BY <1>1, MatcherAssumption
  <2>2. SubSeq(File, fileitr + 1, upto) \in Seq(Range(File))
    BY <1>1, <2>1, MatcherAssumption
  <2> DEFINE c == [ctx[t] EXCEPT !.at = "next", !.todo = SubSeq(File, fileitr + 1, upto)]
  <2>3. c \in Context /\ Placed(c)
    BY <1>1, <2>2 DEF Context, Position, Placed
  <2>4. ctx' = [ctx EXCEPT ![t] = c] /\ fileitr' = upto
    BY <1>2 DEF FetchFiles
  <2> QED
    BY <1>1, <2>1, <2>3, <2>4, TypeOfStep
<1>3. CASE ~(fileitr < Len(File))
  <2> DEFINE c == [ctx[t] EXCEPT !.at = "ended", !.buffer = Nothing]
  <2>1. c \in Context /\ Placed(c)
    BY <1>1 DEF Context, Position, Placed
  <2>2. ctx' = [ctx EXCEPT ![t] = c] /\ fileitr' = fileitr
    BY <1>3 DEF FetchFiles
  <2> QED
    BY <1>1, <2>1, <2>2, TypeOfStep
<1> QED
  BY <1>2, <1>3

(* A thread that takes the next of its files.                              *)
LEMMA NextKeepsTypes ==
    ASSUME MatcherType, NEW t, NextFile(t)
    PROVE  MatcherType'
<1>1. /\ mode # <<>> /\ t \in mode.threads /\ ctx[t] \in Context
      /\ fileitr' \in Nat /\ mode' = mode
  BY ThreadExists DEF NextFile, Continues, MatcherType
<1>2. CASE ctx[t].todo = <<>>
  <2> DEFINE c == [ctx[t] EXCEPT !.at = "fetch", !.file = Nothing]
  <2>1. c \in Context /\ Placed(c)
    BY <1>1 DEF Context, Position, Placed
  <2>2. ctx' = [ctx EXCEPT ![t] = c]
    BY <1>2 DEF NextFile
  <2> QED
    BY <1>1, <2>1, <2>2, TypeOfStep
<1>3. CASE ctx[t].todo # <<>>
  <2>1. Head(ctx[t].todo) \in Range(File) /\ Tail(ctx[t].todo) \in Seq(Range(File))
    BY <1>1, <1>3 DEF Context
  <2> DEFINE c == [ctx[t] EXCEPT !.at = "file", !.file = Head(ctx[t].todo),
                                 !.todo = Tail(ctx[t].todo)]
  <2>2. c \in Context /\ Placed(c)
    BY <1>1, <2>1 DEF Context, Position, Placed
  <2>3. ctx' = [ctx EXCEPT ![t] = c]
    BY <1>3 DEF NextFile
  <2> QED
    BY <1>1, <2>2, <2>3, TypeOfStep
<1> QED
  BY <1>2, <1>3

(* After a failure the thread is at the next file.                         *)
LEMMA FailureKeepsTypes ==
    ASSUME MatcherType, NEW t, NEW step, ThreadAt(t, step),
           FailsAlone(t) \/ FailsFor(t) \/ MemoryFails(t)
    PROVE  MatcherType'
<1>1. /\ mode # <<>> /\ t \in mode.threads /\ ctx[t] \in Context /\ fileitr \in Nat
  BY ThreadExists DEF MatcherType
<1>2. mode' = mode /\ fileitr' = fileitr
  BY DEF FailsAlone, FailsFor, MemoryFails
<1> DEFINE c == [ctx[t] EXCEPT !.at = "next", !.buffer = Nothing]
           d == [ctx[t] EXCEPT !.at = "next"]
<1>3. c \in Context /\ Placed(c) /\ d \in Context /\ Placed(d)
  BY <1>1 DEF Context, Position, Placed
<1>4. ctx' = [ctx EXCEPT ![t] = c] \/ ctx' = [ctx EXCEPT ![t] = d]
  BY DEF FailsAlone, FailsFor, MemoryFails, Caught
<1> QED
  BY <1>1, <1>2, <1>3, <1>4, TypeOfStep

Lexems == Seq(Nat \ {0})
(* What a file is read as is a nonempty sequence of documents.             *)
LEMMA DocumentsType ==
    ASSUME NEW f \in Range(File)
    PROVE  DocumentsOf(f) \in Seq(Seq(Lexems)) /\ Len(DocumentsOf(f)) \in Nat \ {0}
<1>1. Documents[f] \in Seq(Seq(Lexems)) /\ Documents[f] # <<>>
  BY MatcherAssumption DEF Lexems
<1>2. Len(Documents[f]) \in Nat /\ Len(Documents[f]) >= 1 /\ Documents[f][1] \in Seq(Lexems)
  BY <1>1
<1>3. <<Documents[f][1]>> \in Seq(Seq(Lexems)) /\ Len(<<Documents[f][1]>>) = 1
  BY <1>2
<1> QED
  BY <1>1, <1>2, <1>3 DEF DocumentsOf

(* The segments of the document a thread is at.                            *)
LEMMA SegmentsType ==
    ASSUME NEW t, Placed(ctx[t]), ctx[t].at \in {"document", "scan"}
    PROVE  Segments(t) \in Seq(Lexems)
BY DocumentsType DEF Placed, Segments

(* A thread that opens its file, or fails to.                              *)
LEMMA OpenFileKeepsTypes ==
    ASSUME MatcherType, NEW t, OpenFile(t)
    PROVE  MatcherType'
<1>1. /\ mode # <<>> /\ t \in mode.threads /\ ctx[t] \in Context /\ fileitr \in Nat
      /\ ThreadAt(t, "file") /\ ctx[t].file \in Range(File)
  BY ThreadExists DEF OpenFile, MatcherType, Placed
<1>2. CASE Fails(t) \/ FailsFor(t)
  BY <1>1, <1>2, FailureKeepsTypes DEF Fails
<1>3. CASE Continues /\ ctx' = [ctx EXCEPT ![t].at = "document", ![t].doc = 1]
  <2> DEFINE c == [ctx[t] EXCEPT !.at = "document", !.doc = 1]
  <2>1. /\ c \in Context
        /\ c.at = "document" /\ c.file = ctx[t].file /\ c.doc = 1
    BY <1>1 DEF Context, Position
  <2>2. c.doc \in 1 .. Len(DocumentsOf(c.file))
    BY <1>1, <2>1, DocumentsType
  <2>3. Placed(c)
    BY <1>1, <2>1, <2>2 DEF Placed
  <2>4. ctx' = [ctx EXCEPT ![t] = c] /\ mode' = mode /\ fileitr' = fileitr
    BY <1>3 DEF Continues
  <2> QED
    BY <1>1, <2>1, <2>3, <2>4, TypeOfStep
<1> QED
  BY <1>2, <1>3 DEF OpenFile

(* A thread that begins a document, or fails to.                           *)
LEMMA OpenDocumentKeepsTypes ==
    ASSUME MatcherType, NEW t, OpenDocument(t)
    PROVE  MatcherType'
<1>1. /\ mode # <<>> /\ t \in mode.threads /\ ctx[t] \in Context /\ fileitr \in Nat
      /\ ThreadAt(t, "document") /\ Placed(ctx[t]) /\ ctx[t].at = "document"
  BY ThreadExists DEF OpenDocument, MatcherType
<1>2. CASE Fails(t)
  BY <1>1, <1>2, FailureKeepsTypes DEF Fails
<1>3. CASE ~Fails(t)
  <2> DEFINE c == [ctx[t] EXCEPT !.at = "scan", !.seg = 1, !.headed = mode.always,
                                 !.ordposOffset = 0, !.input = <<>>]
  <2>1. <<>> \in Seq(Nat \X Nat) /\ mode.always \in BOOLEAN
    BY <1>1 DEF MatcherType, Mode
  <2>2. /\ c \in Context
        /\ c.at = "scan" /\ c.file = ctx[t].file /\ c.doc = ctx[t].doc /\ c.seg = 1
    BY <1>1, <2>1 DEF Context, Position
  <2>3. Placed(c)
    BY <1>1, <2>2 DEF Placed
  <2>4. ctx' = [ctx EXCEPT ![t] = c] /\ mode' = mode /\ fileitr' = fileitr
    BY <1>3 DEF OpenDocument, Continues
  <2> QED
    BY <1>1, <2>2, <2>3, <2>4, TypeOfStep
<1> QED
  BY <1>2, <1>3

(* Lexems moved by an offset are lexems, as many as before.                *)
LEMMA ShiftedType ==
    ASSUME NEW lexems \in Lexems, NEW offset \in Nat
    PROVE  /\ Shifted(lexems, offset) \in Lexems
           /\ DOMAIN Shifted(lexems, offset) = DOMAIN lexems
           /\ NextOffset(lexems, offset) \in Nat
<1>1. Len(lexems) \in Nat /\ DOMAIN lexems = 1 .. Len(lexems)
      /\ \A i \in DOMAIN lexems : lexems[i] \in Nat \ {0}
  BY DEF Lexems
<1>2. Shifted(lexems, offset) = [i \in 1 .. Len(lexems) |-> lexems[i] + offset]
  BY <1>1 DEF Shifted
<1>3. Shifted(lexems, offset) \in Lexems /\ Len(Shifted(lexems, offset)) = Len(lexems)
  BY <1>1, <1>2 DEF Lexems
<1>4. CASE lexems = <<>>
  BY <1>1, <1>2, <1>3, <1>4 DEF NextOffset
<1>5. CASE lexems # <<>>
  <2>1. Len(lexems) \in 1 .. Len(lexems)
    BY <1>1, <1>5 DEF Lexems
  <2>2. Last(Shifted(lexems, offset)) = lexems[Len(lexems)] + offset
    BY <1>2, <1>3, <2>1 DEF Last
  <2> QED
    BY <1>1, <1>2, <1>3, <1>5, <2>1, <2>2 DEF NextOffset
<1> QED
  BY <1>4, <1>5

(* The tokens of a segment as they are appended to the input.              *)
Numbered(seg, lexems, offset) ==
    [i \in DOMAIN lexems |-> <<seg, Shifted(lexems, offset)[i]>>]
(* The input for the matcher is a sequence of pairs of numbers.            *)
LEMMA NumberedType ==
    ASSUME NEW seg \in Nat, NEW lexems \in Lexems, NEW offset \in Nat
    PROVE  Numbered(seg, lexems, offset) \in Seq(Nat \X Nat)
<1>1. Len(lexems) \in Nat /\ DOMAIN lexems = 1 .. Len(lexems)
  BY DEF Lexems
<1>2. \A i \in 1 .. Len(lexems) : Shifted(lexems, offset)[i] \in Nat
  <2>1. \A i \in 1 .. Len(lexems) : lexems[i] \in Nat /\ lexems[i] + offset \in Nat
    BY <1>1 DEF Lexems
  <2> QED
    BY <1>1, <2>1 DEF Shifted
<1>3. \A i \in 1 .. Len(lexems) : <<seg, Shifted(lexems, offset)[i]>> \in Nat \X Nat
  BY <1>2
<1>4. Numbered(seg, lexems, offset)
          = [i \in 1 .. Len(lexems) |-> <<seg, Shifted(lexems, offset)[i]>>]
  BY <1>1 DEF Numbered
<1>5. Numbered(seg, lexems, offset) \in [1 .. Len(lexems) -> Nat \X Nat]
  BY <1>3, <1>4
<1> QED
  BY <1>1, <1>5

(* What a scan changes in a context.                                       *)
LEMMA AdvancedType ==
    ASSUME NEW c \in Context, Placed(c), NEW s \in Nat \ {0}, NEW o \in Nat,
           NEW h \in BOOLEAN, NEW i \in Seq(Nat \X Nat), NEW new,
           new = [c EXCEPT !.seg = s, !.ordposOffset = o, !.headed = h, !.input = i]
    PROVE  new \in Context /\ Placed(new)
<1>1. new \in Context
  BY DEF Context
<1>2. new.at = c.at /\ new.file = c.file /\ new.doc = c.doc /\ new.seg = s
  BY DEF Context
<1>3. (c.at = "scan") => s \in Nat \ {0}
  OBVIOUS
<1> QED
  BY <1>1, <1>2, <1>3 DEF Placed

ScannedBy(c, lexems) ==
    [c EXCEPT !.seg = @ + 1, !.ordposOffset = NextOffset(lexems, c.ordposOffset),
              !.headed = @ \/ (mode.tokens /\ lexems # <<>>),
              !.input = @ \o Numbered(c.seg, lexems, c.ordposOffset)]
(* The context of a thread that has read a segment.                        *)
LEMMA ScannedType ==
    ASSUME NEW c \in Context, Placed(c), NEW lexems \in Lexems
    PROVE  ScannedBy(c, lexems) \in Context /\ Placed(ScannedBy(c, lexems))
<1>1. c.seg \in Nat /\ c.ordposOffset \in Nat /\ c.input \in Seq(Nat \X Nat)
  BY DEF Context
<1> DEFINE more == Numbered(c.seg, lexems, c.ordposOffset)
           new == ScannedBy(c, lexems)
<1>2. NextOffset(lexems, c.ordposOffset) \in Nat
  BY <1>1, ShiftedType
<1>3. more \in Seq(Nat \X Nat)
  BY <1>1, NumberedType
<1>4. c.input \o more \in Seq(Nat \X Nat)
  <2> HIDE DEF more
  <2> QED
    BY <1>1, <1>3
<1>5. c.seg + 1 \in Nat \ {0}
  BY <1>1
<1> DEFINE headed == c.headed \/ (mode.tokens /\ lexems # <<>>)
<1>6. new = [c EXCEPT !.seg = c.seg + 1, !.ordposOffset = NextOffset(lexems, c.ordposOffset),
                      !.headed = headed, !.input = c.input \o more]
  BY DEF ScannedBy, Context
<1>7. headed \in BOOLEAN
  <2>1. \A b, e : (b \/ e) \in BOOLEAN
    OBVIOUS
  <2>2. c.headed \in BOOLEAN
    BY DEF Context
  <2> QED
    BY <2>1, <2>2
<1> HIDE DEF more, new, headed
<1>8. new \in Context /\ Placed(new)
  BY <1>2, <1>4, <1>5, <1>6, <1>7, AdvancedType, Zenon
<1> QED
  BY <1>8 DEF new

(* A thread that reads a segment, or fails to.                             *)
LEMMA ScanKeepsTypes ==
    ASSUME MatcherType, NEW t, ScanSegment(t)
    PROVE  MatcherType'
<1>1. /\ mode # <<>> /\ t \in mode.threads /\ ctx[t] \in Context /\ fileitr \in Nat
      /\ ThreadAt(t, "scan") /\ Placed(ctx[t]) /\ ctx[t].at = "scan"
      /\ ctx[t].seg <= Len(Segments(t))
  BY ThreadExists DEF ScanSegment, MatcherType
<1> DEFINE lexems == Segments(t)[ctx[t].seg]
           c == ScannedBy(ctx[t], lexems)
           d == [c EXCEPT !.buffer = ctx[t].file]
<1>2. lexems \in Lexems
  BY <1>1, SegmentsType DEF Placed
<1>3. c \in Context /\ Placed(c)
  BY <1>1, <1>2, ScannedType
<1>4. d \in Context /\ Placed(d)
  BY <1>1, <1>3 DEF Context, Placed
<1>5. CASE Fails(t) \/ FailsFor(t)
  BY <1>1, <1>5, FailureKeepsTypes DEF Fails
<1>6. CASE ~(Fails(t) \/ FailsFor(t))
  <2>1. mode' = mode /\ fileitr' = fileitr
    BY <1>6 DEF ScanSegment, Continues
  <2>2. ctx' = [ctx EXCEPT ![t] = c] \/ ctx' = [ctx EXCEPT ![t] = d]
    BY <1>6 DEF ScanSegment, ScannedBy, Numbered
  <2> QED
    BY <1>1, <1>3, <1>4, <2>1, <2>2, TypeOfStep
<1> QED
  BY <1>5, <1>6

(* A thread that prints its results, or fails to.                          *)
LEMMA PrintKeepsTypes ==
    ASSUME MatcherType, NEW t, PrintResults(t)
    PROVE  MatcherType'
<1>1. /\ mode # <<>> /\ t \in mode.threads /\ ctx[t] \in Context /\ fileitr \in Nat
      /\ ThreadAt(t, "scan") /\ Placed(ctx[t]) /\ ctx[t].at = "scan"
  BY ThreadExists DEF PrintResults, MatcherType
<1>2. CASE FailsAlone(t) \/ FailsFor(t)
  BY <1>1, <1>2, FailureKeepsTypes
<1>3. CASE ~(FailsAlone(t) \/ FailsFor(t))
  <2>1. mode' = mode /\ fileitr' = fileitr
    BY <1>3 DEF PrintResults, Fails, Continues
  <2>2. CASE ctx[t].doc < Len(DocumentsOf(ctx[t].file))
    <3> DEFINE c == [ctx[t] EXCEPT !.at = "document", !.doc = @ + 1]
    <3>1. ctx[t].file \in Range(File) /\ ctx[t].doc \in Nat
          /\ Len(DocumentsOf(ctx[t].file)) \in Nat
      BY <1>1, DocumentsType DEF Context, Placed
    <3>2. ctx[t].doc + 1 \in 1 .. Len(DocumentsOf(ctx[t].file))
      BY <2>2, <3>1
    <3>3. /\ c \in Context
          /\ c.at = "document" /\ c.file = ctx[t].file /\ c.doc = ctx[t].doc + 1
      <4>1. ctx[t] \in Context
        BY <1>1
      <4>2. PICK n \in Nat : n = ctx[t].doc + 1
        BY <3>1
      <4>3. c = [ctx[t] EXCEPT !.at = "document", !.doc = n]
        BY <4>2
      <4> HIDE DEF c
      <4> QED
        BY <4>1, <4>2, <4>3 DEF Context, Position
    <3>4. Placed(c)
      BY <3>1, <3>2, <3>3 DEF Placed
    <3>5. ctx' = [ctx EXCEPT ![t] = c]
      BY <1>3, <2>2 DEF PrintResults, Fails
    <3> QED
      BY <1>1, <2>1, <3>3, <3>4, <3>5, TypeOfStep
  <2>3. CASE ~(ctx[t].doc < Len(DocumentsOf(ctx[t].file)))
    <3> DEFINE c == [ctx[t] EXCEPT !.at = "next"]
    <3>1. c \in Context /\ Placed(c)
      BY <1>1 DEF Context, Position, Placed
    <3>2. ctx' = [ctx EXCEPT ![t] = c]
      BY <1>3, <2>3 DEF PrintResults, Fails
    <3> QED
      BY <1>1, <2>1, <3>1, <3>2, TypeOfStep
  <2> QED
    BY <2>2, <2>3
<1> QED
  BY <1>2, <1>3

(* Every step keeps every variable in its set.                             *)
LEMMA StepKeepsTypes ==
    ASSUME MatcherType, [MatcherNext]_matcherVars
    PROVE  MatcherType'
<1>1. ASSUME NEW m \in Mode, BeginMatching(m) PROVE MatcherType'
  BY <1>1, BeginKeepsTypes
<1>2. ASSUME NEW t \in Thread \cup {0}, MatchStep(t)
      PROVE  MatcherType'
  <2>1. CASE FetchFiles(t)
    BY <2>1, FetchKeepsTypes
  <2>2. CASE NextFile(t)
    BY <2>2, NextKeepsTypes
  <2>3. CASE OpenFile(t)
    BY <2>3, OpenFileKeepsTypes
  <2>4. CASE OpenDocument(t)
    BY <2>4, OpenDocumentKeepsTypes
  <2>5. CASE ScanSegment(t)
    BY <2>5, ScanKeepsTypes
  <2>6. CASE PrintResults(t)
    BY <2>6, PrintKeepsTypes
  <2>7. CASE MemoryFails(t)
    <3>1. PICK step \in {"file", "document", "scan"} : ThreadAt(t, step)
      BY <2>7 DEF MemoryFails
    <3> QED
      BY <2>7, <3>1, FailureKeepsTypes
  <2> QED
    BY <1>2, <2>1, <2>2, <2>3, <2>4, <2>5, <2>6, <2>7 DEF MatchStep
<1>3. CASE UNCHANGED <<mode, fileitr, ctx, failed>>
  <2>1. \A d : Placed(d) <=> Placed(d)'
    BY <1>3 DEF Placed, DocumentsOf
  <2> QED
    BY <1>3, <2>1 DEF MatcherType
<1> QED
  BY <1>1, <1>2, <1>3 DEF MatcherNext, LoseStream, matcherVars

-----------------------------------------------------------------------------

(* What a thread has in its error buffer is a failure of a file where      *)
(* memory ran out, or of the one whose segments it scans; ended, nothing.  *)
Held(c, failures, outOfMemory) ==
    /\ c.buffer # Nothing =>
           /\ c.buffer \in failures
           /\ c.buffer \in outOfMemory \/ (c.at = "scan" /\ c.buffer = c.file)
    /\ c.at = "ended" => c.buffer = Nothing

(* A line blames the file that failed, another one only if out of memory.  *)
Fair(line, failures, outOfMemory) ==
    /\ line[2] \in failures
    /\ line[1] # line[2] => line[2] \in outOfMemory
Told(f, reports) == \E line \in reports : line[2] = f

(* A file with a line of its own is told.                                  *)
LEMMA LineTells ==
    ASSUME NEW reports, NEW f, NEW g, <<f, g>> \in reports
    PROVE  Told(g, reports)
<1>1. <<f, g>>[2] = g
  OBVIOUS
<1> QED
  BY <1>1 DEF Told

(* What a thread tells gets into the error output if that is not lost.     *)
LEMMA TellAdds ==
    ASSUME NEW t, NEW entries, Tell(t, entries)
    PROVE  /\ told \subseteq told' /\ told' \ told \subseteq entries
           /\ ~Lost("errors") => told' = told \cup entries
<1>1. <<"errors", t>>[1] = "errors"
  OBVIOUS
<1>2. ~Lost("errors") => <<"errors", t>> \notin lost
  BY <1>1 DEF Lost
<1> QED
  BY <1>2 DEF Tell

(* A failure is told, or still in the error buffer of a thread, if no error*)
(* output is lost.                                                         *)
BlameInv ==
    /\ failed \subseteq Range(File)
    /\ \A line \in told : Fair(line, failed, exhausted)
    /\ \A t \in DOMAIN ctx : Held(ctx[t], failed, exhausted)
    /\ ~Lost("errors") =>
           \A f \in failed : Told(f, told) \/ \E t \in DOMAIN ctx : ctx[t].buffer = f

(* The invariant is kept if a step of a thread loses nothing.              *)
LEMMA BlameOfStep ==
    ASSUME BlameInv, NEW t \in DOMAIN ctx, NEW c, ctx' = [ctx EXCEPT ![t] = c],
           told \subseteq told', failed \subseteq failed', exhausted \subseteq exhausted',
           lost' = lost, failed' \subseteq Range(File),
           \A line \in told' \ told : Fair(line, failed', exhausted'),
           Held(c, failed', exhausted'),
           \/ ctx[t].buffer = Nothing \/ c.buffer = ctx[t].buffer
           \/ ~Lost("errors") => Told(ctx[t].buffer, told'),
           ~Lost("errors") => \A f \in failed' \ failed : c.buffer = f \/ Told(f, told')
    PROVE  BlameInv'
<1>1. DOMAIN ctx' = DOMAIN ctx /\ ctx'[t] = c
      /\ \A s \in DOMAIN ctx : s # t => ctx'[s] = ctx[s]
  OBVIOUS
<1>2. \A line \in told' : Fair(line, failed', exhausted')
  BY DEF BlameInv, Fair
<1>3. ASSUME NEW s \in DOMAIN ctx
      PROVE  Held(ctx'[s], failed', exhausted')
  BY <1>1 DEF BlameInv, Held
<1>4. ASSUME ~Lost("errors"), NEW f \in failed'
      PROVE  Told(f, told') \/ \E s \in DOMAIN ctx : ctx'[s].buffer = f
  <2>1. CASE f \in failed' \ failed
    BY <1>1, <1>4, <2>1
  <2>2. CASE f \in failed /\ Told(f, told)
    BY <2>2 DEF Told
  <2>3. ASSUME f \in failed, NEW s \in DOMAIN ctx, ctx[s].buffer = f
        PROVE  Told(f, told') \/ \E r \in DOMAIN ctx : ctx'[r].buffer = f
    <3>1. CASE s # t
      BY <1>1, <2>3, <3>1
    <3>2. CASE s = t
      <4>1. f # Nothing
        BY <2>3, MatcherAssumption DEF BlameInv
      <4> QED
        BY <1>1, <1>4, <2>3, <3>2, <4>1
    <3> QED
      BY <3>1, <3>2
  <2> QED
    BY <1>4, <2>1, <2>2, <2>3 DEF BlameInv
<1>5. Lost("errors")' <=> Lost("errors")
  BY DEF Lost
<1> QED
  BY <1>1, <1>2, <1>3, <1>4, <1>5 DEF BlameInv, Fair, Held, Told

(* The same if the step changes neither the output nor what has failed.    *)
LEMMA BlameOfProgress ==
    ASSUME BlameInv, NEW t \in DOMAIN ctx, NEW c, ctx' = [ctx EXCEPT ![t] = c],
           UNCHANGED <<lost, told, failed, exhausted>>,
           c.buffer = ctx[t].buffer, c.at # "ended",
           ctx[t].at = "scan" /\ ctx[t].buffer # Nothing =>
               c.at = "scan" /\ c.file = ctx[t].file
    PROVE  BlameInv'
<1>1. Held(ctx[t], failed, exhausted) /\ failed \subseteq Range(File)
  BY DEF BlameInv
<1>2. Held(c, failed', exhausted')
  BY <1>1 DEF Held
<1> QED
  BY <1>1, <1>2, BlameOfStep

(* Fetching files blames none.                                             *)
LEMMA FetchKeepsBlame ==
    ASSUME MatcherType, BlameInv, NEW t, FetchFiles(t)
    PROVE  BlameInv'
<1>1. t \in DOMAIN ctx /\ ctx[t] \in Context /\ ctx[t].at = "fetch"
      /\ failed' = failed /\ exhausted' = exhausted /\ lost' = lost
  BY ThreadExists DEF FetchFiles
<1>2. Held(ctx[t], failed, exhausted) /\ failed \subseteq Range(File)
  BY <1>1 DEF BlameInv
<1>3. CASE fileitr < Len(File)
  <2> DEFINE upto == IF fileitr + mode.fetch < Len(File) THEN fileitr + mode.fetch
                     ELSE Len(File)
             c == [ctx[t] EXCEPT !.at = "next", !.todo = SubSeq(File, fileitr + 1, upto)]
  <2>1. ctx' = [ctx EXCEPT ![t] = c] /\ told' = told
    BY <1>3 DEF FetchFiles
  <2>2. c.buffer = ctx[t].buffer /\ c.at = "next"
    BY <1>1 DEF Context
  <2> HIDE DEF c
  <2> QED
    BY <1>1, <2>1, <2>2, BlameOfProgress
<1>4. CASE ~(fileitr < Len(File))
  <2> DEFINE c == [ctx[t] EXCEPT !.at = "ended", !.buffer = Nothing]
  <2>1. /\ ctx' = [ctx EXCEPT ![t] = c]
        /\ Tell(t, {<<Nothing, o>> : o \in {ctx[t].buffer} \ {Nothing}})
    BY <1>4 DEF FetchFiles
  <2>2. c.buffer = Nothing /\ c.at = "ended"
    BY <1>1 DEF Context
  <2>3. Held(c, failed', exhausted')
    BY <2>2 DEF Held
  <2> DEFINE entries == {<<Nothing, o>> : o \in {ctx[t].buffer} \ {Nothing}}
  <2>4. /\ told \subseteq told' /\ told' \ told \subseteq entries
        /\ ~Lost("errors") => told' = told \cup entries
    BY <2>1, TellAdds
  <2>5. \A line \in told' \ told : Fair(line, failed', exhausted')
    <3>1. \A line \in entries : /\ line = <<Nothing, ctx[t].buffer>>
                              /\ ctx[t].buffer # Nothing
      OBVIOUS
    <3> QED
      BY <1>1, <1>2, <2>4, <3>1 DEF Fair, Held
  <2>6. ctx[t].buffer = Nothing \/ (~Lost("errors") => Told(ctx[t].buffer, told'))
    BY <2>4, LineTells
  <2> HIDE DEF c, entries
  <2> QED
    BY <1>1, <1>2, <2>1, <2>3, <2>4, <2>5, <2>6, BlameOfStep
<1> QED
  BY <1>3, <1>4

(* Neither does taking the next one.                                       *)
LEMMA NextKeepsBlame ==
    ASSUME MatcherType, BlameInv, NEW t, NextFile(t)
    PROVE  BlameInv'
<1>1. t \in DOMAIN ctx /\ ctx[t] \in Context /\ ctx[t].at = "next"
      /\ UNCHANGED <<lost, told, failed, exhausted>>
  BY ThreadExists DEF NextFile, Continues
<1> DEFINE c == [ctx[t] EXCEPT !.at = "fetch", !.file = Nothing]
           d == [ctx[t] EXCEPT !.at = "file", !.file = Head(ctx[t].todo),
                               !.todo = Tail(ctx[t].todo)]
<1>2. ctx' = [ctx EXCEPT ![t] = c] \/ ctx' = [ctx EXCEPT ![t] = d]
  BY DEF NextFile
<1>3. c.buffer = ctx[t].buffer /\ c.at = "fetch" /\ d.buffer = ctx[t].buffer /\ d.at = "file"
  BY <1>1 DEF Context
<1> HIDE DEF c, d
<1> QED
  BY <1>1, <1>2, <1>3, BlameOfProgress

(* A failure is told in the name of the file, which is at a file.          *)
LEMMA FailureKeepsBlame ==
    ASSUME MatcherType, BlameInv, NEW t, NEW step \in {"file", "document", "scan"},
           ThreadAt(t, step), FailsAlone(t) \/ FailsFor(t) \/ MemoryFails(t)
    PROVE  BlameInv'
<1>1. t \in DOMAIN ctx /\ ctx[t] \in Context /\ ctx[t].file \in Range(File)
  BY ThreadExists DEF Placed
<1>2. Held(ctx[t], failed, exhausted) /\ failed \subseteq Range(File)
  BY <1>1 DEF BlameInv
<1> DEFINE c == [ctx[t] EXCEPT !.at = "next", !.buffer = Nothing]
           d == [ctx[t] EXCEPT !.at = "next"]
<1>3. c.buffer = Nothing /\ c.at = "next" /\ d.buffer = ctx[t].buffer /\ d.at = "next"
  BY <1>1 DEF Context
<1> HIDE DEF c, d
<1>4. ASSUME NEW own \in BOOLEAN, Caught(t, own),
             failed' = failed \cup (IF own THEN {ctx[t].file} ELSE {}),
             exhausted' = exhausted, lost' = lost
      PROVE  BlameInv'
  <2>1. ctx' = [ctx EXCEPT ![t] = c]
    BY <1>4 DEF Caught, c
  <2> DEFINE entries == {<<ctx[t].file, o>> : o \in
                   ((IF own THEN {ctx[t].file} ELSE {}) \cup {ctx[t].buffer}) \ {Nothing}}
  <2>2. /\ told \subseteq told' /\ told' \ told \subseteq entries
        /\ ~Lost("errors") => told' = told \cup entries
    BY <1>4, TellAdds DEF Caught
  <2>3. /\ own => <<ctx[t].file, ctx[t].file>> \in entries
        /\ ctx[t].buffer # Nothing => <<ctx[t].file, ctx[t].buffer>> \in entries
    BY <1>1, MatcherAssumption
  <2>4. \A line \in told' \ told : Fair(line, failed', exhausted')
    <3>1. ASSUME NEW line \in entries
          PROVE  \E o : /\ line = <<ctx[t].file, o>>
                        /\ \/ own /\ o = ctx[t].file
                           \/ ctx[t].buffer # Nothing /\ o = ctx[t].buffer
      OBVIOUS
    <3> QED
      BY <1>2, <1>4, <2>2, <3>1 DEF Fair, Held
  <2> HIDE DEF entries
  <2>5. ctx[t].buffer = Nothing \/ (~Lost("errors") => Told(ctx[t].buffer, told'))
    BY <2>2, <2>3, LineTells
  <2>6. ~Lost("errors") => \A f \in failed' \ failed : Told(f, told')
    BY <1>4, <2>2, <2>3, LineTells
  <2>7. Held(c, failed', exhausted')
    BY <1>3 DEF Held
  <2> QED
    BY <1>1, <1>2, <1>4, <2>1, <2>2, <2>4, <2>5, <2>6, <2>7, BlameOfStep
<1>5. CASE FailsAlone(t)
  BY <1>4, <1>5 DEF FailsAlone
<1>6. CASE FailsFor(t)
  BY <1>4, <1>6 DEF FailsFor
<1>7. CASE MemoryFails(t)
  <2> DEFINE entries == {<<ctx[t].file, ctx[t].file>>}
  <2>1. /\ Tell(t, entries) /\ lost' = lost /\ ctx' = [ctx EXCEPT ![t] = d]
        /\ failed' = failed \cup {ctx[t].file} /\ exhausted' = exhausted \cup {ctx[t].file}
    BY <1>7 DEF MemoryFails, d
  <2>2. Held(d, failed', exhausted')
    BY <1>2, <1>3, <2>1 DEF Held
  <2>3. /\ told \subseteq told' /\ told' \ told \subseteq entries
        /\ ~Lost("errors") => told' = told \cup entries
    BY <2>1, TellAdds
  <2>4. \A line \in told' \ told : Fair(line, failed', exhausted')
    BY <2>1, <2>3 DEF Fair
  <2>5. ~Lost("errors") => \A f \in failed' \ failed : Told(f, told')
    <3>1. ~Lost("errors") => <<ctx[t].file, ctx[t].file>> \in told'
      BY <2>3
    <3>2. ~Lost("errors") => Told(ctx[t].file, told')
      BY <3>1, LineTells
    <3> QED
      BY <2>1, <3>2
  <2> QED
    BY <1>1, <1>2, <1>3, <2>1, <2>2, <2>3, <2>4, <2>5, BlameOfStep
<1> QED
  BY <1>5, <1>6, <1>7

(* A file that cannot be opened is blamed itself.                          *)
LEMMA OpenFileKeepsBlame ==
    ASSUME MatcherType, BlameInv, NEW t, OpenFile(t)
    PROVE  BlameInv'
<1>1. t \in DOMAIN ctx /\ ctx[t] \in Context /\ ThreadAt(t, "file") /\ ctx[t].at = "file"
  BY ThreadExists DEF OpenFile
<1>2. CASE Fails(t) \/ FailsFor(t)
  BY <1>1, <1>2, FailureKeepsBlame DEF Fails
<1>3. CASE ~(Fails(t) \/ FailsFor(t))
  <2> DEFINE c == [ctx[t] EXCEPT !.at = "document", !.doc = 1]
  <2>1. ctx' = [ctx EXCEPT ![t] = c] /\ UNCHANGED <<lost, told, failed, exhausted>>
    BY <1>3 DEF OpenFile, Continues
  <2>2. c.buffer = ctx[t].buffer /\ c.at = "document"
    BY <1>1 DEF Context
  <2> HIDE DEF c
  <2> QED
    BY <1>1, <2>1, <2>2, BlameOfProgress
<1> QED
  BY <1>2, <1>3

(* So is a file with a document that cannot be begun,                      *)
LEMMA OpenDocumentKeepsBlame ==
    ASSUME MatcherType, BlameInv, NEW t, OpenDocument(t)
    PROVE  BlameInv'
<1>1. t \in DOMAIN ctx /\ ctx[t] \in Context /\ ThreadAt(t, "document")
      /\ ctx[t].at = "document"
  BY ThreadExists DEF OpenDocument
<1>2. CASE Fails(t)
  BY <1>1, <1>2, FailureKeepsBlame DEF Fails
<1>3. CASE ~Fails(t)
  <2> DEFINE c == [ctx[t] EXCEPT !.at = "scan", !.seg = 1, !.headed = mode.always,
                                 !.ordposOffset = 0, !.input = <<>>]
  <2>1. ctx' = [ctx EXCEPT ![t] = c] /\ UNCHANGED <<lost, told, failed, exhausted>>
    BY <1>3 DEF OpenDocument, Continues
  <2>2. c.buffer = ctx[t].buffer /\ c.at = "scan"
    BY <1>1 DEF Context
  <2> HIDE DEF c
  <2> QED
    BY <1>1, <2>1, <2>2, BlameOfProgress
<1> QED
  BY <1>2, <1>3

(* with a segment that cannot be read,                                     *)
LEMMA ScanKeepsBlame ==
    ASSUME MatcherType, BlameInv, NEW t, ScanSegment(t)
    PROVE  BlameInv'
<1>1. t \in DOMAIN ctx /\ ctx[t] \in Context /\ ThreadAt(t, "scan") /\ ctx[t].at = "scan"
      /\ ctx[t].file \in Range(File)
  BY ThreadExists DEF ScanSegment, Placed
<1>2. failed \subseteq Range(File)
  BY DEF BlameInv
<1> DEFINE lexems == Segments(t)[ctx[t].seg]
           c == ScannedBy(ctx[t], lexems)
           d == [c EXCEPT !.buffer = ctx[t].file]
<1>3. c.buffer = ctx[t].buffer /\ c.at = "scan" /\ c.file = ctx[t].file
      /\ d.buffer = ctx[t].file /\ d.at = "scan" /\ d.file = ctx[t].file
  BY <1>1 DEF Context, ScannedBy
<1>4. \/ Fails(t) \/ FailsFor(t)
      \/ ctx' = [ctx EXCEPT ![t] = c] /\ UNCHANGED <<lost, told, failed, exhausted>>
      \/ /\ ctx' = [ctx EXCEPT ![t] = d] /\ UNCHANGED <<lost, told, exhausted>>
         /\ failed' = failed \cup {ctx[t].file} /\ ~Pending(t)
  BY DEF ScanSegment, Continues, ScannedBy, Numbered
<1> HIDE DEF c, d
<1>5. CASE Fails(t) \/ FailsFor(t)
  BY <1>1, <1>5, FailureKeepsBlame DEF Fails
<1>6. CASE ctx' = [ctx EXCEPT ![t] = c] /\ UNCHANGED <<lost, told, failed, exhausted>>
  BY <1>1, <1>3, <1>6, BlameOfProgress
<1>7. CASE /\ ctx' = [ctx EXCEPT ![t] = d] /\ UNCHANGED <<lost, told, exhausted>>
           /\ failed' = failed \cup {ctx[t].file} /\ ~Pending(t)
  <2>1. Held(d, failed', exhausted')
    BY <1>3, <1>7 DEF Held
  <2>2. ctx[t].buffer = Nothing /\ \A f \in failed' \ failed : d.buffer = f
    BY <1>3, <1>7 DEF Pending
  <2> QED
    BY <1>1, <1>2, <1>7, <2>1, <2>2, BlameOfStep
<1> QED
  BY <1>4, <1>5, <1>6, <1>7

(* or with results that cannot be printed.                                 *)
LEMMA PrintKeepsBlame ==
    ASSUME MatcherType, BlameInv, NEW t, PrintResults(t)
    PROVE  BlameInv'
<1>1. t \in DOMAIN ctx /\ ctx[t] \in Context /\ ThreadAt(t, "scan")
  BY ThreadExists DEF PrintResults
<1>2. CASE FailsAlone(t) \/ FailsFor(t)
  BY <1>1, <1>2, FailureKeepsBlame
<1>3. CASE ~(FailsAlone(t) \/ FailsFor(t))
  <2> DEFINE c == [ctx[t] EXCEPT !.at = "document", !.doc = @ + 1]
             d == [ctx[t] EXCEPT !.at = "next"]
  <2>1. ctx[t].buffer = Nothing /\ UNCHANGED <<lost, told, failed, exhausted>>
    BY <1>3 DEF PrintResults, Pending, Fails, Continues
  <2>2. ctx' = [ctx EXCEPT ![t] = c] \/ ctx' = [ctx EXCEPT ![t] = d]
    BY <1>3 DEF PrintResults, Fails
  <2>3. c.buffer = ctx[t].buffer /\ c.at = "document"
        /\ d.buffer = ctx[t].buffer /\ d.at = "next"
    BY <1>1 DEF Context
  <2> HIDE DEF c, d
  <2> QED
    BY <1>1, <2>1, <2>2, <2>3, BlameOfProgress
<1> QED
  BY <1>2, <1>3

(* Every step keeps what is known of the entries and the failures.           *)
LEMMA StepKeepsBlame ==
    ASSUME MatcherType, BlameInv, [MatcherNext]_matcherVars
    PROVE  BlameInv'
<1>1. ASSUME NEW m \in Mode, BeginMatching(m) PROVE BlameInv'
  <2>1. failed = {} /\ UNCHANGED <<told, failed, exhausted>>
        /\ ctx' = [t \in m.threads |-> Idle]
    BY <1>1 DEF BeginMatching, MatcherType
  <2>2. Held(Idle, failed', exhausted')
    BY DEF Held, Idle
  <2> QED
    BY <2>1, <2>2 DEF BlameInv
<1>2. ASSUME NEW t \in Thread \cup {0}, MatchStep(t)
      PROVE  BlameInv'
  <2>1. CASE FetchFiles(t)
    BY <2>1, FetchKeepsBlame
  <2>2. CASE NextFile(t)
    BY <2>2, NextKeepsBlame
  <2>3. CASE OpenFile(t)
    BY <2>3, OpenFileKeepsBlame
  <2>4. CASE OpenDocument(t)
    BY <2>4, OpenDocumentKeepsBlame
  <2>5. CASE ScanSegment(t)
    BY <2>5, ScanKeepsBlame
  <2>6. CASE PrintResults(t)
    BY <2>6, PrintKeepsBlame
  <2>7. CASE MemoryFails(t)
    <3>1. PICK step \in {"file", "document", "scan"} : ThreadAt(t, step)
      BY <2>7 DEF MemoryFails
    <3> QED
      BY <2>7, <3>1, FailureKeepsBlame
  <2> QED
    BY <1>2, <2>1, <2>2, <2>3, <2>4, <2>5, <2>6, <2>7 DEF MatchStep
<1>3. CASE UNCHANGED <<ctx, told, failed, exhausted>> /\ lost \subseteq lost'
  <2>1. Lost("errors") => Lost("errors")'
    BY <1>3 DEF Lost
  <2> QED
    BY <1>3, <2>1 DEF BlameInv, Held, Fair, Told
<1> QED
  BY <1>1, <1>2, <1>3 DEF MatcherNext, LoseStream, matcherVars

(* What is known of them is what the property says.                        *)
LEMMA BlameIsTold ==
    ASSUME MatcherType, BlameInv
    PROVE  BlamedForItsOwn
<1>1. \A line \in told : line[2] \in failed /\ (line[1] # line[2] => line[2] \in exhausted)
  BY DEF BlameInv, Fair
<1>2. ASSUME MatchingEnded, ~Lost("errors"), NEW f \in failed
      PROVE  \E line \in told : line[2] = f
  <2>1. f # Nothing
    BY MatcherAssumption DEF BlameInv
  <2>2. \A t \in DOMAIN ctx : ctx[t].buffer = Nothing
    BY <1>2 DEF BlameInv, Held, MatchingEnded
  <2> QED
    BY <1>2, <2>1, <2>2 DEF BlameInv, Told
<1> QED
  BY <1>1, <1>2 DEF BlamedForItsOwn

(* The error output of the pattern matcher blames a file for its own       *)
(* failure, or for that of a file where memory ran out, and when the       *)
(* threads have ended it tells of every failure, unless an error output is *)
(* lost, for any threads and files: the handlers of run and the end of the *)
(* loop over fetchFiles.                                                   *)
THEOREM MatcherBlamesRightly == MatcherSpec => []BlamedForItsOwn
<1>1. MatcherInit => MatcherType /\ BlameInv
  BY DEF MatcherInit, MatcherType, BlameInv, Held, Fair, Told
<1>2. MatcherType /\ BlameInv /\ [MatcherNext]_matcherVars => (MatcherType /\ BlameInv)'
  BY StepKeepsTypes, StepKeepsBlame
<1>3. MatcherType /\ BlameInv => BlamedForItsOwn
  BY BlameIsTold
<1> QED
  BY <1>1, <1>2, <1>3, PTL DEF MatcherSpec

-----------------------------------------------------------------------------
(* What a step of a thread does to its context, from c to d, as far as the *)
(* rest of the properties tell.                                            *)
Keeps == UNCHANGED <<fileitr, told, outputVars>>
(* Some of what a thread prints of a document.                             *)
PrintsSome(t, c) ==
    \/ PutLine(t, TRUE)
    \/ mode.markup /\ c.seg > Len(Segments(t)) /\ PutLine(t, FALSE)

Fetches(c, d) ==
    /\ c.at = "fetch" /\ d.at = "next" /\ d.input = c.input
    /\ fileitr < fileitr' /\ fileitr' <= Len(File)
    /\ d.todo = SubSeq(File, fileitr + 1, fileitr')
    /\ UNCHANGED <<told, outputVars>>
Ends(c, d) ==
    /\ c.at = "fetch" /\ d.at = "ended" /\ d.todo = c.todo /\ d.input = c.input
    /\ fileitr >= Len(File) /\ told \subseteq told'
    /\ UNCHANGED <<fileitr, outputVars>>
Returns(c, d) ==
    /\ c.at = "next" /\ d.at = "fetch" /\ c.todo = <<>> /\ d.todo = <<>>
    /\ d.input = c.input /\ Keeps
Takes(c, d) ==
    /\ c.at = "next" /\ d.at = "file" /\ c.todo # <<>>
    /\ d.file = Head(c.todo) /\ d.todo = Tail(c.todo)
    /\ d.input = c.input /\ Keeps
GivesUp(t, c, d) ==
    /\ c.at \in {"file", "document", "scan"} /\ d.at = "next"
    /\ d.todo = c.todo /\ d.input = c.input
    /\ told \subseteq told' /\ (~Lost("errors") => \E line \in told' : line[1] = c.file)
    /\ UNCHANGED <<fileitr, settled>>
    /\ UNCHANGED <<heading, printed>> \/ (c.at = "scan" /\ PrintsSome(t, c))
OpensDocument(c, d) ==
    /\ c.at = "file" /\ d.at = "document" /\ d.doc = 1
    /\ d.file = c.file /\ d.todo = c.todo /\ d.input = c.input /\ Keeps
Begins(t, c, d) ==
    /\ c.at = "document" /\ d.at = "scan" /\ d.doc = c.doc
    /\ d.file = c.file /\ d.todo = c.todo
    /\ d.seg = 1 /\ d.ordposOffset = 0 /\ d.input = <<>> /\ d.headed = mode.always
    /\ heading' = Headed(t, mode.always)
    /\ UNCHANGED <<fileitr, told, printed, settled>>
Scans(t, c, d) ==
    /\ c.at = "scan" /\ d.at = "scan" /\ d.doc = c.doc
    /\ d.file = c.file /\ d.todo = c.todo
    /\ c.seg \in DOMAIN Segments(t) /\ d.seg = c.seg + 1
    /\ d.ordposOffset = NextOffset(Segments(t)[c.seg], c.ordposOffset)
    /\ d.input = c.input \o Numbered(c.seg, Segments(t)[c.seg], c.ordposOffset)
    /\ d.headed = (c.headed \/ (mode.tokens /\ Segments(t)[c.seg] # <<>>))
    /\ IF mode.tokens /\ Segments(t)[c.seg] # <<>>
       THEN PutLine(t, TRUE) ELSE UNCHANGED <<heading, printed>>
    /\ UNCHANGED <<fileitr, told, settled>>
Prints(t, c, d) ==
    /\ c.at = "scan" /\ d.todo = c.todo /\ d.input = c.input
    /\ c.seg > Len(Segments(t))
    /\ \/ /\ c.doc < Len(DocumentsOf(c.file))
          /\ d.at = "document" /\ d.doc = c.doc + 1 /\ d.file = c.file
       \/ c.doc >= Len(DocumentsOf(c.file)) /\ d.at = "next"
    /\ PrintFound(t) /\ settled' = settled \cup {<<c.file, c.doc>>}
    /\ UNCHANGED <<fileitr, told>>

MovesContext(t, c, d) ==
    \/ Fetches(c, d) \/ Ends(c, d) \/ Returns(c, d) \/ Takes(c, d)
    \/ GivesUp(t, c, d) \/ OpensDocument(c, d) \/ Begins(t, c, d) \/ Scans(t, c, d)
    \/ Prints(t, c, d)

(* Each failure gives the file up, with a line for it.                     *)
LEMMA FailureGivesUp ==
    ASSUME MatcherType, NEW t, NEW step \in {"file", "document", "scan"},
           ThreadAt(t, step), UNCHANGED settled,
           UNCHANGED <<heading, printed>> \/ (ctx[t].at = "scan" /\ PrintsSome(t, ctx[t])),
           FailsAlone(t) \/ (Pending(t) /\ FailsFor(t)) \/ MemoryFails(t)
    PROVE  GivesUp(t, ctx[t], ctx'[t])
<1>1. t \in DOMAIN ctx /\ ctx[t] \in Context /\ ctx[t].at = step /\ Placed(ctx[t])
  BY ThreadExists
<1>2. /\ ctx'[t].at = "next" /\ ctx'[t].todo = ctx[t].todo
      /\ ctx'[t].input = ctx[t].input
  <2>1. \/ ctx' = [ctx EXCEPT ![t].at = "next", ![t].buffer = Nothing]
        \/ ctx' = [ctx EXCEPT ![t].at = "next"]
    BY DEF FailsAlone, FailsFor, MemoryFails, Caught
  <2> QED
    BY <1>1, <2>1 DEF Context
<1>3. PICK entries, o : Tell(t, entries) /\ <<ctx[t].file, o>> \in entries
  <2>1. ctx[t].file # Nothing
    BY <1>1, MatcherAssumption DEF Placed
  <2>2. CASE FailsAlone(t)
    <3> DEFINE entries == {<<ctx[t].file, o>> : o \in
                   ({ctx[t].file} \cup {ctx[t].buffer}) \ {Nothing}}
    <3>1. Tell(t, entries)
      BY <2>2 DEF FailsAlone, Caught
    <3>2. <<ctx[t].file, ctx[t].file>> \in entries
      BY <2>1
    <3> QED
      BY <3>1, <3>2
  <2>3. CASE Pending(t) /\ FailsFor(t)
    <3> DEFINE entries == {<<ctx[t].file, o>> : o \in
                   ({} \cup {ctx[t].buffer}) \ {Nothing}}
    <3>1. Tell(t, entries)
      BY <2>3 DEF FailsFor, Caught
    <3>2. <<ctx[t].file, ctx[t].buffer>> \in entries
      BY <2>3 DEF Pending
    <3> QED
      BY <3>1, <3>2
  <2>4. CASE MemoryFails(t)
    BY <2>4 DEF MemoryFails
  <2> QED
    BY <2>2, <2>3, <2>4
<1>4. \A f, p : <<f, p>>[1] = f
  OBVIOUS
<1>5. /\ told \subseteq told'
      /\ ~Lost("errors") => <<ctx[t].file, o>> \in told'
  BY <1>3, TellAdds
<1>6. UNCHANGED fileitr
  BY DEF FailsAlone, FailsFor, MemoryFails
<1>7. QED BY <1>1, <1>2, <1>4, <1>5, <1>6 DEF GivesUp

(* Every step of a thread is one of these moves in its own context.        *)
LEMMA StepMovesContext ==
    ASSUME MatcherType, NEW t, MatchStep(t)
    PROVE  /\ t \in DOMAIN ctx /\ DOMAIN ctx = mode.threads /\ mode # <<>>
           /\ ctx[t] \in Context /\ Placed(ctx[t])
           /\ DOMAIN ctx' = DOMAIN ctx /\ mode' = mode /\ lost' = lost
           /\ \A s \in DOMAIN ctx : s # t => ctx'[s] = ctx[s]
           /\ MovesContext(t, ctx[t], ctx'[t])
<1> DEFINE Own == \E c : ctx' = [ctx EXCEPT ![t] = c]
<1>1. PICK step \in Position : ThreadAt(t, step)
  BY DEF MatchStep, FetchFiles, NextFile, OpenFile, OpenDocument, ScanSegment,
         PrintResults, MemoryFails, Position
<1>2. /\ t \in DOMAIN ctx /\ DOMAIN ctx = mode.threads /\ mode # <<>>
      /\ ctx[t] \in Context /\ Placed(ctx[t]) /\ ctx[t].at = step
  BY <1>1, ThreadExists
<1>3. mode' = mode /\ lost' = lost /\ Own
  BY DEF MatchStep, FetchFiles, NextFile, OpenFile, OpenDocument, ScanSegment,
         PrintResults, MemoryFails, Fails, FailsAlone, FailsFor, Caught, Continues
<1>4. DOMAIN ctx' = DOMAIN ctx /\ \A s \in DOMAIN ctx : s # t => ctx'[s] = ctx[s]
  BY <1>3
<1> SUFFICES MovesContext(t, ctx[t], ctx'[t])
  BY <1>2, <1>3, <1>4
<1>5. ASSUME FailsAlone(t) \/ (Pending(t) /\ FailsFor(t)) \/ MemoryFails(t),
             UNCHANGED settled,
             UNCHANGED <<heading, printed>> \/ (step = "scan" /\ PrintsSome(t, ctx[t])),
             NEW place \in {"file", "document", "scan"}, ThreadAt(t, place)
      PROVE  MovesContext(t, ctx[t], ctx'[t])
  BY <1>2, <1>5, FailureGivesUp DEF MovesContext
<1>14. Fails(t) \/ (Pending(t) /\ FailsFor(t))
       => /\ FailsAlone(t) \/ (Pending(t) /\ FailsFor(t))
          /\ UNCHANGED settled /\ UNCHANGED <<heading, printed>>
  BY DEF Fails, FailsFor, outputVars
<1>6. CASE FetchFiles(t)
  <2>1. ctx[t].at = "fetch" /\ UNCHANGED outputVars
    BY <1>6 DEF FetchFiles, ThreadAt
  <2>2. CASE fileitr < Len(File)
    <3>1. /\ ctx'[t].at = "next" /\ ctx'[t].input = ctx[t].input
          /\ ctx'[t].todo = SubSeq(File, fileitr + 1, fileitr') /\ told' = told
      <4>1. /\ told' = told
            /\ ctx' = [ctx EXCEPT ![t].at = "next",
                                  ![t].todo = SubSeq(File, fileitr + 1, fileitr')]
        BY <1>6, <2>2 DEF FetchFiles
      <4>2. QED BY <1>2, <4>1 DEF Context
    <3>2. fileitr < fileitr' /\ fileitr' <= Len(File)
      <4>1. fileitr \in Nat /\ Len(File) \in Nat
        BY MatcherAssumption DEF MatcherType
      <4>2. mode.fetch \in Nat \ {0}
        BY <1>2 DEF MatcherType, Mode
      <4>3. QED BY <1>6, <2>2, <4>1, <4>2 DEF FetchFiles
    <3>3. QED BY <2>1, <3>1, <3>2 DEF MovesContext, Fetches
  <2>3. CASE ~(fileitr < Len(File))
    <3>1. /\ ctx'[t].at = "ended" /\ ctx'[t].input = ctx[t].input
          /\ ctx'[t].todo = ctx[t].todo
          /\ fileitr' = fileitr /\ told \subseteq told'
      BY <1>2, <1>6, <2>3, TellAdds DEF FetchFiles, Context
    <3>2. fileitr >= Len(File)
      BY <2>3, MatcherAssumption DEF MatcherType
    <3>3. QED BY <2>1, <3>1, <3>2 DEF MovesContext, Ends
  <2>4. QED BY <2>2, <2>3
<1>7. CASE NextFile(t)
  <2>1. ctx[t].at = "next" /\ Keeps
    BY <1>7 DEF NextFile, ThreadAt, Continues, Keeps
  <2>2. CASE ctx[t].todo = <<>>
    BY <1>2, <1>7, <2>1, <2>2 DEF NextFile, Context, MovesContext, Returns
  <2>3. CASE ctx[t].todo # <<>>
    BY <1>2, <1>7, <2>1, <2>3 DEF NextFile, Context, MovesContext, Takes
  <2>4. QED BY <2>2, <2>3
<1>8. CASE OpenFile(t)
  <2>1. CASE /\ Continues /\ UNCHANGED outputVars
             /\ ctx' = [ctx EXCEPT ![t].at = "document", ![t].doc = 1]
    BY <1>2, <1>8, <2>1 DEF OpenFile, ThreadAt, Context, Continues, Keeps, MovesContext, OpensDocument
  <2>2. QED BY <1>5, <1>8, <1>14, <2>1 DEF OpenFile
<1>9. CASE OpenDocument(t)
  <2>1. CASE ~Fails(t)
    BY <1>2, <1>9, <2>1
       DEF OpenDocument, ThreadAt, Context, Continues, MovesContext, Begins
  <2>2. QED BY <1>5, <1>9, <1>14, <2>1 DEF OpenDocument
<1>10. CASE ScanSegment(t)
  <2>1. CASE Fails(t) \/ (Pending(t) /\ FailsFor(t))
    BY <1>5, <1>10, <1>14, <2>1 DEF ScanSegment
  <2>2. CASE ~(Fails(t) \/ (Pending(t) /\ FailsFor(t)))
    <3> DEFINE lexems == Segments(t)[ctx[t].seg]
               c == ScannedBy(ctx[t], lexems)
               d == [c EXCEPT !.buffer = ctx[t].file]
    <3>1. /\ ctx[t].at = "scan" /\ UNCHANGED <<fileitr, told>>
          /\ ctx[t].seg <= Len(Segments(t)) /\ PrintTokens(t)
      BY <1>10, <2>2 DEF ScanSegment, ThreadAt, Continues
    <3>2. ctx'[t] = c \/ ctx'[t] = d
      BY <1>2, <1>10, <2>2 DEF ScanSegment, ScannedBy, Numbered
    <3>3. /\ c.at = ctx[t].at /\ c.doc = ctx[t].doc /\ c.file = ctx[t].file
          /\ c.todo = ctx[t].todo /\ c.seg = ctx[t].seg + 1
          /\ c.ordposOffset = NextOffset(lexems, ctx[t].ordposOffset)
          /\ c.input = ctx[t].input \o Numbered(ctx[t].seg, lexems, ctx[t].ordposOffset)
          /\ c.headed = (ctx[t].headed \/ (mode.tokens /\ lexems # <<>>))
      BY <1>2 DEF ScannedBy, Context
    <3>4. /\ d.at = c.at /\ d.doc = c.doc /\ d.file = c.file /\ d.todo = c.todo
          /\ d.seg = c.seg /\ d.ordposOffset = c.ordposOffset /\ d.input = c.input
          /\ d.headed = c.headed
      BY <1>2 DEF ScannedBy, Context
    <3>5. ctx[t].seg \in DOMAIN Segments(t)
      <4>1. Segments(t) \in Seq(Lexems)
        BY <1>2, <3>1, SegmentsType
      <4>2. ctx[t].seg \in Nat \ {0}
        BY <1>2, <3>1 DEF Placed
      <4>3. QED BY <3>1, <4>1, <4>2
    <3>6. /\ UNCHANGED settled
          /\ IF mode.tokens /\ lexems # <<>>
             THEN PutLine(t, TRUE) ELSE UNCHANGED <<heading, printed>>
      BY <3>1 DEF PrintTokens
    <3> HIDE DEF c, d
    <3>7. QED BY <3>1, <3>2, <3>3, <3>4, <3>5, <3>6 DEF MovesContext, Scans
  <2>3. QED BY <2>1, <2>2
<1>15. (PrintFound(t) => \/ UNCHANGED <<heading, printed>>
                        \/ PutLine(t, TRUE) \/ (mode.markup /\ PutLine(t, FALSE)))
  BY DEF PrintFound
<1>11. CASE PrintResults(t)
  <2>1. CASE Fails(t) \/ (Pending(t) /\ FailsFor(t))
    BY <1>5, <1>11, <1>14, <2>1 DEF PrintResults
  <2>4. CASE PrintFound(t) /\ UNCHANGED settled /\ FailsAlone(t)
    BY <1>1, <1>2, <1>5, <1>11, <1>15, <2>4 DEF PrintResults, PrintsSome, ThreadAt
  <2>2. CASE ~(\/ Fails(t) \/ (Pending(t) /\ FailsFor(t))
               \/ (PrintFound(t) /\ UNCHANGED settled /\ FailsAlone(t)))
    <3>1. /\ ctx[t].at = "scan" /\ UNCHANGED <<fileitr, told>>
          /\ ctx[t].seg > Len(Segments(t)) /\ PrintFound(t)
          /\ settled' = settled \cup {<<ctx[t].file, ctx[t].doc>>}
      BY <1>11, <2>2 DEF PrintResults, ThreadAt, Document, Continues
    <3>2. CASE ctx[t].doc < Len(DocumentsOf(ctx[t].file))
      <4>1. /\ ctx'[t].at = "document" /\ ctx'[t].doc = ctx[t].doc + 1
            /\ ctx'[t].file = ctx[t].file /\ ctx'[t].todo = ctx[t].todo
            /\ ctx'[t].input = ctx[t].input
        BY <1>2, <1>11, <2>2, <3>2 DEF PrintResults, Context
      <4>2. QED BY <3>1, <3>2, <4>1 DEF MovesContext, Prints
    <3>3. CASE ~(ctx[t].doc < Len(DocumentsOf(ctx[t].file)))
      <4>1. /\ ctx'[t].at = "next" /\ ctx'[t].todo = ctx[t].todo
            /\ ctx'[t].input = ctx[t].input
        BY <1>2, <1>11, <2>2, <3>3 DEF PrintResults, Context
      <4>2. ctx[t].doc >= Len(DocumentsOf(ctx[t].file))
        <5>1. ctx[t].file \in Range(File)
          BY <1>2, <3>1 DEF Placed
        <5>2. ctx[t].doc \in Nat /\ Len(DocumentsOf(ctx[t].file)) \in Nat
          BY <1>2, <5>1, DocumentsType DEF Context
        <5>3. QED BY <3>3, <5>2
      <4>3. QED BY <3>1, <4>1, <4>2 DEF MovesContext, Prints
    <3>4. QED BY <3>2, <3>3
  <2>3. QED BY <2>1, <2>2, <2>4
<1>12. CASE MemoryFails(t)
  <2>1. /\ UNCHANGED settled
        /\ \/ UNCHANGED <<heading, printed>>
           \/ step = "scan" /\ PrintsSome(t, ctx[t])
    <3>1. CASE UNCHANGED <<heading, printed>>
      BY <1>12, <3>1 DEF MemoryFails
    <3>2. CASE ~UNCHANGED <<heading, printed>>
      <4>1. /\ ThreadAt(t, "scan") /\ UNCHANGED settled
            /\ ctx[t].seg <= Len(Segments(t)) => PutLine(t, TRUE)
            /\ ~(ctx[t].seg <= Len(Segments(t))) => PrintFound(t)
        BY <1>12, <3>2 DEF MemoryFails
      <4>2. step = "scan" /\ ctx[t].seg \in Nat /\ Len(Segments(t)) \in Nat
        BY <1>2, <4>1, SegmentsType DEF ThreadAt, Context
      <4>3. \/ PutLine(t, TRUE)
            \/ mode.markup /\ ~(ctx[t].seg <= Len(Segments(t))) /\ PutLine(t, FALSE)
        BY <1>15, <3>2, <4>1, Zenon
      <4>4. ~(ctx[t].seg <= Len(Segments(t))) => ctx[t].seg > Len(Segments(t))
        BY <4>2
      <4>5. QED BY <4>1, <4>2, <4>3, <4>4, Zenon DEF PrintsSome
    <3>3. QED BY <3>1, <3>2
  <2>2. QED BY <1>5, <1>12, <2>1 DEF MemoryFails
<1>13. QED
  BY <1>6, <1>7, <1>8, <1>9, <1>10, <1>11, <1>12 DEF MatchStep

-----------------------------------------------------------------------------
(* A file is answered by the end of all its documents or a line.           *)
Answered(f, reports, documents, finished) ==
    \/ \E line \in reports : line[1] = f
    \/ \A d \in DOMAIN documents : <<f, d>> \in finished

(* A thread that has the file still before it, or is at one of its         *)
(* documents with those before settled.                                    *)
Has(c, f, finished) ==
    \/ \E i \in DOMAIN c.todo : c.todo[i] = f
    \/ c.file = f /\ c.at = "file"
    \/ /\ c.file = f /\ c.at \in {"document", "scan"}
       /\ \A d \in 1 .. c.doc - 1 : <<f, d>> \in finished

(* Every file fetched is answered or some thread has it, unless an error   *)
(* output is lost; a thread that fetches has none left, and ends only when *)
(* all are fetched; what is settled is printed, unless an output is lost.  *)
AnswerInv ==
    /\ fileitr <= Len(File)
    /\ mode = <<>> => fileitr = 0 /\ settled = {}
    /\ mode # <<>> => mode.threads # {}
    /\ \A t \in DOMAIN ctx :
          /\ ctx[t].at \in {"fetch", "ended"} => ctx[t].todo = <<>>
          /\ ctx[t].at = "ended" => fileitr = Len(File)
    /\ ~Lost("errors") =>
           \A k \in 1 .. fileitr :
              \/ Answered(File[k], told, DocumentsOf(File[k]), settled)
              \/ \E t \in DOMAIN ctx : Has(ctx[t], File[k], settled)
    /\ ~Lost("results") =>
           \A doc \in settled : (mode.markup \/ doc \in mode.found) =>
               \E p \in printed : p[1] = doc

(* What a line in the output adds.                                         *)
LEMMA LineAdds ==
    ASSUME NEW t, NEW header, PutLine(t, header)
    PROVE  /\ printed \subseteq printed'
           /\ ~Lost("results") => \E p \in printed' : p[1] = Document(t)
<1>1. <<"results", OutputOf(t)>>[1] = "results"
  OBVIOUS
<1>2. ~Lost("results") => <<"results", OutputOf(t)>> \notin lost
  BY <1>1 DEF Lost
<1> DEFINE p == <<Document(t), heading'[OutputOf(t)]>>
<1>3. p[1] = Document(t)
  OBVIOUS
<1>4. printed' = IF <<"results", OutputOf(t)>> \in lost THEN printed ELSE printed \cup {p}
  BY DEF PutLine
<1> HIDE DEF p
<1> QED
  BY <1>2, <1>3, <1>4

(* What a move settles and tells.                                          *)
LEMMA MoveAdds ==
    ASSUME NEW t, NEW c, NEW d, mode' = mode, MovesContext(t, c, d)
    PROVE  /\ told \subseteq told' /\ settled \subseteq settled' /\ printed \subseteq printed'
           /\ \A f : DocumentsOf(f)' = DocumentsOf(f)
           /\ Prints(t, c, d) => <<c.file, c.doc>> \in settled'
           /\ settled' # settled => Prints(t, c, d)
<1>1. told \subseteq told' /\ settled \subseteq settled'
  BY DEF MovesContext, Fetches, Ends, Returns, Takes, GivesUp, OpensDocument, Begins, Scans,
         Prints, Keeps, outputVars
<1>2. \/ printed' = printed \/ PutLine(t, TRUE) \/ PutLine(t, FALSE)
  BY DEF MovesContext, Fetches, Ends, Returns, Takes, GivesUp, OpensDocument, Begins, Scans,
         Prints, Keeps, outputVars, PrintsSome, PrintFound
<1>3. printed \subseteq printed'
  BY <1>2, LineAdds
<1>4. \A f : DocumentsOf(f)' = DocumentsOf(f)
  BY DEF DocumentsOf
<1>5. /\ Prints(t, c, d) => <<c.file, c.doc>> \in settled'
      /\ settled' # settled => Prints(t, c, d)
  BY DEF MovesContext, Fetches, Ends, Returns, Takes, GivesUp, OpensDocument, Begins, Scans,
         Prints, Keeps, outputVars
<1>6. QED BY <1>1, <1>3, <1>4, <1>5

(* A move leaves no file behind that the thread had.                       *)
LEMMA MoveAnswers ==
    ASSUME NEW t, NEW c, NEW d, c \in Context, Placed(c),
           c.at = "fetch" => c.todo = <<>>,
           mode' = mode, MovesContext(t, c, d), NEW f, Has(c, f, settled),
           ~Lost("errors")
    PROVE  Has(d, f, settled') \/ Answered(f, told', DocumentsOf(f)', settled')
<1>1. /\ told \subseteq told' /\ settled \subseteq settled'
      /\ \A g : DocumentsOf(g)' = DocumentsOf(g)
      /\ Prints(t, c, d) => <<c.file, c.doc>> \in settled'
  BY MoveAdds
<1>2. c.todo \in Seq(Range(File)) /\ c.doc \in Nat
  BY DEF Context
<1>3. CASE Fetches(c, d) \/ Ends(c, d) \/ Returns(c, d)
  <2>1. c.todo = <<>> /\ c.at \in {"fetch", "next"}
    BY <1>3 DEF Fetches, Ends, Returns
  <2>2. QED BY <2>1 DEF Has
<1>4. CASE Takes(c, d)
  <2>1. PICK i \in 1 .. Len(c.todo) : c.todo[i] = f
    BY <1>2, <1>4 DEF Takes, Has
  <2>2. CASE i = 1
    BY <1>2, <1>4, <2>1, <2>2 DEF Takes, Has
  <2>3. CASE i # 1
    <3>1. i - 1 \in DOMAIN Tail(c.todo) /\ Tail(c.todo)[i - 1] = f
      BY <1>2, <1>4, <2>1, <2>3 DEF Takes
    <3>2. QED BY <1>4, <3>1 DEF Takes, Has
  <2>4. QED BY <2>2, <2>3
<1>5. CASE GivesUp(t, c, d)
  BY <1>5 DEF GivesUp, Has, Answered
<1>6. CASE OpensDocument(c, d)
  BY <1>1, <1>6 DEF OpensDocument, Has
<1>7. CASE Begins(t, c, d) \/ Scans(t, c, d)
  BY <1>1, <1>7 DEF Begins, Scans, Has
<1>8. CASE Prints(t, c, d)
  <2>1. CASE \E i \in DOMAIN c.todo : c.todo[i] = f
    BY <1>8, <2>1 DEF Prints, Has
  <2>2. CASE ~\E i \in DOMAIN c.todo : c.todo[i] = f
    <3>1. /\ c.file = f /\ c.at = "scan"
          /\ \A n \in 1 .. c.doc - 1 : <<f, n>> \in settled
      BY <1>8, <2>2 DEF Prints, Has
    <3>2. \A n \in 1 .. c.doc : <<f, n>> \in settled'
      <4>1. \A n \in 1 .. c.doc : n \in 1 .. c.doc - 1 \/ n = c.doc
        BY <1>2
      <4>2. QED BY <1>1, <1>8, <3>1, <4>1
    <3>3. CASE d.at = "document" /\ d.doc = c.doc + 1 /\ d.file = c.file
      <4>1. d.doc - 1 = c.doc
        BY <1>2, <3>3
      <4>2. QED BY <3>1, <3>2, <3>3, <4>1 DEF Has
    <3>4. CASE c.doc >= Len(DocumentsOf(c.file))
      <4>1. f \in Range(File)
        BY <3>1 DEF Placed
      <4>2. /\ DOMAIN DocumentsOf(f) = 1 .. Len(DocumentsOf(f))
            /\ Len(DocumentsOf(f)) \in Nat
        BY <4>1, DocumentsType
      <4>3. \A n \in DOMAIN DocumentsOf(f) : n \in 1 .. c.doc
        BY <1>2, <3>1, <3>4, <4>2
      <4>4. QED BY <1>1, <3>2, <4>3 DEF Answered
    <3>5. QED BY <1>8, <3>3, <3>4 DEF Prints
  <2>3. QED BY <2>1, <2>2
<1>9. QED
  BY <1>3, <1>4, <1>5, <1>6, <1>7, <1>8 DEF MovesContext

(* What others have, and what is answered, stays so.                       *)
LEMMA OthersAnswer ==
    ASSUME NEW t, NEW c, NEW d, mode' = mode, MovesContext(t, c, d), NEW f, NEW e
    PROVE  /\ Has(e, f, settled) => Has(e, f, settled')
           /\ Answered(f, told, DocumentsOf(f), settled) =>
                  Answered(f, told', DocumentsOf(f)', settled')
<1>1. /\ told \subseteq told' /\ settled \subseteq settled'
      /\ \A g : DocumentsOf(g)' = DocumentsOf(g)
  BY MoveAdds
<1>2. QED BY <1>1 DEF Has, Answered

(* The members of a part of a sequence.                                    *)
LEMMA PartOf ==
    ASSUME NEW S, NEW s \in Seq(S), NEW a \in Nat, NEW b \in Nat, b <= Len(s),
           NEW k \in a + 1 .. b
    PROVE  \E i \in DOMAIN SubSeq(s, a + 1, b) : SubSeq(s, a + 1, b)[i] = s[k]
<1> DEFINE m == a + 1
           i == k - a
           piece == SubSeq(s, m, b)
<1>1. m \in Int /\ b \in Int /\ m <= b /\ i \in 1 .. b - m + 1 /\ m + i - 1 = k
  OBVIOUS
<1>2. \A j \in m .. b : s[j] \in S
  OBVIOUS
<1> HIDE DEF m, i
<1>3. /\ piece \in Seq(S) /\ Len(piece) = b - m + 1
      /\ \A j \in 1 .. b - m + 1 : piece[j] = s[m + j - 1]
  BY <1>1, <1>2, SubSeqProperties
<1>4. i \in DOMAIN piece /\ piece[i] = s[k]
  <2> HIDE DEF piece
  <2>1. QED BY <1>1, <1>3
<1>5. QED BY <1>4 DEF m

(* The files fetched by a thread are in its list.                          *)
LEMMA FetchedAreHad ==
    ASSUME fileitr \in Nat, fileitr' \in Nat, NEW c, NEW d, Fetches(c, d),
           NEW k \in fileitr + 1 .. fileitr'
    PROVE  \A finished : Has(d, File[k], finished)
<1>1. d.todo = SubSeq(File, fileitr + 1, fileitr') /\ fileitr' <= Len(File)
  BY DEF Fetches
<1>2. File \in Seq(Range(File))
  BY MatcherAssumption
<1>3. \E i \in DOMAIN d.todo : d.todo[i] = File[k]
  <2>1. PICK a \in Nat, b \in Nat : a = fileitr /\ b = fileitr'
    OBVIOUS
  <2>2. b <= Len(File) /\ k \in a + 1 .. b
    BY <1>1, <2>1
  <2>3. \E i \in DOMAIN SubSeq(File, a + 1, b) : SubSeq(File, a + 1, b)[i] = File[k]
    BY <1>2, <2>2, PartOf
  <2>4. QED BY <1>1, <2>1, <2>3
<1>4. QED BY <1>3 DEF Has

(* Every step keeps the files answered or in the hands of a thread.        *)
LEMMA StepKeepsAnswers ==
    ASSUME MatcherType, AnswerInv, [MatcherNext]_matcherVars
    PROVE  AnswerInv'
<1>1. ASSUME NEW m \in Mode, BeginMatching(m) PROVE AnswerInv'
  <2>1. /\ mode = <<>> /\ mode' = m /\ ctx' = [t \in m.threads |-> Idle]
        /\ fileitr' = fileitr /\ fileitr = 0 /\ settled' = {}
    BY <1>1 DEF BeginMatching, AnswerInv
  <2>2. mode' # <<>> /\ mode'.threads # {}
    BY <2>1, ModeIsNone DEF Mode
  <2>3. \A t \in DOMAIN ctx' : ctx'[t].at = "fetch" /\ ctx'[t].todo = <<>>
    BY <2>1 DEF Idle
  <2>4. QED BY <2>1, <2>2, <2>3 DEF AnswerInv
<1>2. ASSUME NEW t, MatchStep(t) PROVE AnswerInv'
  <2> DEFINE c == ctx[t]
             d == ctx'[t]
  <2>1. /\ t \in DOMAIN ctx /\ mode # <<>> /\ c \in Context /\ Placed(c)
        /\ DOMAIN ctx' = DOMAIN ctx /\ mode' = mode /\ lost' = lost
        /\ \A s \in DOMAIN ctx : s # t => ctx'[s] = ctx[s]
        /\ MovesContext(t, c, d)
    BY <1>2, StepMovesContext
  <2>2. /\ fileitr \in Nat /\ Len(File) \in Nat /\ fileitr <= Len(File)
        /\ c.at \in {"fetch", "ended"} => c.todo = <<>>
    BY <2>1, MatcherAssumption DEF MatcherType, AnswerInv
  <2> HIDE DEF c, d
  <2>3. fileitr' = fileitr \/ Fetches(c, d)
    BY <2>1 DEF MovesContext, Ends, Returns, Takes, GivesUp, OpensDocument, Begins, Scans,
       Prints, Keeps
  <2>4. MatcherType'
    <3>1. [MatcherNext]_matcherVars
      OBVIOUS
    <3>2. QED BY <3>1, StepKeepsTypes
  <2>5. fileitr' \in Nat /\ fileitr <= fileitr' /\ fileitr' <= Len(File)
    BY <2>2, <2>3, <2>4 DEF Fetches, MatcherType
  <2>6. ASSUME NEW s \in DOMAIN ctx
        PROVE  /\ ctx'[s].at \in {"fetch", "ended"} => ctx'[s].todo = <<>>
               /\ ctx'[s].at = "ended" => fileitr' = Len(File)
    <3>1. CASE s # t
      <4>1. /\ ctx[s].at \in {"fetch", "ended"} => ctx[s].todo = <<>>
            /\ ctx[s].at = "ended" => fileitr = Len(File)
        BY DEF AnswerInv
      <4>2. fileitr = Len(File) => fileitr' = Len(File)
        BY <2>2, <2>5
      <4>3. ctx'[s] = ctx[s]
        BY <2>1, <3>1
      <4>4. QED BY <4>1, <4>2, <4>3
    <3>2. /\ d.at \in {"fetch", "ended"} => d.todo = <<>>
          /\ d.at = "ended" => fileitr' = Len(File)
      <4>1. CASE Ends(c, d)
        <5>1. c.todo = <<>> /\ d.todo = c.todo /\ fileitr' = fileitr /\ fileitr >= Len(File)
          BY <2>2, <4>1 DEF Ends
        <5>2. QED BY <2>2, <5>1
      <4>2. CASE Returns(c, d)
        BY <4>2 DEF Returns
      <4>3. CASE ~(Ends(c, d) \/ Returns(c, d))
        <5>1. d.at \notin {"fetch", "ended"}
          BY <2>1, <4>3 DEF MovesContext, Fetches, Takes, GivesUp, OpensDocument, Begins, Scans, Prints
        <5>2. QED BY <5>1
      <4>4. QED BY <4>1, <4>2, <4>3
    <3>3. QED BY <3>1, <3>2 DEF d
  <2>7. ASSUME ~Lost("errors"), NEW k \in 1 .. fileitr'
        PROVE  \/ Answered(File[k], told', DocumentsOf(File[k])', settled')
               \/ \E s \in DOMAIN ctx' : Has(ctx'[s], File[k], settled')
    <3> DEFINE f == File[k]
    <3> SUFFICES \/ Answered(f, told', DocumentsOf(f)', settled')
                 \/ \E s \in DOMAIN ctx' : Has(ctx'[s], f, settled')
      OBVIOUS
    <3> HIDE DEF f
    <3>1. CASE k \in 1 .. fileitr
      <4>1. CASE Answered(f, told, DocumentsOf(f), settled)
        BY <2>1, <4>1, OthersAnswer
      <4>2. ASSUME NEW s \in DOMAIN ctx, Has(ctx[s], f, settled)
            PROVE  \/ Answered(f, told', DocumentsOf(f)', settled')
                   \/ \E r \in DOMAIN ctx' : Has(ctx'[r], f, settled')
        <5>1. CASE s # t
          <6>1. Has(ctx[s], f, settled')
            BY <2>1, <4>2, OthersAnswer
          <6>2. QED BY <2>1, <5>1, <6>1
        <5>2. CASE s = t
          <6>1. Has(d, f, settled') \/ Answered(f, told', DocumentsOf(f)', settled')
            BY <2>1, <2>2, <2>7, <4>2, <5>2, MoveAnswers DEF c
          <6>2. QED BY <2>1, <5>2, <6>1 DEF d
        <5>3. QED BY <5>1, <5>2
      <4>3. QED BY <2>7, <3>1, <4>1, <4>2 DEF AnswerInv, f
    <3>2. CASE ~(k \in 1 .. fileitr)
      <4>1. k \in fileitr + 1 .. fileitr' /\ Fetches(c, d)
        BY <2>2, <2>3, <2>5, <3>2
      <4>2. Has(d, f, settled')
        BY <2>2, <2>5, <4>1, FetchedAreHad DEF f
      <4>3. QED BY <2>1, <4>2 DEF d
    <3>3. QED BY <3>1, <3>2
  <2>8. ASSUME ~Lost("results"), NEW doc \in settled', mode.markup \/ doc \in mode.found
        PROVE  \E p \in printed' : p[1] = doc
    <3>1. CASE doc \in settled
      <4>1. \E p \in printed : p[1] = doc
        BY <2>8, <3>1 DEF AnswerInv
      <4>2. printed \subseteq printed'
        BY <2>1, MoveAdds
      <4>3. QED BY <4>1, <4>2
    <3>2. CASE doc \notin settled
      <4>1. Prints(t, c, d)
        BY <2>1, <3>2, MoveAdds
      <4>2. doc = Document(t) /\ PrintFound(t)
        BY <3>2, <4>1 DEF Prints, Document, c
      <4>3. PutLine(t, TRUE) \/ PutLine(t, FALSE)
        BY <2>8, <4>2 DEF PrintFound
      <4>4. QED BY <2>8, <4>2, <4>3, LineAdds
    <3>3. QED BY <3>1, <3>2
  <2>9. /\ Lost("errors")' <=> Lost("errors")
        /\ Lost("results")' <=> Lost("results")
    BY <2>1 DEF Lost
  <2>10. QED
    BY <2>1, <2>5, <2>6, <2>7, <2>8, <2>9 DEF AnswerInv
<1>3. CASE /\ UNCHANGED <<mode, fileitr, ctx, told, printed, settled>>
           /\ lost \subseteq lost'
  <2>1. \A f : DocumentsOf(f)' = DocumentsOf(f)
    BY <1>3 DEF DocumentsOf
  <2>2. /\ Lost("errors") => Lost("errors")'
        /\ Lost("results") => Lost("results")'
    BY <1>3 DEF Lost
  <2>3. QED BY <1>3, <2>1, <2>2 DEF AnswerInv
<1>4. QED
  BY <1>1, <1>2, <1>3 DEF MatcherNext, LoseStream, matcherVars, outputVars

(* When the threads have ended no thread has a file.                       *)
LEMMA AllAnswered ==
    ASSUME MatcherType, AnswerInv
    PROVE  EachDocumentAnswered
<1>1. ASSUME MatchingEnded, ~Lost("errors"), NEW f \in Range(File)
      PROVE  Answered(f, told, DocumentsOf(f), settled)
  <2>1. mode # <<>> /\ DOMAIN ctx = mode.threads /\ mode.threads # {}
    BY <1>1 DEF MatchingEnded, MatcherType, AnswerInv
  <2>2. /\ fileitr = Len(File)
        /\ \A t \in DOMAIN ctx : ctx[t].todo = <<>> /\ ctx[t].at = "ended"
    BY <1>1, <2>1 DEF MatchingEnded, AnswerInv
  <2>3. PICK k \in 1 .. Len(File) : f = File[k]
    BY MatcherAssumption DEF Range
  <2>4. ~\E t \in DOMAIN ctx : Has(ctx[t], f, settled)
    BY <2>2 DEF Has
  <2>5. QED BY <1>1, <2>2, <2>3, <2>4 DEF AnswerInv
<1>2. ASSUME ~Lost("results"), NEW doc \in settled, mode.markup \/ doc \in mode.found
      PROVE  \E p \in printed : p[1] = doc
  BY <1>2 DEF AnswerInv
<1>3. QED BY <1>1, <1>2, Zenon DEF EachDocumentAnswered, Answered

(* When the threads have ended, every document was processed to its end or *)
(* the error output has a line for its file, and what was found in one     *)
(* that was is in the output, unless a stream is lost; for any number of   *)
(* threads and files and any number of files fetched at once: no file is   *)
(* skipped between fetchFiles and run.                                     *)
THEOREM MatcherAnswersAll == MatcherSpec => []EachDocumentAnswered
<1>1. MatcherInit => MatcherType /\ AnswerInv
  BY MatcherAssumption DEF MatcherInit, MatcherType, AnswerInv, Lost
<1>2. MatcherType /\ AnswerInv /\ [MatcherNext]_matcherVars => (MatcherType /\ AnswerInv)'
  BY StepKeepsTypes, StepKeepsAnswers
<1>3. MatcherType /\ AnswerInv => EachDocumentAnswered
  BY AllAnswered
<1>4. QED
  BY <1>1, <1>2, <1>3, PTL DEF MatcherSpec

-----------------------------------------------------------------------------
(* Each thread has an output to itself.                                    *)
Separate == mode # <<>> /\ (mode.shared => Cardinality(mode.threads) = 1)

(* A thread that scans a document has written its header, unless it writes *)
(* none in advance and, if tokens are printed, has seen none yet.          *)
Topped(t) ==
    IF ctx[t].headed
    THEN <<"results", OutputOf(t)>> \in lost \/ heading[OutputOf(t)] = Document(t)
    ELSE /\ ~mode.always
         /\ mode.tokens => \A s \in DOMAIN Segments(t) :
                              s < ctx[t].seg => Segments(t)[s] = <<>>
HeaderInv ==
    /\ mode = <<>> => printed = {}
    /\ mode # <<>> => /\ mode.threads \subseteq Thread \cup {0}
                      /\ DOMAIN heading = mode.threads
    /\ Separate => /\ \A p \in printed : p[1] = p[2] \/ HeaderMissing(p[1])
                   /\ \A t \in DOMAIN ctx : ctx[t].at = "scan" => Topped(t)

(* No two threads have the same output then.                               *)
LEMMA OwnOutput ==
    ASSUME mode # <<>>, mode.threads \subseteq Thread \cup {0}, NEW t \in mode.threads
    PROVE  /\ OutputOf(t) \in mode.threads
           /\ Separate => \A s \in mode.threads : OutputOf(s) = OutputOf(t) => s = t
<1>1. OutputOf(t) \in mode.threads
  <2>1. \E s \in mode.threads : TRUE
    OBVIOUS
  <2>2. QED BY <2>1 DEF OutputOf
<1>2. ASSUME Separate, NEW s \in mode.threads, OutputOf(s) = OutputOf(t)
      PROVE  s = t
  <2>1. CASE mode.shared
    <3>1. IsFiniteSet(Thread \cup {0})
      BY MatcherAssumption, FS_AddElement
    <3>2. IsFiniteSet(mode.threads)
      BY <3>1, FS_Subset
    <3>3. PICK x : mode.threads = {x}
      BY <1>2, <2>1, <3>2, FS_Singleton DEF Separate
    <3>4. QED BY <3>3
  <2>2. CASE ~mode.shared
    BY <1>2, <2>2 DEF OutputOf
  <2>3. QED BY <2>1, <2>2
<1>3. QED BY <1>1, <1>2

(* What a line leaves as the last header of the outputs.                   *)
LEMMA LineHeads ==
    ASSUME NEW t, NEW header \in BOOLEAN, PutLine(t, header),
           OutputOf(t) \in DOMAIN heading, ctx[t].at = "scan", Topped(t)
    PROVE  /\ header \/ ctx[t].headed =>
                  <<"results", OutputOf(t)>> \in lost \/ heading'[OutputOf(t)] = Document(t)
           /\ \A p \in printed' \ printed :
                  /\ p[1] = Document(t)
                  /\ header \/ ctx[t].headed => p[2] = Document(t)
<1>1. heading' = IF (header /\ ~ctx[t].headed) /\ <<"results", OutputOf(t)>> \notin lost
                 THEN [heading EXCEPT ![OutputOf(t)] = Document(t)] ELSE heading
  BY DEF PutLine, Headed
<1>3. header \/ ctx[t].headed =>
          <<"results", OutputOf(t)>> \in lost \/ heading'[OutputOf(t)] = Document(t)
  BY <1>1 DEF Topped
<1>4. ASSUME NEW p \in printed' \ printed
      PROVE  /\ p[1] = Document(t)
             /\ header \/ ctx[t].headed => p[2] = Document(t)
  <2>1. /\ <<"results", OutputOf(t)>> \notin lost
        /\ p = <<Document(t), heading'[OutputOf(t)]>>
    BY <1>4 DEF PutLine
  <2>2. p[1] = Document(t) /\ p[2] = heading'[OutputOf(t)]
    BY <2>1
  <2> QED
    BY <1>3, <2>1, <2>2
<1> QED
  BY <1>3, <1>4

(* Only the thread of an output writes a header to it.                     *)
LEMMA MoveKeepsHeaders ==
    ASSUME HeaderInv, NEW t \in DOMAIN ctx, DOMAIN ctx = mode.threads, mode # <<>>,
           ctx[t] \in Context, Placed(ctx[t]),
           DOMAIN ctx' = DOMAIN ctx, mode' = mode, lost' = lost,
           \A s \in DOMAIN ctx : s # t => ctx'[s] = ctx[s],
           MovesContext(t, ctx[t], ctx'[t])
    PROVE  HeaderInv'
<1> DEFINE c == ctx[t]
           d == ctx'[t]
<1>1. /\ Separate' = Separate /\ \A s : OutputOf(s)' = OutputOf(s)
      /\ \A doc : HeaderMissing(doc)' = HeaderMissing(doc)
      /\ \A f : DocumentsOf(f)' = DocumentsOf(f)
      /\ mode.threads \subseteq Thread \cup {0} /\ DOMAIN heading = mode.threads
  BY DEF Separate, OutputOf, HeaderInv, HeaderMissing, DocumentsOf
<1>2. OutputOf(t) \in DOMAIN heading
  BY <1>1, OwnOutput
<1>3. \/ UNCHANGED <<heading, printed>>
      \/ Begins(t, c, d)
      \/ c.at = "scan" /\ PutLine(t, TRUE)
      \/ c.at = "scan" /\ mode.markup /\ c.seg > Len(Segments(t)) /\ PutLine(t, FALSE)
  BY DEF MovesContext, Fetches, Ends, Returns, Takes, GivesUp, OpensDocument, Scans,
     Prints, Keeps, outputVars, PrintsSome, PrintFound
<1>4. Begins(t, c, d) => heading' = IF mode.always /\ <<"results", OutputOf(t)>> \notin lost
                 THEN [heading EXCEPT ![OutputOf(t)] = Document(t)] ELSE heading
  BY DEF Begins, Headed
<1>5. ASSUME Separate, c.at = "scan" PROVE Topped(t)
  BY <1>5 DEF HeaderInv
<1>6. /\ DOMAIN heading' = mode.threads
      /\ \A o \in mode.threads : o # OutputOf(t) => heading'[o] = heading[o]
  <2>1. \/ heading' = heading \/ heading' = [heading EXCEPT ![OutputOf(t)] = Document(t)]
    <3>1. ASSUME NEW header \in BOOLEAN, PutLine(t, header)
          PROVE  heading' = Headed(t, header /\ ~ctx[t].headed)
      BY <3>1 DEF PutLine
    <3> HIDE DEF c, d
    <3>2. CASE UNCHANGED <<heading, printed>> \/ Begins(t, c, d)
      BY <1>4, <3>2
    <3>3. CASE PutLine(t, TRUE) \/ PutLine(t, FALSE)
      BY <3>1, <3>3 DEF Headed
    <3>4. QED BY <1>3, <3>2, <3>3
  <2>2. QED BY <1>1, <2>1
<1>7. ASSUME Separate, NEW p \in printed' PROVE p[1] = p[2] \/ HeaderMissing(p[1])
  <2>1. CASE p \in printed
    BY <1>7, <2>1 DEF HeaderInv
  <2>2. CASE p \notin printed /\ c.at = "scan" /\ PutLine(t, TRUE)
    BY <1>2, <1>5, <1>7, <2>2, LineHeads
  <2>3. CASE /\ p \notin printed /\ c.at = "scan" /\ mode.markup
             /\ c.seg > Len(Segments(t)) /\ PutLine(t, FALSE)
    <3>1. p[1] = Document(t) /\ (c.headed => p[2] = Document(t))
      BY <1>2, <1>5, <1>7, <2>3, LineHeads
    <3>2. CASE ~c.headed
      <4>1. Segments(t) \in Seq(Lexems) /\ c.seg \in Nat
        BY <2>3, SegmentsType DEF Context
      <4>2. \A s \in DOMAIN Segments(t) : s < c.seg
        BY <2>3, <4>1
      <4>3. /\ ~mode.always
            /\ mode.tokens => \A s \in DOMAIN Segments(t) : Segments(t)[s] = <<>>
        BY <1>5, <1>7, <2>3, <3>2, <4>2 DEF Topped
      <4>4. Document(t)[1] = c.file /\ Document(t)[2] = c.doc
        BY DEF Document
      <4>5. DocumentsOf(p[1][1])[p[1][2]] = Segments(t)
        BY <3>1, <4>4 DEF Segments
      <4>6. QED BY <2>3, <4>3, <4>5 DEF HeaderMissing
    <3>3. QED BY <3>1, <3>2
  <2>4. QED BY <1>3, <1>7, <2>1, <2>2, <2>3 DEF Begins
<1>8. ASSUME Separate, NEW s \in DOMAIN ctx', ctx'[s].at = "scan"
      PROVE  Topped(s)'
  <2>1. CASE s # t
    <3>1. ctx'[s] = ctx[s] /\ Topped(s)
      BY <1>8, <2>1 DEF HeaderInv
    <3>2. OutputOf(s) # OutputOf(t) /\ OutputOf(s) \in mode.threads
      BY <1>1, <1>8, <2>1, OwnOutput
    <3>3. heading'[OutputOf(s)] = heading[OutputOf(s)]
      BY <1>6, <3>2
    <3>4. /\ Segments(s)' = Segments(s) /\ Document(s)' = Document(s)
          /\ OutputOf(s)' = OutputOf(s)
      BY <1>1, <3>1 DEF Segments, Document
    <3>5. QED BY <3>1, <3>3, <3>4 DEF Topped
  <2>2. CASE s = t
    <3>1. Begins(t, c, d) \/ Scans(t, c, d)
      BY <1>8, <2>2 DEF MovesContext, Fetches, Ends, Returns, Takes, GivesUp, OpensDocument,
         Prints
    <3>2. d.file = c.file /\ d.doc = c.doc
      BY <3>1 DEF Begins, Scans
    <3>3. Segments(t)' = Segments(t) /\ Document(t)' = Document(t) /\ OutputOf(t)' = OutputOf(t)
      BY <1>1, <3>2 DEF Segments, Document
    <3>4. CASE Begins(t, c, d)
      <4>1. d.headed = mode.always /\ d.seg = 1
        BY <3>4 DEF Begins
      <4>2. \A n \in DOMAIN Segments(t) : ~(n < 1)
        <5>1. Segments(t) \in Seq(Lexems)
          BY <3>4, SegmentsType DEF Begins
        <5>2. QED BY <5>1
      <4>3. mode.always => <<"results", OutputOf(t)>> \in lost
                           \/ heading'[OutputOf(t)] = Document(t)
        BY <1>2, <1>4, <3>4
      <4>4. QED BY <2>2, <3>3, <4>1, <4>2, <4>3 DEF Topped
    <3>5. CASE Scans(t, c, d)
      <4> DEFINE shows == mode.tokens /\ Segments(t)[c.seg] # <<>>
      <4>1. /\ d.headed = (c.headed \/ shows) /\ d.seg = c.seg + 1 /\ c.at = "scan"
            /\ c.seg \in DOMAIN Segments(t)
            /\ IF shows THEN PutLine(t, TRUE) ELSE UNCHANGED <<heading, printed>>
        BY <3>5 DEF Scans
      <4>2. Topped(t)
        BY <1>5, <1>8, <4>1
      <4>3. CASE shows
        <5>1. <<"results", OutputOf(t)>> \in lost \/ heading'[OutputOf(t)] = Document(t)
          BY <1>2, <4>1, <4>2, <4>3, LineHeads
        <5>2. d.headed
          BY <4>1, <4>3
        <5>3. QED BY <2>2, <3>3, <5>1, <5>2 DEF Topped
      <4>4. CASE ~shows
        <5>1. d.headed = c.headed /\ heading' = heading
          BY <4>1, <4>4 DEF Context
        <5>2. Segments(t) \in Seq(Lexems) /\ c.seg \in Nat
          BY <4>1, SegmentsType DEF Context
        <5>3. \A n \in DOMAIN Segments(t) : n < d.seg => n < c.seg \/ n = c.seg
          BY <4>1, <5>2
        <5>4. ~c.headed =>
                /\ ~mode.always
                /\ mode.tokens => \A n \in DOMAIN Segments(t) :
                                     n < d.seg => Segments(t)[n] = <<>>
          BY <4>2, <4>4, <5>3 DEF Topped
        <5>5. c.headed => <<"results", OutputOf(t)>> \in lost \/ heading[OutputOf(t)] = Document(t)
          BY <4>2 DEF Topped
        <5>6. QED BY <2>2, <3>3, <5>1, <5>4, <5>5 DEF Topped
      <4>5. QED BY <4>3, <4>4
    <3>6. QED BY <3>1, <3>4, <3>5
  <2>3. QED BY <2>1, <2>2
<1>9. QED BY <1>1, <1>6, <1>7, <1>8 DEF HeaderInv

(* Every step keeps the headers of the outputs.                            *)
LEMMA StepKeepsHeaders ==
    ASSUME MatcherType, HeaderInv, [MatcherNext]_matcherVars
    PROVE  HeaderInv'
<1>1. ASSUME NEW m \in Mode, BeginMatching(m) PROVE HeaderInv'
  <2>1. /\ mode = <<>> /\ mode' = m /\ ctx' = [t \in m.threads |-> Idle]
        /\ heading' = [t \in m.threads |-> <<>>] /\ printed' = {}
    BY <1>1 DEF BeginMatching, HeaderInv
  <2>2. mode' # <<>> /\ m.threads \subseteq Thread \cup {0}
    BY <2>1, ModeIsNone DEF Mode
  <2>3. \A t \in DOMAIN ctx' : ctx'[t].at = "fetch"
    BY <2>1 DEF Idle
  <2>4. QED BY <2>1, <2>2, <2>3 DEF HeaderInv
<1>2. ASSUME NEW t, MatchStep(t) PROVE HeaderInv'
  BY <1>2, StepMovesContext, MoveKeepsHeaders
<1>3. CASE UNCHANGED <<mode, ctx, heading, printed>> /\ lost \subseteq lost'
  <2>1. /\ Separate' = Separate /\ \A s : OutputOf(s)' = OutputOf(s)
        /\ \A doc : HeaderMissing(doc)' = HeaderMissing(doc)
        /\ \A s : Segments(s)' = Segments(s) /\ Document(s)' = Document(s)
    BY <1>3 DEF Separate, OutputOf, HeaderMissing, DocumentsOf, Segments, Document
  <2>2. \A s \in DOMAIN ctx : Topped(s) => Topped(s)'
    BY <1>3, <2>1 DEF Topped
  <2>3. QED BY <1>3, <2>1, <2>2 DEF HeaderInv
<1>4. QED
  BY <1>1, <1>2, <1>3 DEF MatcherNext, LoseStream, matcherVars, outputVars

(* With an output of its own for every thread, a file each or one thread   *)
(* on std::cout, what is printed of a document stands under its header, in *)
(* whatever document another one failed before it, with and without        *)
(* --elimempty, for any number of threads and any files; the marked up     *)
(* documents that get no header are named by HeaderMissing.                *)
THEOREM MatcherPrintsUnderHeader == MatcherSpec => []PrintedUnderOwnHeader
<1>1. MatcherInit => MatcherType /\ HeaderInv
  BY DEF MatcherInit, MatcherType, HeaderInv, Separate
<1>2. MatcherType /\ HeaderInv /\ [MatcherNext]_matcherVars => (MatcherType /\ HeaderInv)'
  BY StepKeepsTypes, StepKeepsHeaders
<1>3. HeaderInv => PrintedUnderOwnHeader
  BY DEF HeaderInv, PrintedUnderOwnHeader, Separate
<1>4. QED
  BY <1>1, <1>2, <1>3, PTL DEF MatcherSpec

-----------------------------------------------------------------------------
(* What TokensAscend says of the input of one thread.                      *)
Sorted(input) ==
    \A i, j \in DOMAIN input : i < j =>
        /\ input[i][2] <= input[j][2]
        /\ input[i][1] < input[j][1] => input[i][2] < input[j][2]

(* The tokens are of segments before this one and at positions up to the   *)
(* offset.                                                                 *)
Below(input, seg, offset) ==
    \A i \in DOMAIN input : input[i][1] < seg /\ input[i][2] <= offset

TokenInv ==
    \A t \in DOMAIN ctx :
        /\ Sorted(ctx[t].input)
        /\ ctx[t].at = "scan" => Below(ctx[t].input, ctx[t].seg, ctx[t].ordposOffset)

(* A sequence with the domain 1 .. n has n members.                        *)
LEMMA LenDomain ==
    ASSUME NEW S, NEW s \in Seq(S), NEW n \in Nat, DOMAIN s = 1 .. n
    PROVE  Len(s) = n
<1>1. Len(s) \in Nat /\ \A i : i \in 1 .. Len(s) <=> i \in 1 .. n
  BY LenProperties
<1>2. Len(s) <= n
  <2>1. Len(s) # 0 => Len(s) \in 1 .. Len(s)
    BY <1>1
  <2>2. Len(s) # 0 => Len(s) \in 1 .. n
    BY <1>1, <2>1
  <2>3. QED BY <1>1, <2>2
<1>3. n <= Len(s)
  <2>1. n # 0 => n \in 1 .. n
    OBVIOUS
  <2>2. n # 0 => n \in 1 .. Len(s)
    BY <1>1, <2>1
  <2>3. QED BY <1>1, <2>2
<1>4. QED BY <1>1, <1>2, <1>3

(* The tokens of a segment, numbered on from an offset to the next one.    *)
FromTo(more, seg, offset, next) ==
    \A i \in DOMAIN more :
        more[i][1] = seg /\ offset < more[i][2] /\ more[i][2] <= next

(* The positions of a segment's tokens stay in order and follow the offset.*)
LEMMA NumberedTokens ==
    ASSUME NEW seg \in Nat, NEW lexems \in Lexems, NEW offset \in Nat,
           Ascending(lexems)
    PROVE  /\ Numbered(seg, lexems, offset) \in Seq(Nat \X Nat)
           /\ NextOffset(lexems, offset) \in Nat /\ offset <= NextOffset(lexems, offset)
           /\ Sorted(Numbered(seg, lexems, offset))
           /\ FromTo(Numbered(seg, lexems, offset), seg, offset,
                     NextOffset(lexems, offset))
<1>1. PICK n \in Nat : n = Len(lexems)
  BY DEF Lexems
<1>2. /\ DOMAIN lexems = 1 .. n
      /\ \A i \in 1 .. n : lexems[i] \in Nat \ {0}
  BY <1>1 DEF Lexems
<1>3. Numbered(seg, lexems, offset) \in Seq(Nat \X Nat) /\ NextOffset(lexems, offset) \in Nat
  BY NumberedType, ShiftedType
<1>4. Numbered(seg, lexems, offset) = [i \in 1 .. n |-> <<seg, lexems[i] + offset>>]
  BY <1>2 DEF Numbered, Shifted
<1>5. \A i, j \in 1 .. n : i < j => lexems[i] <= lexems[j]
  BY <1>2 DEF Ascending
<1>6. Sorted(Numbered(seg, lexems, offset))
  BY <1>2, <1>4, <1>5 DEF Sorted
<1>7. CASE n = 0
  <2>1. lexems = <<>>
    BY <1>1, <1>7, EmptySeq DEF Lexems
  <2>2. NextOffset(lexems, offset) = offset
    BY <2>1 DEF NextOffset
  <2>3. QED BY <1>3, <1>4, <1>6, <1>7, <2>2 DEF FromTo
<1>8. CASE n # 0
  <2>1. lexems # <<>> /\ n \in 1 .. n
    BY <1>1, <1>2, <1>8 DEF Lexems
  <2>2. /\ Shifted(lexems, offset) \in Lexems
        /\ DOMAIN Shifted(lexems, offset) = 1 .. n
    BY <1>2, ShiftedType
  <2>3. Len(Shifted(lexems, offset)) = n
    BY <2>2, LenDomain DEF Lexems
  <2>4. NextOffset(lexems, offset) = lexems[n] + offset
    BY <1>2, <2>1, <2>3 DEF NextOffset, Last, Shifted
  <2>5. ASSUME NEW i \in 1 .. n
        PROVE  offset < lexems[i] + offset /\ lexems[i] + offset <= lexems[n] + offset
    <3>1. lexems[i] \in Nat \ {0} /\ lexems[n] \in Nat \ {0}
      BY <1>2, <2>1
    <3>2. lexems[i] <= lexems[n]
      <4>1. i = n \/ i < n
        OBVIOUS
      <4>2. QED BY <1>5, <2>1, <3>1, <4>1
    <3>3. QED BY <3>1, <3>2
  <2>6. offset <= lexems[n] + offset
    BY <1>2, <2>1
  <2>7. QED BY <1>3, <1>4, <1>6, <2>4, <2>5, <2>6 DEF FromTo
<1>9. QED BY <1>7, <1>8

(* They come after the tokens before them.                                 *)
LEMMA ScannedSorted ==
    ASSUME NEW input \in Seq(Nat \X Nat), NEW more \in Seq(Nat \X Nat), NEW seg \in Nat,
           NEW offset \in Nat, NEW next \in Nat, offset <= next,
           Sorted(input), Below(input, seg, offset),
           Sorted(more), FromTo(more, seg, offset, next)
    PROVE  Sorted(input \o more) /\ Below(input \o more, seg + 1, next)
<1> DEFINE all == input \o more
<1>1. PICK m \in Nat, n \in Nat : m = Len(input) /\ n = Len(more)
  OBVIOUS
<1>2. DOMAIN input = 1 .. m /\ DOMAIN more = 1 .. n
  BY <1>1
<1>3. /\ \A i \in 1 .. m : input[i][1] \in Nat /\ input[i][2] \in Nat
      /\ \A i \in 1 .. n : more[i][1] \in Nat /\ more[i][2] \in Nat
  <2>1. \A p \in Nat \X Nat : p[1] \in Nat /\ p[2] \in Nat
    OBVIOUS
  <2>2. (\A i \in 1 .. m : input[i] \in Nat \X Nat) /\ \A i \in 1 .. n : more[i] \in Nat \X Nat
    BY <1>1
  <2>3. QED BY <2>1, <2>2
<1>4. /\ DOMAIN all = 1 .. m + n
      /\ \A i \in 1 .. m : all[i] = input[i]
      /\ \A i \in m + 1 .. m + n : all[i] = more[i - m] /\ i - m \in 1 .. n
  BY <1>1
<1> HIDE DEF all
<1>5. \A i \in 1 .. m + n : i \in 1 .. m \/ i \in m + 1 .. m + n
  OBVIOUS
<1>6. \A i \in 1 .. m : input[i][1] < seg /\ input[i][2] <= offset
  BY <1>2 DEF Below
<1>7. \A i \in 1 .. n : more[i][1] = seg /\ offset < more[i][2] /\ more[i][2] <= next
  BY <1>2 DEF FromTo
<1>8. Below(all, seg + 1, next)
  <2> SUFFICES ASSUME NEW i \in 1 .. m + n
               PROVE  all[i][1] < seg + 1 /\ all[i][2] <= next
    BY <1>4 DEF Below
  <2>1. CASE i \in 1 .. m
    <3>1. /\ all[i] = input[i] /\ input[i][1] \in Nat /\ input[i][2] \in Nat
          /\ input[i][1] < seg /\ input[i][2] <= offset
      BY <1>3, <1>4, <1>6, <2>1
    <3>2. PICK a \in Nat, b \in Nat : a = all[i][1] /\ b = all[i][2]
      BY <3>1
    <3>3. a < seg /\ b <= offset
      BY <3>1, <3>2, Zenon
    <3>4. a < seg + 1 /\ b <= next
      BY <3>3
    <3>5. QED BY <3>2, <3>4, Zenon
  <2>2. CASE i \in m + 1 .. m + n
    <3>1. PICK k \in 1 .. n : all[i] = more[k]
      BY <1>4, <2>2
    <3>2. more[k][1] = seg /\ more[k][2] <= next
      BY <1>7
    <3>3. seg < seg + 1
      OBVIOUS
    <3>4. QED BY <3>1, <3>2, <3>3, Zenon
  <2>3. QED BY <1>5, <2>1, <2>2
<1>9. Sorted(all)
  <2> SUFFICES ASSUME NEW i \in 1 .. m + n, NEW j \in 1 .. m + n, i < j
               PROVE  /\ all[i][2] <= all[j][2]
                      /\ all[i][1] < all[j][1] => all[i][2] < all[j][2]
    BY <1>4 DEF Sorted
  <2>1. CASE i \in 1 .. m /\ j \in 1 .. m
    BY <1>2, <1>4, <2>1 DEF Sorted
  <2>2. CASE i \in 1 .. m /\ j \in m + 1 .. m + n
    <3>1. all[i] = input[i] /\ input[i][2] \in Nat /\ input[i][2] <= offset
      BY <1>3, <1>4, <1>6, <2>2
    <3>2. PICK k \in 1 .. n : all[j] = more[k]
      BY <1>4, <2>2
    <3>3. more[k][2] \in Nat /\ offset < more[k][2]
      BY <1>3, <1>7
    <3>4. PICK a \in Nat, b \in Nat : a = all[i][2] /\ b = all[j][2]
      BY <3>1, <3>2, <3>3
    <3>5. a <= offset /\ offset < b
      BY <3>1, <3>2, <3>3, <3>4, Zenon
    <3>6. a <= b /\ a < b
      BY <3>5
    <3>7. QED BY <3>4, <3>6, Zenon
  <2>3. CASE i \in m + 1 .. m + n /\ j \in m + 1 .. m + n
    <3>1. /\ i - m \in 1 .. n /\ j - m \in 1 .. n /\ i - m < j - m
          /\ i - m \in DOMAIN more /\ j - m \in DOMAIN more
          /\ all[i] = more[i - m] /\ all[j] = more[j - m]
      BY <1>2, <1>4, <2>3
    <3>2. \A k, l \in DOMAIN more : k < l =>
              /\ more[k][2] <= more[l][2]
              /\ more[k][1] < more[l][1] => more[k][2] < more[l][2]
      BY DEF Sorted
    <3>3. PICK k \in DOMAIN more, l \in DOMAIN more :
              k < l /\ all[i] = more[k] /\ all[j] = more[l]
      BY <3>1
    <3>4. QED BY <3>2, <3>3, Zenon
  <2>4. CASE i \in m + 1 .. m + n /\ j \in 1 .. m
    BY <2>4
  <2>5. QED BY <1>5, <2>1, <2>2, <2>3, <2>4
<1>10. QED BY <1>8, <1>9 DEF all

(* The lexer's tokens of a segment ascend.                                 *)
LEMMA SegmentsAscend ==
    ASSUME NEW t, Placed(ctx[t]), ctx[t].at = "scan",
           NEW s \in DOMAIN Segments(t)
    PROVE  Segments(t)[s] \in Lexems /\ Ascending(Segments(t)[s])
<1> DEFINE f == ctx[t].file
           d == ctx[t].doc
<1>1. f \in Range(File) /\ d \in 1 .. Len(DocumentsOf(f))
  BY DEF Placed
<1>2. Segments(t)[s] \in Lexems
  BY SegmentsType
<1>3. /\ Documents[f] \in Seq(Seq(Lexems)) /\ Documents[f] # <<>>
      /\ \A e \in DOMAIN Documents[f] : \A r \in DOMAIN Documents[f][e] :
            Ascending(Documents[f][e][r])
  BY <1>1, MatcherAssumption DEF Lexems
<1>4. \E e \in DOMAIN Documents[f] : Segments(t) = Documents[f][e]
  <2>1. CASE mode.multiple
    BY <1>1, <1>3, <2>1 DEF Segments, DocumentsOf
  <2>2. CASE ~mode.multiple
    <3>1. DocumentsOf(f) = <<Documents[f][1]>>
      BY <2>2 DEF DocumentsOf
    <3>2. d = 1
      BY <1>1, <3>1
    <3>3. 1 \in DOMAIN Documents[f]
      BY <1>3
    <3>4. QED BY <3>1, <3>2, <3>3 DEF Segments
  <2>3. QED BY <2>1, <2>2
<1>5. QED BY <1>2, <1>3, <1>4

(* Every step keeps the tokens of every thread in order.                   *)
LEMMA StepKeepsTokens ==
    ASSUME MatcherType, TokenInv, [MatcherNext]_matcherVars
    PROVE  TokenInv'
<1>1. ASSUME NEW m \in Mode, BeginMatching(m) PROVE TokenInv'
  <2>1. ctx' = [t \in m.threads |-> Idle]
    BY <1>1 DEF BeginMatching
  <2>2. Idle.input = <<>> /\ Idle.at = "fetch"
    BY DEF Idle
  <2>3. Sorted(<<>>)
    BY DEF Sorted
  <2>4. QED BY <2>1, <2>2, <2>3 DEF TokenInv
<1>2. ASSUME NEW t, MatchStep(t) PROVE TokenInv'
  <2> DEFINE c == ctx[t]
             d == ctx'[t]
  <2>1. /\ t \in DOMAIN ctx /\ c \in Context /\ Placed(c) /\ DOMAIN ctx' = DOMAIN ctx
        /\ \A s \in DOMAIN ctx : s # t => ctx'[s] = ctx[s]
        /\ MovesContext(t, c, d)
    BY <1>2, StepMovesContext
  <2>2. Sorted(c.input) /\ (c.at = "scan" => Below(c.input, c.seg, c.ordposOffset))
    BY <2>1 DEF TokenInv
  <2>3. Sorted(d.input) /\ (d.at = "scan" => Below(d.input, d.seg, d.ordposOffset))
    <3>1. CASE Begins(t, c, d)
      <4>1. d.input = <<>>
        BY <3>1 DEF Begins
      <4>2. QED BY <4>1 DEF Sorted, Below
    <3>2. CASE Scans(t, c, d)
      <4> DEFINE lexems == Segments(t)[c.seg]
      <4>1. /\ c.at = "scan" /\ c.seg \in DOMAIN Segments(t) /\ d.seg = c.seg + 1
            /\ d.ordposOffset = NextOffset(lexems, c.ordposOffset)
            /\ d.input = c.input \o Numbered(c.seg, lexems, c.ordposOffset)
        BY <3>2 DEF Scans
      <4>2. lexems \in Lexems /\ Ascending(lexems)
        BY <2>1, <4>1, SegmentsAscend
      <4>3. c.input \in Seq(Nat \X Nat) /\ c.seg \in Nat /\ c.ordposOffset \in Nat
        BY <2>1 DEF Context
      <4> DEFINE more == Numbered(c.seg, lexems, c.ordposOffset)
                 next == NextOffset(lexems, c.ordposOffset)
      <4>4. /\ more \in Seq(Nat \X Nat) /\ next \in Nat /\ c.ordposOffset <= next
            /\ Sorted(more) /\ FromTo(more, c.seg, c.ordposOffset, next)
        BY <4>2, <4>3, NumberedTokens
      <4> HIDE DEF lexems, c, d, more, next
      <4>5. Sorted(c.input \o more) /\ Below(c.input \o more, c.seg + 1, next)
        BY <2>2, <4>1, <4>3, <4>4, ScannedSorted
      <4>6. QED BY <4>1, <4>5 DEF more, next
    <3>3. CASE ~(Begins(t, c, d) \/ Scans(t, c, d))
      <4> HIDE DEF c, d
      <4>1. d.input = c.input /\ d.at # "scan"
        BY <2>1, <3>3 DEF MovesContext, Fetches, Ends, Returns, Takes, GivesUp, OpensDocument, Prints
      <4>2. QED BY <2>2, <4>1
    <3>4. QED BY <3>1, <3>2, <3>3
  <2>4. QED BY <2>1, <2>3 DEF TokenInv
<1>3. CASE UNCHANGED ctx
  BY <1>3 DEF TokenInv
<1>4. QED
  BY <1>1, <1>2, <1>3 DEF MatcherNext, LoseStream, matcherVars

(* The matcher gets the tokens of a document in ascending order and those  *)
(* of two segments never at one position, for any segments and tokens,     *)
(* segments without any among them: the ordposOffset of                    *)
(* processDocumentContent.                                                 *)
THEOREM MatcherGetsTokensInOrder == MatcherSpec => []TokensAscend
<1>1. MatcherInit => MatcherType /\ TokenInv
  BY DEF MatcherInit, MatcherType, TokenInv
<1>2. MatcherType /\ TokenInv /\ [MatcherNext]_matcherVars => (MatcherType /\ TokenInv)'
  BY StepKeepsTypes, StepKeepsTokens
<1>3. TokenInv => TokensAscend
  BY DEF TokenInv, Sorted, TokensAscend
<1>4. QED
  BY <1>1, <1>2, <1>3, PTL DEF MatcherSpec

-----------------------------------------------------------------------------
(* The composition.                                                        *)

(* A step of the composition is a step of main, or none for it.            *)
LEMMA StepOfMain ==
    ASSUME [UtilityNext]_utilityVars
    PROVE  [LifeNext]_lifeVars
<1>1. CASE InMain
  BY <1>1 DEF InMain, LifeNext
<1>2. CASE InMainNoMemory
  BY <1>2 DEF InMainNoMemory, LifeNext
<1>3. CASE EndListing
  BY <1>3 DEF EndListing, LifeNext, Outcome
<1>4. CASE EndQuery
  BY <1>4 DEF EndQuery, LifeNext, Outcome
<1>5. CASE EndMatching
  BY <1>5 DEF EndMatching, LifeNext, Outcome
<1>8. CASE MatchingPerishes
  BY <1>8 DEF MatchingPerishes, LifeNext
<1>6. CASE StartListing \/ StartQuery \/ StartMatching \/ Load \/ List
           \/ \E t \in Thread \cup {0} : Match(t) \/ LoseOutput(t)
  <2>1. UNCHANGED lifeVars
    BY <1>6 DEF StartListing, StartQuery, StartMatching, Load, List, Match, LoseOutput
  <2> QED
    BY <2>1
<1>7. CASE UNCHANGED utilityVars
  BY <1>7 DEF utilityVars
<1> QED
  BY <1>1, <1>2, <1>3, <1>4, <1>5, <1>6, <1>7, <1>8 DEF UtilityNext, UtilityStep

(* The same for the threads of the pattern matcher.                        *)
LEMMA StepOfMatcher ==
    ASSUME [UtilityNext]_utilityVars
    PROVE  [MatcherNext]_matcherVars
<1>1. CASE StartMatching
  <2>1. PICK m \in Matching : BeginMatching(WithMain(m))
    BY <1>1 DEF StartMatching
  <2>2. WithMain(m) \in Mode
    BY MatchingAssumption
  <2> QED
    BY <2>1, <2>2 DEF MatcherNext
<1>2. ASSUME NEW t \in Thread \cup {0}, Match(t) \/ LoseOutput(t)
      PROVE  [MatcherNext]_matcherVars
  BY <1>2 DEF Match, LoseOutput, MatcherNext
<1>3. CASE StartListing \/ StartQuery \/ Load \/ List \/ EndListing \/ EndQuery
           \/ EndMatching \/ InMain \/ InMainNoMemory \/ MatchingPerishes
  <2>1. UNCHANGED matcherVars
    BY <1>3 DEF StartListing, StartQuery, Load, List, EndListing, EndQuery,
                EndMatching, InMain, InMainNoMemory, MatchingPerishes, componentVars
  <2> QED
    BY <2>1
<1>4. CASE UNCHANGED utilityVars
  BY <1>4 DEF utilityVars, componentVars
<1> QED
  BY <1>1, <1>2, <1>3, <1>4 DEF UtilityNext, UtilityStep

(* And for the listings of strusInspect.                                   *)
LEMMA StepOfListing ==
    ASSUME [UtilityNext]_utilityVars
    PROVE  [InspectNext]_inspectVars
<1>1. CASE StartListing \/ List
  BY <1>1 DEF StartListing, List, InspectNext
<1>2. CASE StartMatching \/ StartQuery \/ Load \/ EndListing \/ EndQuery
           \/ EndMatching \/ InMain \/ InMainNoMemory \/ MatchingPerishes
           \/ \E t \in Thread \cup {0} : Match(t) \/ LoseOutput(t)
  <2>1. UNCHANGED inspectVars
    BY <1>2 DEF StartMatching, StartQuery, Load, Match, LoseOutput, EndListing, EndQuery,
                EndMatching, InMain, InMainNoMemory, MatchingPerishes, componentVars
  <2> QED
    BY <2>1
<1>3. CASE UNCHANGED utilityVars
  BY <1>3 DEF utilityVars, componentVars
<1> QED
  BY <1>1, <1>2, <1>3 DEF UtilityNext, UtilityStep

(* Whatever the components at work do, main lives the life of its program: *)
(* the mains and what they call.                                           *)
THEOREM ComposedLife == UtilitySpec => LifeSpec
<1>1. UtilityInit => LifeInit
  BY DEF UtilityInit
<1>2. [UtilityNext]_utilityVars => [LifeNext]_lifeVars
  BY StepOfMain
<1> QED
  BY <1>1, <1>2, PTL DEF UtilitySpec, LifeSpec

(* Whatever main does meanwhile, the threads of the pattern matcher work   *)
(* as if they were alone: they share nothing with main until the join.     *)
THEOREM ComposedMatcher == UtilitySpec => MatcherSpec
<1>1. UtilityInit => MatcherInit
  BY DEF UtilityInit
<1>2. [UtilityNext]_utilityVars => [MatcherNext]_matcherVars
  BY StepOfMatcher
<1> QED
  BY <1>1, <1>2, PTL DEF UtilitySpec, MatcherSpec

(* The same for the listings of strusInspect.                              *)
THEOREM ComposedListing == UtilitySpec => InspectSpec
<1>1. UtilityInit => InspectInit
  BY DEF UtilityInit
<1>2. [UtilityNext]_utilityVars => [InspectNext]_inspectVars
  BY StepOfListing
<1> QED
  BY <1>1, <1>2, PTL DEF UtilitySpec, InspectSpec

(* Whichever component works in it: no program completes anything for a    *)
(* command line that it refuses, nor with a message in its error buffer    *)
(* that a test was to find; none opens the index for such a command line,  *)
(* but for those it refuses too late; what returns zero has done what it   *)
(* is there for; and a listing that ends has shown what it is asked for,   *)
(* but for the documents named by LeftOut: the mains and the inspect       *)
(* functions.                                                              *)
THEOREM ComposedPromises ==
    UtilitySpec => /\ []RefusedCommandLine /\ NothingDoneInError
                   /\ []SuccessIsComplete /\ []ListingIsComplete
BY ComposedLife, ComposedListing, NothingIsTouchedInVain, NothingIsDoneInError,
   ZeroIsComplete, ListingsAreComplete, PTL

(* Inside strusPatternMatcher as alone: every document ends up processed   *)
(* or with an error, no file is blamed for another one unless memory ran   *)
(* out, what is printed stands under the header of its document when every *)
(* thread has an output of its own, but for the marked up documents that   *)
(* get no header, and the matcher gets the tokens in order: run of         *)
(* strusPatternMatcher.                                                    *)
THEOREM ComposedMatcherPromises ==
    UtilitySpec => [](/\ EachDocumentAnswered
                      /\ BlamedForItsOwn
                      /\ PrintedUnderOwnHeader
                      /\ TokensAscend)
BY ComposedMatcher, MatcherAnswersAll, MatcherBlamesRightly, MatcherPrintsUnderHeader,
   MatcherGetsTokensInOrder, PTL
==============================================================================
