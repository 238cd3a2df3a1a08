------------------------------- MODULE Logger -------------------------------
(***************************************************************************)
(* The package functions of pkg/logger (Debug ... Error, SetLevel,         *)
(* GetLevel, SetDefault), called by goroutines that share the default      *)
(* logger.  Each first takes the default logger from under the package's   *)
(* lock and then uses it under, or after, the lock of that logger, so that *)
(* another goroutine may replace the logger or change its level between    *)
(* the two, and again before a message is printed.                         *)
(*                                                                         *)
(* A critical section is one step.  Loggers are used through the package   *)
(* only: an application that keeps one and calls its methods is not here.  *)
(***************************************************************************)
EXTENDS Integers, FiniteSets

CONSTANTS
  Goroutines,
  StandardLoggers,
  NoOpLogger,
  Levels,          \* levels that are set or logged at
  MaxCalls         \* bound on the calls of each goroutine

LevelDebug == 0
LevelInfo == 1
LevelWarn == 2
LevelError == 3
LevelNone == 4

AllLevels == LevelDebug..LevelNone

ASSUME LoggersAssumption == NoOpLogger \notin StandardLoggers /\ StandardLoggers # {}
ASSUME GoroutinesAssumption == IsFiniteSet(Goroutines)
ASSUME LevelsAssumption == Levels \subseteq AllLevels
ASSUME BoundAssumption == MaxCalls \in Nat

Loggers == StandardLoggers \cup {NoOpLogger}

Operations ==
  [op : {"log"}, level : Levels \ {LevelNone}, logger : {NoOpLogger}]
    \cup [op : {"SetLevel"}, level : Levels, logger : {NoOpLogger}]
    \cup [op : {"GetLevel"}, level : {LevelNone}, logger : {NoOpLogger}]
    \cup [op : {"SetDefault"}, level : {LevelNone}, logger : Loggers]

NoCall == [op |-> "none", level |-> LevelNone, logger |-> NoOpLogger]

VARIABLES
  defaultLogger, \* the package's default logger
  level,         \* the level of each standard logger
  pc,            \* where each goroutine is
  call,          \* the operation it is in
  got,           \* the logger it has taken
  calls,         \* calls it has begun
  explanations   \* the orders of whole calls that would explain what was seen

shared == <<defaultLogger, level>>
vars == <<shared, pc, call, got, calls, explanations>>

\* Level.String.
String(l) ==
  CASE l = LevelDebug -> "DEBUG"
    [] l = LevelInfo  -> "INFO"
    [] l = LevelWarn  -> "WARN"
    [] l = LevelError -> "ERROR"
    [] l = LevelNone  -> "NONE"

-----------------------------------------------------------------------------
(* What one operation does when nothing interferes *)

LevelOf(s) == IF s.default = NoOpLogger THEN LevelNone ELSE s.level[s.default]

Atomically(s, c) ==
  CASE c.op = "log"        -> [after |-> s,
                               answer |-> IF c.level < LevelOf(s) THEN "dropped" ELSE "printed"]
    [] c.op = "GetLevel"   -> [after |-> s, answer |-> String(LevelOf(s))]
    [] c.op = "SetDefault" -> [after |-> [s EXCEPT !.default = c.logger], answer |-> "ok"]
    [] c.op = "SetLevel"   ->
         [after |-> IF s.default = NoOpLogger THEN s
                    ELSE [s EXCEPT !.level[s.default] = c.level], answer |-> "ok"]

(***************************************************************************)
(* An explanation is a state that some order of the calls made so far      *)
(* leads to, with the answers it gives to calls that have not returned     *)
(* ("open" to those it has not placed yet).  Grown places pending calls.   *)
(***************************************************************************)
Open == [g \in Goroutines |-> "open"]

Placed(h, g, c) ==
  LET effect == Atomically(h.state, c)
  IN  [state |-> effect.after, answers |-> [h.answers EXCEPT ![g] = effect.answer]]

PlacedMore(hs, pending) ==
  hs \cup UNION {{Placed(h, g, pending[g]) : h \in {x \in hs : x.answers[g] = "open"}}
                   : g \in DOMAIN pending}

Grown(hs, pending) ==
  LET grown[n \in Nat] == IF n = 0 THEN hs ELSE PlacedMore(grown[n - 1], pending)
  IN  grown[Cardinality(DOMAIN pending)]

\* A call returns: what explains its answer remains.
Explain(g, c, answer) ==
  LET pending == [x \in {y \in Goroutines : pc[y] # "idle"} \cup {g} |->
                    IF x = g THEN c ELSE call[x]]
  IN  explanations' = {[h EXCEPT !.answers[g] = "open"] :
                         h \in {x \in Grown(explanations, pending) : x.answers[g] = answer}}

Init ==
  /\ defaultLogger \in StandardLoggers
  /\ level \in [StandardLoggers -> Levels]
  /\ pc = [g \in Goroutines |-> "idle"]
  /\ call = [g \in Goroutines |-> NoCall]
  /\ got = [g \in Goroutines |-> defaultLogger]
  /\ calls = [g \in Goroutines |-> 0]
  /\ explanations = {[state |-> [default |-> defaultLogger, level |-> level], answers |-> Open]}

-----------------------------------------------------------------------------
(* The calls *)

Return(g, answer) ==
  /\ pc' = [pc EXCEPT ![g] = "idle"]
  /\ call' = [call EXCEPT ![g] = NoCall]
  /\ Explain(g, call[g], answer)
  /\ UNCHANGED <<got, calls>>

Begun(g) ==
  /\ pc[g] = "idle"
  /\ calls[g] < MaxCalls
  /\ calls' = [calls EXCEPT ![g] = @ + 1]

SetDefault(g, c) ==
  /\ c.op = "SetDefault"
  /\ Begun(g)
  /\ defaultLogger' = c.logger
  /\ Explain(g, c, "ok")
  /\ UNCHANGED <<level, pc, call, got>>

\* Mutant of GetDefault: a goroutine keeps the logger it was given first.
GetDefaultOnce(g, c) ==
  /\ c.op # "SetDefault"
  /\ Begun(g)
  /\ pc' = [pc EXCEPT ![g] = "use"]
  /\ call' = [call EXCEPT ![g] = c]
  /\ got' = [got EXCEPT ![g] = IF calls[g] = 0 THEN defaultLogger ELSE @]
  /\ UNCHANGED <<shared, explanations>>

GetDefault(g, c) ==
  /\ c.op # "SetDefault"
  /\ Begun(g)
  /\ pc' = [pc EXCEPT ![g] = "use"]
  /\ call' = [call EXCEPT ![g] = c]
  /\ got' = [got EXCEPT ![g] = defaultLogger]
  /\ UNCHANGED <<shared, explanations>>

\* The methods of NoOpLogger.
NoOp(g) ==
  /\ pc[g] = "use"
  /\ got[g] = NoOpLogger
  /\ Return(g, CASE call[g].op = "log"      -> "dropped"
                 [] call[g].op = "SetLevel" -> "ok"
                 [] call[g].op = "GetLevel" -> String(LevelNone))
  /\ UNCHANGED shared

\* StandardLogger.log: the level is read under the lock, the message printed after it.
log(g) ==
  /\ pc[g] = "use"
  /\ got[g] # NoOpLogger
  /\ call[g].op = "log"
  /\ IF call[g].level < level[got[g]]
     THEN Return(g, "dropped")
     ELSE pc' = [pc EXCEPT ![g] = "print"] /\ UNCHANGED <<call, got, calls, explanations>>
  /\ UNCHANGED shared

PrintMessage(g) ==
  /\ pc[g] = "print"
  /\ Return(g, "printed")
  /\ UNCHANGED shared

\* Mutant of SetLevel: the level asked for is itself turned off.
SetLevelAbove(g) ==
  /\ pc[g] = "use"
  /\ got[g] # NoOpLogger
  /\ call[g].op = "SetLevel"
  /\ level' = [level EXCEPT ![got[g]] = call[g].level + 1]
  /\ Return(g, "ok")
  /\ UNCHANGED defaultLogger

SetLevel(g) ==
  /\ pc[g] = "use"
  /\ got[g] # NoOpLogger
  /\ call[g].op = "SetLevel"
  /\ level' = [level EXCEPT ![got[g]] = call[g].level]
  /\ Return(g, "ok")
  /\ UNCHANGED defaultLogger

GetLevel(g) ==
  /\ pc[g] = "use"
  /\ got[g] # NoOpLogger
  /\ call[g].op = "GetLevel"
  /\ Return(g, String(level[got[g]]))
  /\ UNCHANGED shared

CallStep(g) == NoOp(g) \/ log(g) \/ PrintMessage(g) \/ SetLevel(g) \/ GetLevel(g)

Next ==
  \E g \in Goroutines :
    CallStep(g) \/ \E c \in Operations : SetDefault(g, c) \/ GetDefault(g, c)

Spec == Init /\ [][Next]_vars

-----------------------------------------------------------------------------
(* Properties *)

\* The variables have their types.
TypeOK ==
  /\ defaultLogger \in Loggers
  /\ level \in [StandardLoggers -> Levels]
  /\ pc \in [Goroutines -> {"idle", "use", "print"}]
  /\ call \in [Goroutines -> Operations \cup {NoCall}]
  /\ got \in [Goroutines -> Loggers]
  /\ calls \in [Goroutines -> 0..MaxCalls]

(***************************************************************************)
(* The package functions are linearizable: whatever was printed, dropped   *)
(* or returned is what the calls would have done one at a time, each at    *)
(* some moment between its beginning and its return.  So a message that a  *)
(* goroutine logs after SetLevel(LevelNone) has returned is not printed,   *)
(* and one logged after SetDefault has returned goes to the new logger,    *)
(* although both are examined and used at different moments.               *)
(***************************************************************************)
Linearizable == explanations # {}

=============================================================================
