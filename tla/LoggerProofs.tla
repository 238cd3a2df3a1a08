---------------------------- MODULE LoggerProofs ----------------------------
(***************************************************************************)
(* Theorems about Logger for any number of goroutines, loggers and calls.  *)
(*                                                                         *)
(* What has been answered always has an explanation: a call takes effect   *)
(* when the logger it took was last the default, be it at the moment the   *)
(* logger is used or before another one replaced it.  Which of the calls   *)
(* that hold a replaced logger will still use it, and in which order, is   *)
(* open when it is replaced, so the invariant has an explanation for each  *)
(* case (Foresees).                                                        *)
(***************************************************************************)
EXTENDS Logger, FiniteSetTheorems, WellFoundedInduction, TLAPS

-----------------------------------------------------------------------------
(* Induction over the natural numbers *)

LEMMA LeastNatural ==
  ASSUME NEW T \in SUBSET Nat, T # {}
  PROVE  \E n \in T : \A m \in T : n <= m
  <1>1. PICK R : R = OpToRel(<, Nat)
    OBVIOUS
  <1>2. IsWellFoundedOn(R, Nat)
    BY <1>1, NatLessThanWellFounded
  <1>3. PICK n \in T : \A m \in T : <<m, n>> \notin R
    BY <1>2, WFMin, Zenon
  <1>4. ASSUME NEW m \in T PROVE n <= m
    <2>1. ~ (m < n)
      BY <1>1, <1>3 DEF OpToRel
    <2>. QED  BY <2>1
  <1>. QED  BY <1>3, <1>4

LEMMA InductionOnNat ==
  ASSUME NEW S, 0 \in S, \A n \in Nat : n \in S => n + 1 \in S
  PROVE  Nat \subseteq S
  <1>. SUFFICES ASSUME Nat \ S # {} PROVE FALSE
    OBVIOUS
  <1>1. PICK n \in Nat \ S : \A m \in Nat \ S : n <= m
    BY LeastNatural
  <1>2. n # 0 /\ n - 1 \in Nat
    BY <1>1
  <1>3. n - 1 \in S
    BY <1>1, <1>2
  <1>. QED  BY <1>1, <1>2, <1>3

-----------------------------------------------------------------------------
(* Grown: the least set that contains the explanations and is closed under *)
(* placing a pending call                                                  *)

Stages(hs, pending) ==
  CHOOSE f : f = [n \in Nat |-> IF n = 0 THEN hs ELSE PlacedMore(f[n - 1], pending)]

Approximates(f, n, hs, pending) ==
  f = [i \in 0..n |-> IF i = 0 THEN hs ELSE PlacedMore(f[i - 1], pending)]

LEMMA ApproximationExists ==
  ASSUME NEW hs, NEW pending
  PROVE  \A n \in Nat : \E f : Approximates(f, n, hs, pending)
  <1>. DEFINE S == {n \in Nat : \E f : Approximates(f, n, hs, pending)}
  <1>1. 0 \in S
    <2>1. Approximates([i \in 0..0 |-> hs], 0, hs, pending)
      BY DEF Approximates
    <2>. QED  BY <2>1
  <1>2. ASSUME NEW n \in Nat, n \in S PROVE n + 1 \in S
    <2>1. PICK f : Approximates(f, n, hs, pending)
      BY <1>2
    <2>2. PICK g : g = [i \in 0..(n + 1) |-> IF i = n + 1 THEN PlacedMore(f[n], pending) ELSE f[i]]
      OBVIOUS
    <2>3. ASSUME NEW i \in 0..(n + 1)
          PROVE  g[i] = IF i = 0 THEN hs ELSE PlacedMore(g[i - 1], pending)
      <3>1. CASE i = n + 1
        BY <2>2, <3>1
      <3>2. CASE i # n + 1
        <4>1. i \in 0..n /\ (i # 0 => i - 1 \in 0..n)
          BY <3>2
        <4>2. f[i] = IF i = 0 THEN hs ELSE PlacedMore(f[i - 1], pending)
          BY <2>1, <4>1 DEF Approximates
        <4>3. g[i] = f[i] /\ (i # 0 => g[i - 1] = f[i - 1])
          BY <2>2, <3>2, <4>1
        <4>. QED  BY <4>2, <4>3
      <3>. QED  BY <3>1, <3>2
    <2>4. Approximates(g, n + 1, hs, pending)
      BY <2>2, <2>3 DEF Approximates
    <2>. QED  BY <2>4
  <1>. HIDE DEF S
  <1>3. Nat \subseteq S
    BY <1>1, <1>2, InductionOnNat
  <1>. QED  BY <1>3 DEF S

LEMMA ApproximationsAgree ==
  ASSUME NEW hs, NEW pending, NEW m \in Nat, NEW n \in Nat, NEW f, NEW g,
         Approximates(f, m, hs, pending), Approximates(g, n, hs, pending)
  PROVE  \A i \in Nat : i <= m /\ i <= n => f[i] = g[i]
  <1>. DEFINE S == {i \in Nat : i <= m /\ i <= n => f[i] = g[i]}
  <1>1. 0 \in S
    BY DEF Approximates
  <1>2. ASSUME NEW i \in Nat, i \in S PROVE i + 1 \in S
    <2>. SUFFICES ASSUME i + 1 <= m, i + 1 <= n PROVE f[i + 1] = g[i + 1]
      OBVIOUS
    <2>1. f[i + 1] = PlacedMore(f[i], pending)
      BY DEF Approximates
    <2>2. g[i + 1] = PlacedMore(g[i], pending)
      BY DEF Approximates
    <2>3. f[i] = g[i]
      BY <1>2
    <2>. QED  BY <2>1, <2>2, <2>3
  <1>. HIDE DEF S
  <1>3. Nat \subseteq S
    BY <1>1, <1>2, InductionOnNat
  <1>. QED  BY <1>3 DEF S

\* The recursion defines what it says.
LEMMA StagesRecursion ==
  ASSUME NEW hs, NEW pending, NEW f, f = Stages(hs, pending)
  PROVE  f = [n \in Nat |-> IF n = 0 THEN hs ELSE PlacedMore(f[n - 1], pending)]
  <1>1. PICK a : a = [n \in Nat |-> CHOOSE g : Approximates(g, n, hs, pending)]
    OBVIOUS
  <1>2. ASSUME NEW n \in Nat PROVE Approximates(a[n], n, hs, pending)
    BY <1>1, ApproximationExists
  <1>3. PICK h : h = [n \in Nat |-> a[n][n]]
    OBVIOUS
  <1>4. ASSUME NEW n \in Nat
        PROVE  h[n] = IF n = 0 THEN hs ELSE PlacedMore(h[n - 1], pending)
    <2>1. PICK g : g = a[n] /\ Approximates(g, n, hs, pending)
      BY <1>2
    <2>2. g[n] = IF n = 0 THEN hs ELSE PlacedMore(g[n - 1], pending)
      BY <2>1 DEF Approximates
    <2>3. ASSUME n # 0 PROVE g[n - 1] = h[n - 1]
      <3>1. n - 1 \in Nat
        BY <2>3
      <3>2. PICK k : k = a[n - 1] /\ Approximates(k, n - 1, hs, pending)
        BY <1>2, <3>1
      <3>3. g[n - 1] = k[n - 1]
        BY <2>1, <3>1, <3>2, ApproximationsAgree
      <3>. QED  BY <1>3, <3>1, <3>2, <3>3
    <2>. QED  BY <1>3, <2>1, <2>2, <2>3
  <1>5. h = [n \in Nat |-> IF n = 0 THEN hs ELSE PlacedMore(h[n - 1], pending)]
    BY <1>3, <1>4
  <1>. QED  BY <1>5 DEF Stages

LEMMA GrownIsLastStage ==
  ASSUME NEW hs, NEW pending
  PROVE  Grown(hs, pending) = Stages(hs, pending)[Cardinality(DOMAIN pending)]
  BY DEF Grown, Stages

-----------------------------------------------------------------------------
(* What a call does, to an explanation and to the loggers *)

AllAnswers == {"open", "printed", "dropped", "ok", "DEBUG", "INFO", "WARN", "ERROR", "NONE"}

ExplanationType ==
  [state : [default : Loggers, level : [StandardLoggers -> Levels]],
   answers : [Goroutines -> AllAnswers]]

LevelAt(levels, l) == IF l = NoOpLogger THEN LevelNone ELSE levels[l]

Answer(levels, l, c) ==
  IF c.op = "log" THEN (IF c.level < LevelAt(levels, l) THEN "dropped" ELSE "printed")
  ELSE IF c.op = "GetLevel" THEN String(LevelAt(levels, l))
  ELSE "ok"

Effect(levels, l, c) ==
  IF c.op = "SetLevel" /\ l # NoOpLogger THEN [levels EXCEPT ![l] = c.level] ELSE levels

\* Logger l is used for call c of goroutine g.
Used(h, g, l, c) ==
  [state   |-> [default |-> h.state.default, level |-> Effect(h.state.level, l, c)],
   answers |-> [h.answers EXCEPT ![g] = Answer(h.state.level, l, c)]]

\* Another default logger; a call that has returned.
Replaced(h, l) == [state |-> [default |-> l, level |-> h.state.level], answers |-> h.answers]
Reopened(h, g) == [h EXCEPT !.answers[g] = "open"]

Uses == {c \in Operations : c.op # "SetDefault"}

LEMMA OperationsHave ==
  ASSUME NEW c \in Operations
  PROVE  /\ c.op \in {"log", "SetLevel", "GetLevel", "SetDefault"}
         /\ c.level \in AllLevels /\ c.logger \in Loggers
         /\ c.op = "SetLevel" => c.level \in Levels
         /\ c.op = "log" => c.level < LevelNone
  <1>1. LevelNone \in AllLevels /\ NoOpLogger \in Loggers
    BY DEF Loggers, AllLevels, LevelNone, LevelDebug
  <1>2. /\ c.op \in {"log", "SetLevel", "GetLevel", "SetDefault"}
        /\ c.level \in Levels \cup {LevelNone} /\ c.logger \in Loggers
        /\ c.op = "SetLevel" => c.level \in Levels
        /\ c.op = "log" => c.level \in Levels \ {LevelNone}
    BY <1>1 DEF Operations
  <1>3. c.level \in AllLevels
    BY <1>1, <1>2, LevelsAssumption
  <1>. QED  BY <1>2, <1>3 DEF AllLevels, LevelNone, LevelDebug

LEMMA StringHas ==
  ASSUME NEW l \in AllLevels
  PROVE  String(l) \in {"DEBUG", "INFO", "WARN", "ERROR", "NONE"}
  BY DEF AllLevels, String, LevelDebug, LevelInfo, LevelWarn, LevelError, LevelNone

LEMMA LevelAtType ==
  ASSUME NEW levels \in [StandardLoggers -> Levels], NEW l \in Loggers
  PROVE  LevelAt(levels, l) \in AllLevels
  <1>1. LevelNone \in AllLevels
    BY DEF AllLevels, LevelNone, LevelDebug
  <1>2. l # NoOpLogger => levels[l] \in Levels
    BY DEF Loggers
  <1>. QED  BY <1>1, <1>2, LevelsAssumption DEF LevelAt

LEMMA AnswerType ==
  ASSUME NEW levels \in [StandardLoggers -> Levels], NEW l \in Loggers, NEW c \in Operations
  PROVE  Answer(levels, l, c) \in AllAnswers \ {"open"}
  <1>1. String(LevelAt(levels, l)) \in {"DEBUG", "INFO", "WARN", "ERROR", "NONE"}
    BY LevelAtType, StringHas
  <1>. QED  BY <1>1 DEF Answer, AllAnswers

LEMMA EffectType ==
  ASSUME NEW levels \in [StandardLoggers -> Levels], NEW l \in Loggers, NEW c \in Operations
  PROVE  Effect(levels, l, c) \in [StandardLoggers -> Levels]
  BY OperationsHave DEF Effect, Loggers

LEMMA UsedHas ==
  ASSUME NEW h \in ExplanationType, NEW g \in Goroutines, NEW l \in Loggers, NEW c \in Operations
  PROVE  /\ Used(h, g, l, c) \in ExplanationType
         /\ Used(h, g, l, c).state.default = h.state.default
         /\ Used(h, g, l, c).state.level = Effect(h.state.level, l, c)
         /\ Used(h, g, l, c).answers[g] = Answer(h.state.level, l, c)
         /\ Used(h, g, l, c).answers[g] # "open"
         /\ \A x \in Goroutines \ {g} : Used(h, g, l, c).answers[x] = h.answers[x]
  <1>1. Answer(h.state.level, l, c) \in AllAnswers \ {"open"}
    BY AnswerType DEF ExplanationType
  <1>2. Effect(h.state.level, l, c) \in [StandardLoggers -> Levels]
    BY EffectType DEF ExplanationType
  <1>. QED  BY <1>1, <1>2 DEF Used, ExplanationType

\* A call that is placed uses the default logger of the moment.
LEMMA PlacedIsUsed ==
  ASSUME NEW h \in ExplanationType, NEW g \in Goroutines, NEW c \in Uses
  PROVE  Placed(h, g, c) = Used(h, g, h.state.default, c)
  <1>1. c.op \in {"log", "SetLevel", "GetLevel"}
    BY OperationsHave DEF Uses
  <1>2. LevelOf(h.state) = LevelAt(h.state.level, h.state.default)
    BY DEF LevelOf, LevelAt
  <1>3. PICK s : s = h.state /\ s = [default |-> s.default, level |-> s.level]
                 /\ s.level \in [StandardLoggers -> Levels]
    BY DEF ExplanationType
  <1>4. Atomically(s, c).after = [default |-> s.default, level |-> Effect(s.level, s.default, c)]
    <2>1. CASE c.op = "SetLevel" /\ s.default # NoOpLogger
      BY <1>3, <2>1 DEF Atomically, Effect
    <2>2. CASE ~(c.op = "SetLevel" /\ s.default # NoOpLogger)
      BY <1>1, <1>3, <2>2 DEF Atomically, Effect
    <2>. QED  BY <2>1, <2>2
  <1>5. Atomically(s, c).answer = Answer(s.level, s.default, c)
    BY <1>1, <1>2, <1>3 DEF Atomically, Answer
  <1>. QED  BY <1>3, <1>4, <1>5 DEF Placed, Used

LEMMA PlacedReplaces ==
  ASSUME NEW h \in ExplanationType, NEW g \in Goroutines, NEW c \in Operations, c.op = "SetDefault"
  PROVE  Placed(h, g, c) = [state   |-> [default |-> c.logger, level |-> h.state.level],
                            answers |-> [h.answers EXCEPT ![g] = "ok"]]
  <1>1. PICK s : s = h.state /\ s = [default |-> s.default, level |-> s.level]
    BY DEF ExplanationType
  <1>2. Atomically(s, c) = [after |-> [default |-> c.logger, level |-> s.level], answer |-> "ok"]
    BY <1>1 DEF Atomically
  <1>. QED  BY <1>1, <1>2 DEF Placed

LEMMA PlacedHas ==
  ASSUME NEW h \in ExplanationType, NEW g \in Goroutines, NEW c \in Operations
  PROVE  /\ Placed(h, g, c) \in ExplanationType
         /\ Placed(h, g, c).answers[g] # "open"
         /\ \A x \in Goroutines \ {g} : Placed(h, g, c).answers[x] = h.answers[x]
  <1>1. CASE c.op # "SetDefault"
    <2>1. PICK l \in Loggers : l = h.state.default
      BY DEF ExplanationType
    <2>2. Placed(h, g, c) = Used(h, g, l, c)
      BY <1>1, <2>1, PlacedIsUsed DEF Uses
    <2>3. /\ Used(h, g, l, c) \in ExplanationType
          /\ Used(h, g, l, c).answers[g] # "open"
          /\ \A x \in Goroutines \ {g} : Used(h, g, l, c).answers[x] = h.answers[x]
      BY UsedHas
    <2>. QED  BY <2>2, <2>3
  <1>2. CASE c.op = "SetDefault"
    BY <1>2, PlacedReplaces, OperationsHave DEF ExplanationType, AllAnswers
  <1>. QED  BY <1>1, <1>2

\* Calls that use different loggers can change places.
LEMMA UsesCommute ==
  ASSUME NEW h \in ExplanationType, NEW g \in Goroutines, NEW k \in Goroutines, g # k,
         NEW l \in Loggers, NEW m \in Loggers, l # m, NEW c \in Operations, NEW d \in Operations
  PROVE  Used(Used(h, g, l, c), k, m, d) = Used(Used(h, k, m, d), g, l, c)
  <1>1. PICK lv : lv = h.state.level /\ lv \in [StandardLoggers -> Levels]
    BY DEF ExplanationType
  <1>2. /\ LevelAt(Effect(lv, l, c), m) = LevelAt(lv, m)
        /\ LevelAt(Effect(lv, m, d), l) = LevelAt(lv, l)
    BY <1>1 DEF LevelAt, Effect, Loggers
  <1>3. /\ Answer(Effect(lv, l, c), m, d) = Answer(lv, m, d)
        /\ Answer(Effect(lv, m, d), l, c) = Answer(lv, l, c)
    BY <1>2 DEF Answer
  <1>4. Effect(Effect(lv, l, c), m, d) = Effect(Effect(lv, m, d), l, c)
    BY <1>1 DEF Effect, Loggers
  <1>5. PICK a : a = h.answers /\ a \in [Goroutines -> AllAnswers]
    BY DEF ExplanationType
  <1>6. ASSUME NEW p, NEW q
        PROVE  [[a EXCEPT ![g] = p] EXCEPT ![k] = q] = [[a EXCEPT ![k] = q] EXCEPT ![g] = p]
    BY <1>5
  <1>. QED  BY <1>1, <1>3, <1>4, <1>5, <1>6 DEF Used

-----------------------------------------------------------------------------
(* Grown is a closure *)

\* hs contains every placement of a pending call in one of its explanations.
Closed(hs, pending) ==
  \A h \in hs, g \in DOMAIN pending : h.answers[g] = "open" => Placed(h, g, pending[g]) \in hs

PendingType == UNION {[P -> Operations] : P \in SUBSET Goroutines}

LEMMA PendingHas ==
  ASSUME NEW pending \in PendingType
  PROVE  /\ DOMAIN pending \subseteq Goroutines
         /\ IsFiniteSet(DOMAIN pending) /\ Cardinality(DOMAIN pending) \in Nat
         /\ \A g \in DOMAIN pending : pending[g] \in Operations
  <1>1. DOMAIN pending \subseteq Goroutines /\ \A g \in DOMAIN pending : pending[g] \in Operations
    BY DEF PendingType
  <1>2. IsFiniteSet(DOMAIN pending)
    BY <1>1, GoroutinesAssumption, FS_Subset
  <1>. QED  BY <1>1, <1>2, FS_CardinalityType

LEMMA PlacedMoreHas ==
  ASSUME NEW hs, NEW pending
  PROVE  /\ hs \subseteq PlacedMore(hs, pending)
         /\ \A h \in hs, g \in DOMAIN pending :
              h.answers[g] = "open" => Placed(h, g, pending[g]) \in PlacedMore(hs, pending)
         /\ \A k \in PlacedMore(hs, pending) :
              \/ k \in hs
              \/ \E h \in hs, g \in DOMAIN pending :
                   h.answers[g] = "open" /\ k = Placed(h, g, pending[g])
  BY DEF PlacedMore

\* Whatever contains the explanations and is closed contains all that Grown adds.
LEMMA GrownIsLeast ==
  ASSUME NEW hs, NEW pending \in PendingType, NEW T, hs \subseteq T, Closed(T, pending)
  PROVE  Grown(hs, pending) \subseteq T
  <1>1. PICK f : f = Stages(hs, pending)
    OBVIOUS
  <1>2. f = [n \in Nat |-> IF n = 0 THEN hs ELSE PlacedMore(f[n - 1], pending)]
    BY <1>1, StagesRecursion
  <1>. DEFINE S == {n \in Nat : f[n] \subseteq T}
  <1>3. 0 \in S
    BY <1>2
  <1>4. ASSUME NEW n \in Nat, n \in S PROVE n + 1 \in S
    <2>1. f[n + 1] = PlacedMore(f[n], pending)
      BY <1>2
    <2>2. f[n] \subseteq T
      BY <1>4
    <2>3. PlacedMore(f[n], pending) \subseteq T
      BY <2>2, PlacedMoreHas DEF Closed
    <2>. QED  BY <2>1, <2>3
  <1>. HIDE DEF S
  <1>5. Nat \subseteq S
    BY <1>3, <1>4, InductionOnNat
  <1>. QED  BY <1>1, <1>5, PendingHas, GrownIsLastStage DEF S

\* The pending calls an explanation has placed.
PlacedIn(h, pending) == {g \in DOMAIN pending : h.answers[g] # "open"}

LEMMA PlacedInHas ==
  ASSUME NEW pending \in PendingType, NEW h
  PROVE  /\ IsFiniteSet(PlacedIn(h, pending))
         /\ Cardinality(PlacedIn(h, pending)) \in Nat
         /\ Cardinality(PlacedIn(h, pending)) <= Cardinality(DOMAIN pending)
         /\ \A g \in DOMAIN pending : h.answers[g] = "open" =>
              Cardinality(PlacedIn(h, pending)) < Cardinality(DOMAIN pending)
  <1>1. PlacedIn(h, pending) \in SUBSET DOMAIN pending
    BY DEF PlacedIn
  <1>2. /\ IsFiniteSet(PlacedIn(h, pending))
        /\ Cardinality(PlacedIn(h, pending)) <= Cardinality(DOMAIN pending)
        /\ Cardinality(DOMAIN pending) = Cardinality(PlacedIn(h, pending)) =>
             DOMAIN pending = PlacedIn(h, pending)
    BY <1>1, PendingHas, FS_Subset
  <1>3. Cardinality(PlacedIn(h, pending)) \in Nat
    BY <1>2, FS_CardinalityType
  <1>4. \A g \in DOMAIN pending : h.answers[g] = "open" => g \notin PlacedIn(h, pending)
    BY DEF PlacedIn
  <1>. QED  BY <1>2, <1>3, <1>4, PendingHas

LEMMA PlacingCounts ==
  ASSUME NEW pending \in PendingType, NEW h \in ExplanationType, NEW g \in DOMAIN pending,
         h.answers[g] = "open"
  PROVE  Cardinality(PlacedIn(Placed(h, g, pending[g]), pending))
           = Cardinality(PlacedIn(h, pending)) + 1
  <1>1. g \in Goroutines /\ pending[g] \in Operations /\ DOMAIN pending \subseteq Goroutines
    BY PendingHas
  <1>2. PICK k : k = Placed(h, g, pending[g])
    OBVIOUS
  <1>3. k.answers[g] # "open" /\ \A x \in Goroutines \ {g} : k.answers[x] = h.answers[x]
    BY <1>1, <1>2, PlacedHas
  <1>4. PlacedIn(k, pending) = PlacedIn(h, pending) \cup {g}
    BY <1>1, <1>3 DEF PlacedIn
  <1>5. g \notin PlacedIn(h, pending)
    BY DEF PlacedIn
  <1>. QED  BY <1>2, <1>4, <1>5, PlacedInHas, FS_AddElement

\* As many stages as there are pending calls are enough.
LEMMA GrownIsClosed ==
  ASSUME NEW hs \in SUBSET ExplanationType, NEW pending \in PendingType
  PROVE  /\ hs \subseteq Grown(hs, pending)
         /\ Grown(hs, pending) \subseteq ExplanationType
         /\ Closed(Grown(hs, pending), pending)
  <1>1. PICK f : f = Stages(hs, pending)
    OBVIOUS
  <1>2. f = [n \in Nat |-> IF n = 0 THEN hs ELSE PlacedMore(f[n - 1], pending)]
    BY <1>1, StagesRecursion
  <1>3. \A n \in Nat : f[n + 1] = PlacedMore(f[n], pending)
    BY <1>2
  <1>4. f[0] = hs
    BY <1>2
  <1>5. \A g \in DOMAIN pending : g \in Goroutines /\ pending[g] \in Operations
    BY PendingHas
  <1>6. \A n \in Nat : f[n] \subseteq ExplanationType
    <2>. DEFINE S == {n \in Nat : f[n] \subseteq ExplanationType}
    <2>1. 0 \in S
      BY <1>4
    <2>2. ASSUME NEW n \in Nat, n \in S PROVE n + 1 \in S
      <3>1. f[n] \subseteq ExplanationType
        BY <2>2
      <3>2. PlacedMore(f[n], pending) \subseteq ExplanationType
        BY <1>5, <3>1, PlacedMoreHas, PlacedHas
      <3>. QED  BY <1>3, <3>2
    <2>. HIDE DEF S
    <2>3. Nat \subseteq S
      BY <2>1, <2>2, InductionOnNat
    <2>. QED  BY <2>3 DEF S
  <1>7. \A n \in Nat : hs \subseteq f[n]
    <2>. DEFINE S == {n \in Nat : hs \subseteq f[n]}
    <2>1. 0 \in S
      BY <1>4
    <2>2. ASSUME NEW n \in Nat, n \in S PROVE n + 1 \in S
      <3>1. hs \subseteq f[n]
        BY <2>2
      <3>2. f[n] \subseteq PlacedMore(f[n], pending)
        BY PlacedMoreHas
      <3>. QED  BY <1>3, <3>1, <3>2
    <2>. HIDE DEF S
    <2>3. Nat \subseteq S
      BY <2>1, <2>2, InductionOnNat
    <2>. QED  BY <2>3 DEF S
  <1>8. \A n \in Nat : \A h \in f[n], m \in Nat :
          Cardinality(PlacedIn(h, pending)) <= m => h \in f[m]
    <2>. DEFINE S == {n \in Nat : \A h \in f[n], m \in Nat :
                        Cardinality(PlacedIn(h, pending)) <= m => h \in f[m]}
    <2>1. 0 \in S
      BY <1>4, <1>7
    <2>2. ASSUME NEW n \in Nat, n \in S PROVE n + 1 \in S
      <3>1. \A h \in f[n], m \in Nat : Cardinality(PlacedIn(h, pending)) <= m => h \in f[m]
        BY <2>2
      <3>2. ASSUME NEW k \in f[n + 1], NEW m \in Nat, Cardinality(PlacedIn(k, pending)) <= m
            PROVE  k \in f[m]
        <4>1. CASE k \in f[n]
          BY <3>1, <3>2, <4>1
        <4>2. CASE k \notin f[n]
          <5>1. k \in PlacedMore(f[n], pending)
            BY <1>3
          <5>2. PICK h \in f[n], g \in DOMAIN pending :
                  h.answers[g] = "open" /\ k = Placed(h, g, pending[g])
            BY <4>2, <5>1, PlacedMoreHas
          <5>3. Cardinality(PlacedIn(k, pending)) = Cardinality(PlacedIn(h, pending)) + 1
            BY <1>6, <5>2, PlacingCounts
          <5>4. Cardinality(PlacedIn(h, pending)) \in Nat
            BY PlacedInHas
          <5>5. m - 1 \in Nat /\ Cardinality(PlacedIn(h, pending)) <= m - 1
            BY <3>2, <5>3, <5>4
          <5>6. h \in f[m - 1]
            BY <3>1, <5>5
          <5>7. k \in PlacedMore(f[m - 1], pending)
            BY <5>2, <5>6, PlacedMoreHas
          <5>8. f[(m - 1) + 1] = PlacedMore(f[m - 1], pending)
            BY <1>3, <5>5
          <5>. QED  BY <5>7, <5>8
        <4>. QED  BY <4>1, <4>2
      <3>. QED  BY <3>2
    <2>. HIDE DEF S
    <2>3. Nat \subseteq S
      BY <2>1, <2>2, InductionOnNat
    <2>. QED  BY <2>3 DEF S
  <1>9. PICK N \in Nat : N = Cardinality(DOMAIN pending) /\ Grown(hs, pending) = f[N]
    BY <1>1, PendingHas, GrownIsLastStage
  <1>10. ASSUME NEW h \in f[N], NEW g \in DOMAIN pending, h.answers[g] = "open"
         PROVE  Placed(h, g, pending[g]) \in f[N]
    <2>1. Cardinality(PlacedIn(h, pending)) \in Nat /\ Cardinality(PlacedIn(h, pending)) < N
      BY <1>9, <1>10, PlacedInHas
    <2>2. N - 1 \in Nat /\ Cardinality(PlacedIn(h, pending)) <= N - 1
      BY <2>1
    <2>3. h \in f[N - 1]
      BY <1>8, <1>9, <2>2
    <2>4. f[(N - 1) + 1] = PlacedMore(f[N - 1], pending)
      BY <1>3, <2>2
    <2>5. Placed(h, g, pending[g]) \in PlacedMore(f[N - 1], pending)
      BY <1>10, <2>3, PlacedMoreHas
    <2>. QED  BY <2>4, <2>5
  <1>. QED  BY <1>6, <1>7, <1>9, <1>10 DEF Closed

\* A call more only adds.
LEMMA GrownIsMonotone ==
  ASSUME NEW hs \in SUBSET ExplanationType, NEW p \in PendingType, NEW q \in PendingType,
         DOMAIN p \subseteq DOMAIN q, \A g \in DOMAIN p : p[g] = q[g]
  PROVE  Grown(hs, p) \subseteq Grown(hs, q)
  <1>1. hs \subseteq Grown(hs, q) /\ Closed(Grown(hs, q), q)
    BY GrownIsClosed
  <1>2. Closed(Grown(hs, q), p)
    BY <1>1 DEF Closed
  <1>. QED  BY <1>1, <1>2, GrownIsLeast

-----------------------------------------------------------------------------
(* The inductive invariant *)

Pending == [g \in {x \in Goroutines : pc[x] # "idle"} |-> call[g]]

Waiting == {g \in Goroutines : pc[g] = "use"}
Stale == {g \in Waiting : got[g] # defaultLogger}

\* The loggers as they are, with every call placed that has examined its level.
Actual ==
  [state   |-> [default |-> defaultLogger, level |-> level],
   answers |-> [g \in Goroutines |-> IF pc[g] = "print" THEN "printed" ELSE "open"]]

\* The explanations of W end in the default logger of the moment and are among
\* those Grown has; one of them is what has really happened.
Accounts(W) ==
  /\ Actual \in W
  /\ W \subseteq Grown(explanations, Pending)
  /\ \A h \in W : h.state.default = defaultLogger
  /\ \A h \in W, g \in Goroutines : pc[g] = "idle" => h.answers[g] = "open"

\* They foresee every use of the loggers these goroutines have taken.
Foresees(W, G) ==
  \A h \in W, g \in G : h.answers[g] = "open" => Used(h, g, got[g], call[g]) \in W

(***************************************************************************)
(* A goroutine that holds a logger which is no longer the default takes    *)
(* effect when that logger was last the default: whoever of them will use  *)
(* it, in whatever order, has been foreseen.                               *)
(***************************************************************************)
Explained == \E W \in SUBSET ExplanationType : Accounts(W) /\ Foresees(W, Stale)

CallsHeld ==
  \A g \in Goroutines :
    /\ pc[g] # "idle" => call[g] \in Uses
    /\ pc[g] = "print" => call[g].op = "log"

IInv ==
  /\ TypeOK
  /\ CallsHeld
  /\ explanations \in SUBSET ExplanationType
  /\ Linearizable
  /\ Explained

LEMMA SameExplanation ==
  ASSUME NEW h \in ExplanationType, NEW k \in ExplanationType,
         h.state.default = k.state.default, h.state.level = k.state.level,
         \A g \in Goroutines : h.answers[g] = k.answers[g]
  PROVE  h = k
  <1>1. h.state = k.state
    BY DEF ExplanationType
  <1>2. h.answers = k.answers
    BY DEF ExplanationType
  <1>. QED  BY <1>1, <1>2 DEF ExplanationType

LEMMA ReopenedHas ==
  ASSUME NEW h \in ExplanationType, NEW g \in Goroutines
  PROVE  /\ Reopened(h, g) \in ExplanationType
         /\ Reopened(h, g).state = h.state
         /\ Reopened(h, g).answers[g] = "open"
         /\ \A x \in Goroutines \ {g} : Reopened(h, g).answers[x] = h.answers[x]
  BY DEF Reopened, ExplanationType, AllAnswers

LEMMA ReplacedHas ==
  ASSUME NEW h \in ExplanationType, NEW l \in Loggers
  PROVE  /\ Replaced(h, l) \in ExplanationType
         /\ Replaced(h, l).state.default = l
         /\ Replaced(h, l).state.level = h.state.level
         /\ Replaced(h, l).answers = h.answers
  BY DEF Replaced, ExplanationType

LEMMA ActualHas ==
  ASSUME TypeOK
  PROVE  /\ Actual \in ExplanationType
         /\ Actual.state.default = defaultLogger
         /\ Actual.state.level = level
         /\ \A g \in Goroutines :
              Actual.answers[g] = IF pc[g] = "print" THEN "printed" ELSE "open"
  BY DEF TypeOK, Actual, ExplanationType, AllAnswers

LEMMA ActualHasNext ==
  ASSUME TypeOK'
  PROVE  /\ Actual' \in ExplanationType
         /\ Actual'.state.default = defaultLogger'
         /\ Actual'.state.level = level'
         /\ \A g \in Goroutines :
              Actual'.answers[g] = IF pc'[g] = "print" THEN "printed" ELSE "open"
  BY DEF TypeOK, Actual, ExplanationType, AllAnswers

LEMMA PendingOf ==
  ASSUME NEW place, NEW of, NEW p, p = [g \in {x \in Goroutines : place[x] # "idle"} |-> of[g]],
         \A g \in Goroutines : place[g] # "idle" => of[g] \in Operations
  PROVE  /\ p \in PendingType
         /\ DOMAIN p = {g \in Goroutines : place[g] # "idle"}
         /\ \A g \in DOMAIN p : p[g] = of[g]
  <1>1. PICK P \in SUBSET Goroutines : P = {g \in Goroutines : place[g] # "idle"}
    OBVIOUS
  <1>2. p = [g \in P |-> of[g]]
    BY <1>1
  <1>3. p \in [P -> Operations]
    BY <1>1, <1>2
  <1>. QED  BY <1>1, <1>2, <1>3 DEF PendingType

LEMMA PendingCalls ==
  ASSUME CallsHeld
  PROVE  /\ Pending \in PendingType
         /\ DOMAIN Pending = {g \in Goroutines : pc[g] # "idle"}
         /\ \A g \in DOMAIN Pending : Pending[g] = call[g]
  BY PendingOf DEF Pending, CallsHeld, Uses

LEMMA PendingCallsNext ==
  ASSUME CallsHeld'
  PROVE  /\ Pending' \in PendingType
         /\ DOMAIN Pending' = {g \in Goroutines : pc'[g] # "idle"}
         /\ \A g \in DOMAIN Pending' : Pending'[g] = call'[g]
  BY PendingOf DEF Pending, CallsHeld, Uses

LEMMA WaitingHas ==
  ASSUME TypeOK, CallsHeld, NEW g \in Waiting
  PROVE  /\ g \in Goroutines /\ g \in DOMAIN Pending /\ Pending[g] = call[g]
         /\ got[g] \in Loggers /\ call[g] \in Uses /\ call[g] \in Operations
  BY PendingCalls DEF Waiting, CallsHeld, TypeOK, Uses

\* The goroutines that hold the default logger can be placed now.
LEMMA CompletelyExplained ==
  ASSUME IInv
  PROVE  \E W \in SUBSET ExplanationType : Accounts(W) /\ Foresees(W, Waiting)
  <1>. TypeOK /\ CallsHeld /\ explanations \in SUBSET ExplanationType
    BY DEF IInv
  <1>1. PICK W \in SUBSET ExplanationType : Accounts(W) /\ Foresees(W, Stale)
    BY DEF IInv, Explained
  <1>2. PICK G \in SUBSET ExplanationType :
          G = Grown(explanations, Pending) /\ Closed(G, Pending)
    BY GrownIsClosed, PendingCalls
  <1>. DEFINE Fresh == Waiting \ Stale
              Follows(w, k) == \A T \in SUBSET ExplanationType :
                                 w \in T /\ Foresees(T, Fresh) => k \in T
              V == {k \in ExplanationType : \E w \in W : Follows(w, k)}
  <1>3. \A w \in W : Follows(w, w)
    OBVIOUS
  <1>4. Actual \in V
    BY <1>1, <1>3, ActualHas DEF Accounts
  <1>5. ASSUME NEW k \in V
        PROVE  /\ k \in G /\ k.state.default = defaultLogger
               /\ \A g \in Goroutines : pc[g] = "idle" => k.answers[g] = "open"
    <2>1. PICK w \in W : Follows(w, k)
      OBVIOUS
    <2>. DEFINE T == {h \in G : /\ h.state.default = defaultLogger
                                /\ \A g \in Goroutines : pc[g] = "idle" => h.answers[g] = "open"}
    <2>2. w \in T /\ T \in SUBSET ExplanationType
      BY <1>1, <1>2 DEF Accounts
    <2>3. ASSUME NEW h \in T, NEW g \in Fresh, h.answers[g] = "open"
          PROVE  Used(h, g, got[g], call[g]) \in T
      <3>1. /\ g \in Waiting /\ got[g] = h.state.default /\ h \in ExplanationType
            /\ h.state.default = defaultLogger
        BY <2>2, <2>3 DEF Stale
      <3>2. PICK u : u = Used(h, g, got[g], call[g])
        OBVIOUS
      <3>3. u = Placed(h, g, Pending[g])
        BY <3>1, <3>2, WaitingHas, PlacedIsUsed
      <3>4. u \in G
        BY <1>2, <2>3, <3>1, <3>3, WaitingHas DEF Closed
      <3>5. /\ u.state.default = defaultLogger
            /\ \A x \in Goroutines \ {g} : u.answers[x] = h.answers[x]
        BY <3>1, <3>2, WaitingHas, UsedHas
      <3>6. pc[g] # "idle"
        BY <3>1 DEF Waiting
      <3>. QED  BY <3>2, <3>4, <3>5, <3>6
    <2>4. Foresees(T, Fresh)
      BY <2>3 DEF Foresees
    <2>. HIDE DEF T
    <2>5. k \in T
      BY <2>1, <2>2, <2>4
    <2>. QED  BY <2>5 DEF T
  <1>6. ASSUME NEW k \in V, NEW g \in Fresh, k.answers[g] = "open"
        PROVE  Used(k, g, got[g], call[g]) \in V
    <2>1. PICK w \in W : Follows(w, k)
      OBVIOUS
    <2>2. Used(k, g, got[g], call[g]) \in ExplanationType
      BY WaitingHas, UsedHas
    <2>3. Follows(w, Used(k, g, got[g], call[g]))
      BY <1>6, <2>1 DEF Foresees
    <2>. QED  BY <2>2, <2>3
  <1>7. ASSUME NEW k \in V, NEW g \in Stale, k.answers[g] = "open"
        PROVE  Used(k, g, got[g], call[g]) \in V
    <2>1. PICK w \in W : Follows(w, k)
      OBVIOUS
    <2>2. g \in Waiting /\ g \in Goroutines /\ got[g] \in Loggers /\ call[g] \in Operations
      BY WaitingHas DEF Stale
    <2>3. \A x \in Fresh : /\ x \in Goroutines /\ got[x] \in Loggers /\ call[x] \in Operations
                           /\ x # g /\ got[x] # got[g]
      BY WaitingHas DEF Stale
    <2>4. w.answers[g] = "open"
      <3>. DEFINE T == {h \in ExplanationType : h.answers[g] = w.answers[g]}
      <3>1. Foresees(T, Fresh)
        BY <2>2, <2>3, UsedHas DEF Foresees
      <3>2. w \in T /\ T \in SUBSET ExplanationType
        OBVIOUS
      <3>. HIDE DEF T
      <3>3. k \in T
        BY <2>1, <3>1, <3>2
      <3>. QED  BY <1>7, <3>3 DEF T
    <2>5. PICK v \in W : v = Used(w, g, got[g], call[g])
      BY <1>1, <2>4 DEF Foresees
    <2>6. PICK u \in ExplanationType : u = Used(k, g, got[g], call[g])
      BY <2>2, UsedHas
    <2>7. ASSUME NEW T \in SUBSET ExplanationType, v \in T, Foresees(T, Fresh)
          PROVE  u \in T
      <3>. DEFINE T0 == {h \in ExplanationType : Used(h, g, got[g], call[g]) \in T}
      <3>1. w \in T0 /\ T0 \in SUBSET ExplanationType
        BY <2>5, <2>7
      <3>2. ASSUME NEW h \in T0, NEW x \in Fresh, h.answers[x] = "open"
            PROVE  Used(h, x, got[x], call[x]) \in T0
        <4>1. PICK h1 \in T : h1 = Used(h, g, got[g], call[g])
          OBVIOUS
        <4>2. h1.answers[x] = "open"
          BY <2>2, <2>3, <3>2, <4>1, UsedHas
        <4>3. Used(h1, x, got[x], call[x]) \in T
          BY <2>7, <4>2 DEF Foresees
        <4>4. PICK h2 \in ExplanationType : h2 = Used(h, x, got[x], call[x])
          BY <2>3, UsedHas
        <4>5. Used(h1, x, got[x], call[x]) = Used(h2, g, got[g], call[g])
          BY <2>2, <2>3, <4>1, <4>4, UsesCommute
        <4>. QED  BY <4>3, <4>4, <4>5
      <3>3. Foresees(T0, Fresh)
        BY <3>2 DEF Foresees
      <3>. HIDE DEF T0
      <3>4. k \in T0
        BY <2>1, <3>1, <3>3
      <3>. QED  BY <2>6, <3>4 DEF T0
    <2>8. Follows(v, u)
      BY <2>7
    <2>. QED  BY <2>6, <2>8
  <1>8. V \in SUBSET ExplanationType
    OBVIOUS
  <1>9. Accounts(V)
    BY <1>2, <1>4, <1>5 DEF Accounts
  <1>10. Foresees(V, Waiting)
    <2>1. ASSUME NEW k \in V, NEW g \in Waiting, k.answers[g] = "open"
          PROVE  Used(k, g, got[g], call[g]) \in V
      BY <1>6, <1>7, <2>1
    <2>. QED  BY <2>1 DEF Foresees
  <1>. QED  BY <1>8, <1>9, <1>10

-----------------------------------------------------------------------------
(* Every step keeps it *)

LEMMA Initially == Init => IInv
  <1>. SUFFICES ASSUME Init PROVE IInv
    OBVIOUS
  <1>1. TypeOK /\ CallsHeld
    BY BoundAssumption DEF Init, TypeOK, CallsHeld, Loggers
  <1>2. Actual = [state |-> [default |-> defaultLogger, level |-> level], answers |-> Open]
    BY DEF Init, Actual, Open
  <1>3. Actual \in ExplanationType /\ explanations = {Actual}
    BY <1>1, <1>2, ActualHas DEF Init
  <1>4. Linearizable
    BY <1>3 DEF Linearizable
  <1>5. explanations \subseteq Grown(explanations, Pending)
    BY <1>1, <1>3, GrownIsClosed, PendingCalls
  <1>6. Accounts(explanations)
    BY <1>1, <1>3, <1>5, ActualHas DEF Accounts
  <1>7. Stale = {}
    BY DEF Stale, Waiting, Init
  <1>. QED  BY <1>1, <1>3, <1>4, <1>6, <1>7 DEF IInv, Explained, Foresees

\* What explains an answer that is given remains.
LEMMA ExplainHas ==
  ASSUME IInv, NEW g \in Goroutines, NEW c \in Operations, NEW answer, Explain(g, c, answer),
         NEW q \in PendingType, DOMAIN q = DOMAIN Pending \cup {g}, q[g] = c,
         \A x \in DOMAIN q \ {g} : q[x] = call[x]
  PROVE  /\ explanations' \in SUBSET ExplanationType
         /\ \A h \in Grown(explanations, q) :
              h.answers[g] = answer => Reopened(h, g) \in explanations'
  <1>1. DOMAIN Pending = {x \in Goroutines : pc[x] # "idle"}
    BY PendingCalls DEF IInv
  <1>2. PICK P : P = {y \in Goroutines : pc[y] # "idle"} \cup {g}
    OBVIOUS
  <1>3. q = [x \in P |-> IF x = g THEN c ELSE call[x]]
    BY <1>1, <1>2 DEF PendingType
  <1>4. explanations' = {Reopened(h, g) :
                           h \in {x \in Grown(explanations, q) : x.answers[g] = answer}}
    BY <1>2, <1>3 DEF Explain, Reopened
  <1>5. Grown(explanations, q) \subseteq ExplanationType
    BY GrownIsClosed DEF IInv
  <1>. QED  BY <1>4, <1>5, ReopenedHas

LEMMA GetDefaultKeeps ==
  ASSUME IInv, NEW g \in Goroutines, NEW c \in Operations, GetDefault(g, c)
  PROVE  IInv'
  <1>. TypeOK /\ CallsHeld /\ explanations \in SUBSET ExplanationType
    BY DEF IInv
  <1>1. /\ pc[g] = "idle" /\ pc' = [pc EXCEPT ![g] = "use"]
        /\ call' = [call EXCEPT ![g] = c] /\ got' = [got EXCEPT ![g] = defaultLogger]
        /\ UNCHANGED <<defaultLogger, level, explanations>> /\ c \in Uses
        /\ calls' = [calls EXCEPT ![g] = @ + 1] /\ calls[g] < MaxCalls
    BY DEF GetDefault, Begun, shared, Uses
  <1>2. TypeOK' /\ CallsHeld'
    BY <1>1, BoundAssumption DEF TypeOK, CallsHeld, Uses
  <1>3. /\ pc[g] = "idle" /\ pc'[g] = "use" /\ got'[g] = defaultLogger
        /\ \A x \in Goroutines \ {g} : pc'[x] = pc[x] /\ call'[x] = call[x] /\ got'[x] = got[x]
    BY <1>1 DEF TypeOK
  <1>4. PICK W \in SUBSET ExplanationType : Accounts(W) /\ Foresees(W, Stale)
    BY DEF IInv, Explained
  <1>5. Actual' = Actual
    BY <1>1, <1>3 DEF Actual
  <1>6. /\ Pending \in PendingType /\ Pending' \in PendingType
        /\ DOMAIN Pending \subseteq DOMAIN Pending'
        /\ \A x \in DOMAIN Pending : Pending[x] = Pending'[x]
    <2>1. /\ Pending' \in PendingType
          /\ DOMAIN Pending' = {x \in Goroutines : pc'[x] # "idle"}
          /\ \A x \in DOMAIN Pending' : Pending'[x] = call'[x]
      BY <1>2, PendingCallsNext
    <2>. QED  BY <1>3, <2>1, PendingCalls
  <1>7. Grown(explanations, Pending) \subseteq Grown(explanations, Pending')
    BY <1>6, GrownIsMonotone
  <1>8. Accounts(W)'
    BY <1>1, <1>3, <1>4, <1>5, <1>7 DEF Accounts
  <1>9. Stale' = Stale
    BY <1>1, <1>3 DEF Stale, Waiting
  <1>10. Foresees(W, Stale)'
    BY <1>3, <1>4, <1>9 DEF Foresees, Stale, Waiting
  <1>. QED  BY <1>1, <1>2, <1>4, <1>8, <1>10 DEF IInv, Explained, Linearizable

LEMMA SetDefaultKeeps ==
  ASSUME IInv, NEW g \in Goroutines, NEW c \in Operations, SetDefault(g, c)
  PROVE  IInv'
  <1>. TypeOK /\ CallsHeld /\ explanations \in SUBSET ExplanationType
    BY DEF IInv
  <1>1. /\ pc[g] = "idle" /\ c.op = "SetDefault" /\ defaultLogger' = c.logger
        /\ UNCHANGED <<level, pc, call, got>> /\ Explain(g, c, "ok")
        /\ calls' = [calls EXCEPT ![g] = @ + 1] /\ calls[g] < MaxCalls
    BY DEF SetDefault, Begun
  <1>2. c.logger \in Loggers
    BY OperationsHave
  <1>3. TypeOK' /\ CallsHeld'
    BY <1>1, <1>2, BoundAssumption DEF TypeOK, CallsHeld
  <1>4. PICK W \in SUBSET ExplanationType : Accounts(W) /\ Foresees(W, Waiting)
    BY CompletelyExplained
  <1>5. PICK P \in SUBSET Goroutines : P = DOMAIN Pending \cup {g}
    BY PendingCalls
  <1>6. PICK q : q = [x \in P |-> IF x = g THEN c ELSE call[x]]
    OBVIOUS
  <1>7. /\ q \in PendingType /\ DOMAIN q = P /\ q[g] = c
        /\ \A x \in DOMAIN q \ {g} : q[x] = call[x]
    <2>1. \A x \in P : x # g => call[x] \in Operations
      BY <1>5, PendingCalls DEF CallsHeld, Uses
    <2>2. q \in [P -> Operations]
      BY <1>6, <2>1
    <2>. QED  BY <1>5, <1>6, <2>2 DEF PendingType
  <1>8. /\ explanations' \in SUBSET ExplanationType
        /\ \A h \in Grown(explanations, q) :
             h.answers[g] = "ok" => Reopened(h, g) \in explanations'
    BY <1>1, <1>5, <1>7, ExplainHas
  <1>9. Grown(explanations, Pending) \subseteq Grown(explanations, q)
    <2>1. \A x \in DOMAIN Pending : x \in DOMAIN q /\ q[x] = Pending[x]
      BY <1>1, <1>5, <1>7, PendingCalls
    <2>. QED  BY <1>7, <2>1, PendingCalls, GrownIsMonotone
  <1>10. ASSUME NEW h \in W PROVE Replaced(h, c.logger) \in explanations'
    <2>1. h \in Grown(explanations, q) /\ h.answers[g] = "open"
      BY <1>1, <1>4, <1>9 DEF Accounts
    <2>2. PICK k : k = Placed(h, g, c)
      OBVIOUS
    <2>3. k \in Grown(explanations, q)
      BY <1>5, <1>7, <2>1, <2>2, GrownIsClosed DEF Closed
    <2>4. /\ k.state.default = c.logger /\ k.state.level = h.state.level
          /\ k.answers[g] = "ok" /\ k \in ExplanationType
          /\ \A x \in Goroutines \ {g} : k.answers[x] = h.answers[x]
      BY <1>1, <2>2, PlacedReplaces, PlacedHas DEF ExplanationType
    <2>5. Reopened(k, g) = Replaced(h, c.logger)
      <3>1. PICK a \in ExplanationType : a = Reopened(k, g)
        BY <2>4, ReopenedHas
      <3>2. PICK b \in ExplanationType : b = Replaced(h, c.logger)
        BY <1>2, ReplacedHas
      <3>3. /\ a.state = k.state /\ a.answers[g] = "open"
            /\ \A x \in Goroutines \ {g} : a.answers[x] = k.answers[x]
        BY <2>4, <3>1, ReopenedHas
      <3>4. b.state.default = c.logger /\ b.state.level = h.state.level /\ b.answers = h.answers
        BY <1>2, <3>2, ReplacedHas
      <3>. QED  BY <2>1, <2>4, <3>1, <3>2, <3>3, <3>4, SameExplanation
    <2>. QED  BY <1>8, <2>3, <2>4, <2>5
  <1>11. PICK V : V = {Replaced(h, c.logger) : h \in W}
    OBVIOUS
  <1>12. V \in SUBSET ExplanationType
    BY <1>2, <1>11, ReplacedHas
  <1>13. Actual' \in V
    <2>1. PICK b \in ExplanationType : b = Replaced(Actual, c.logger)
      BY <1>2, ActualHas, ReplacedHas
    <2>2. /\ b.state.default = c.logger /\ b.state.level = Actual.state.level
          /\ b.answers = Actual.answers
      BY <1>2, <2>1, ActualHas, ReplacedHas
    <2>3. Actual' = b
      BY <1>1, <1>3, <2>2, ActualHas, ActualHasNext, SameExplanation
    <2>. QED  BY <1>4, <1>11, <2>1, <2>3 DEF Accounts
  <1>14. explanations' \subseteq Grown(explanations', Pending')
    BY <1>3, <1>8, PendingCallsNext, GrownIsClosed
  <1>15. Accounts(V)'
    <2>1. \A h \in W : /\ Replaced(h, c.logger).state.default = c.logger
                       /\ Replaced(h, c.logger).answers = h.answers
      BY <1>2, ReplacedHas
    <2>. QED  BY <1>1, <1>4, <1>10, <1>11, <1>13, <1>14, <2>1 DEF Accounts
  <1>16. Foresees(V, Stale)'
    <2>1. ASSUME NEW h \in W, NEW x \in Waiting, Replaced(h, c.logger).answers[x] = "open"
          PROVE  Used(Replaced(h, c.logger), x, got[x], call[x]) \in V
      <3>1. PICK k \in W : k = Used(h, x, got[x], call[x])
        BY <1>2, <1>4, <2>1, ReplacedHas DEF Foresees
      <3>2. k.state.level = Effect(h.state.level, got[x], call[x])
            /\ k.answers = [h.answers EXCEPT ![x] = Answer(h.state.level, got[x], call[x])]
        BY <3>1 DEF Used
      <3>3. Used(Replaced(h, c.logger), x, got[x], call[x])
              = [state   |-> [default |-> c.logger,
                              level   |-> Effect(h.state.level, got[x], call[x])],
                 answers |-> [h.answers EXCEPT ![x] = Answer(h.state.level, got[x], call[x])]]
        BY DEF Replaced, Used
      <3>4. Replaced(k, c.logger) = Used(Replaced(h, c.logger), x, got[x], call[x])
        BY <3>2, <3>3 DEF Replaced
      <3>. QED  BY <1>11, <3>4
    <2>2. Stale' \subseteq Waiting
      BY <1>1 DEF Stale, Waiting
    <2>. QED  BY <1>1, <1>11, <2>1, <2>2 DEF Foresees
  <1>17. Linearizable'
    BY <1>4, <1>10 DEF Linearizable, Accounts
  <1>. QED  BY <1>3, <1>8, <1>12, <1>15, <1>16, <1>17 DEF IInv, Explained

\* A call returns the answer of an explanation that ends in the loggers as they
\* will be.
LEMMA ReturnKeeps ==
  ASSUME IInv, NEW g \in Goroutines, pc[g] # "idle", NEW answer, Return(g, answer),
         defaultLogger' = defaultLogger, level' \in [StandardLoggers -> Levels],
         NEW W \in SUBSET ExplanationType, Accounts(W), Foresees(W, Waiting),
         NEW k \in W, k.answers[g] = answer, k.state.level = level',
         \A x \in Goroutines \ {g} : k.answers[x] = Actual.answers[x]
  PROVE  IInv'
  <1>. TypeOK /\ CallsHeld /\ explanations \in SUBSET ExplanationType
    BY DEF IInv
  <1>1. /\ pc' = [pc EXCEPT ![g] = "idle"] /\ call' = [call EXCEPT ![g] = NoCall]
        /\ Explain(g, call[g], answer) /\ UNCHANGED <<got, calls>>
    BY DEF Return
  <1>2. /\ pc'[g] = "idle"
        /\ \A x \in Goroutines \ {g} : pc'[x] = pc[x] /\ call'[x] = call[x]
    BY <1>1 DEF TypeOK
  <1>3. TypeOK' /\ CallsHeld'
    BY <1>1 DEF TypeOK, CallsHeld
  <1>4. /\ explanations' \in SUBSET ExplanationType
        /\ \A h \in Grown(explanations, Pending) :
             h.answers[g] = answer => Reopened(h, g) \in explanations'
    <2>1. call[g] \in Operations /\ g \in DOMAIN Pending
      BY PendingCalls DEF CallsHeld, Uses
    <2>2. /\ Pending \in PendingType /\ DOMAIN Pending = DOMAIN Pending \cup {g}
          /\ Pending[g] = call[g] /\ \A x \in DOMAIN Pending \ {g} : Pending[x] = call[x]
      BY <2>1, PendingCalls
    <2>. QED  BY <1>1, <2>1, <2>2, ExplainHas
  <1>5. PICK V : V = {Reopened(h, g) : h \in {x \in W : x.answers[g] = answer}}
    OBVIOUS
  <1>6. V \in SUBSET ExplanationType
    BY <1>5, ReopenedHas
  <1>7. V \subseteq explanations'
    BY <1>4, <1>5 DEF Accounts
  <1>8. Actual' \in V
    <2>1. PICK b \in ExplanationType : b = Reopened(k, g)
      BY ReopenedHas
    <2>2. /\ b.state = k.state /\ b.answers[g] = "open"
          /\ \A x \in Goroutines \ {g} : b.answers[x] = k.answers[x]
      BY <2>1, ReopenedHas
    <2>3. k.state.default = defaultLogger
      BY DEF Accounts
    <2>4. Actual' = b
      BY <1>2, <1>3, <2>1, <2>2, <2>3, ActualHas, ActualHasNext, SameExplanation
    <2>. QED  BY <1>5, <2>1, <2>4
  <1>9. explanations' \subseteq Grown(explanations', Pending')
    BY <1>3, <1>4, PendingCallsNext, GrownIsClosed
  <1>10. ASSUME NEW h \in W
         PROVE  /\ Reopened(h, g).state = h.state /\ Reopened(h, g).answers[g] = "open"
                /\ \A x \in Goroutines \ {g} : Reopened(h, g).answers[x] = h.answers[x]
    BY ReopenedHas
  <1>11. Accounts(V)'
    <2>1. \A v \in V : v.state.default = defaultLogger
      BY <1>5, <1>10 DEF Accounts
    <2>2. \A v \in V, x \in Goroutines : pc'[x] = "idle" => v.answers[x] = "open"
      BY <1>2, <1>5, <1>10 DEF Accounts
    <2>. QED  BY <1>7, <1>8, <1>9, <2>1, <2>2 DEF Accounts
  <1>12. Foresees(V, Stale)'
    <2>1. ASSUME NEW h \in W, h.answers[g] = answer,
                 NEW x \in Waiting \ {g}, Reopened(h, g).answers[x] = "open"
          PROVE  Used(Reopened(h, g), x, got[x], call[x]) \in V
      <3>1. x \in Goroutines /\ x # g /\ got[x] \in Loggers /\ call[x] \in Operations
        BY WaitingHas
      <3>2. PICK u \in W : u = Used(h, x, got[x], call[x])
        BY <1>10, <2>1, <3>1 DEF Foresees
      <3>3. u.answers[g] = answer
        BY <2>1, <3>1, <3>2, UsedHas
      <3>4. PICK a \in ExplanationType : a = Reopened(u, g)
        BY ReopenedHas
      <3>5. PICK h0 \in ExplanationType : h0 = Reopened(h, g)
        BY ReopenedHas
      <3>6. PICK b \in ExplanationType : b = Used(h0, x, got[x], call[x])
        BY <3>1, UsedHas
      <3>7. h0.state = h.state /\ h0.answers[g] = "open"
            /\ \A y \in Goroutines \ {g} : h0.answers[y] = h.answers[y]
        BY <1>10, <3>5
      <3>8. a.state = u.state /\ a.answers[g] = "open"
            /\ \A y \in Goroutines \ {g} : a.answers[y] = u.answers[y]
        BY <1>10, <3>4
      <3>9. /\ u.state.default = h.state.default
            /\ u.state.level = Effect(h.state.level, got[x], call[x])
            /\ u.answers[x] = Answer(h.state.level, got[x], call[x])
            /\ \A y \in Goroutines \ {x} : u.answers[y] = h.answers[y]
        BY <3>1, <3>2, UsedHas
      <3>10. /\ b.state.default = h.state.default
             /\ b.state.level = Effect(h.state.level, got[x], call[x])
             /\ b.answers[x] = Answer(h.state.level, got[x], call[x])
             /\ \A y \in Goroutines \ {x} : b.answers[y] = h0.answers[y]
        BY <3>1, <3>5, <3>6, <3>7, UsedHas
      <3>11. \A y \in Goroutines : a.answers[y] = b.answers[y]
        BY <3>1, <3>7, <3>8, <3>9, <3>10
      <3>12. a = b
        BY <3>8, <3>9, <3>10, <3>11, SameExplanation
      <3>. QED  BY <1>5, <3>3, <3>4, <3>5, <3>6, <3>12
    <2>2. Stale' \subseteq Waiting \ {g}
      BY <1>1, <1>2 DEF Stale, Waiting
    <2>3. \A x \in Waiting \ {g} : got'[x] = got[x] /\ call'[x] = call[x]
      BY <1>1, <1>2 DEF Waiting
    <2>. QED  BY <1>5, <2>1, <2>2, <2>3 DEF Foresees
  <1>13. Linearizable'
    BY <1>7, <1>8 DEF Linearizable
  <1>. QED  BY <1>3, <1>4, <1>6, <1>11, <1>12, <1>13 DEF IInv, Explained

\* The explanations of a goroutine that uses its logger now.
LEMMA UseIsForeseen ==
  ASSUME IInv, NEW g \in Waiting
  PROVE  \E W \in SUBSET ExplanationType :
           /\ Accounts(W) /\ Foresees(W, Waiting)
           /\ \E k \in W :
                /\ k.state.level = Effect(level, got[g], call[g])
                /\ k.answers[g] = Answer(level, got[g], call[g])
                /\ \A x \in Goroutines \ {g} : k.answers[x] = Actual.answers[x]
  <1>. TypeOK /\ CallsHeld
    BY DEF IInv
  <1>1. PICK W \in SUBSET ExplanationType : Accounts(W) /\ Foresees(W, Waiting)
    BY CompletelyExplained
  <1>2. g \in Goroutines /\ got[g] \in Loggers /\ call[g] \in Operations
    BY WaitingHas
  <1>3. PICK h \in W : h = Actual
    BY <1>1 DEF Accounts
  <1>4. h.answers[g] = "open" /\ h.state.level = level
    BY <1>2, <1>3, ActualHas DEF Waiting
  <1>5. PICK k \in W : k = Used(h, g, got[g], call[g])
    BY <1>1, <1>4 DEF Foresees
  <1>6. /\ k.state.level = Effect(level, got[g], call[g])
        /\ k.answers[g] = Answer(level, got[g], call[g])
        /\ \A x \in Goroutines \ {g} : k.answers[x] = Actual.answers[x]
    BY <1>2, <1>3, <1>4, <1>5, UsedHas
  <1>. QED  BY <1>1, <1>6

LEMMA UseReturns ==
  ASSUME IInv, NEW g \in Waiting, Return(g, Answer(level, got[g], call[g])),
         defaultLogger' = defaultLogger, level' = Effect(level, got[g], call[g])
  PROVE  IInv'
  <1>1. TypeOK /\ CallsHeld
    BY DEF IInv
  <1>2. g \in Goroutines /\ pc[g] # "idle"
    BY DEF Waiting
  <1>3. level' \in [StandardLoggers -> Levels]
    BY <1>1, WaitingHas, EffectType DEF TypeOK
  <1>4. PICK W \in SUBSET ExplanationType :
          /\ Accounts(W) /\ Foresees(W, Waiting)
          /\ \E k \in W : /\ k.state.level = level'
                          /\ k.answers[g] = Answer(level, got[g], call[g])
                          /\ \A x \in Goroutines \ {g} : k.answers[x] = Actual.answers[x]
    BY UseIsForeseen
  <1>5. PICK answer : answer = Answer(level, got[g], call[g])
    OBVIOUS
  <1>6. PICK k \in W : /\ k.state.level = level' /\ k.answers[g] = answer
                       /\ \A x \in Goroutines \ {g} : k.answers[x] = Actual.answers[x]
    BY <1>4, <1>5
  <1>7. Return(g, answer)
    BY <1>5
  <1>. QED  BY <1>2, <1>3, <1>4, <1>6, <1>7, ReturnKeeps

LEMMA NoOpKeeps == ASSUME IInv, NEW g \in Goroutines, NoOp(g) PROVE IInv'
  <1>1. /\ g \in Waiting /\ got[g] = NoOpLogger /\ UNCHANGED <<defaultLogger, level>>
        /\ call[g] \in Operations /\ call[g].op \in {"log", "SetLevel", "GetLevel"}
    <2>1. g \in Waiting
      BY DEF NoOp, Waiting
    <2>2. call[g] \in Uses
      BY <2>1, WaitingHas DEF IInv
    <2>. QED  BY <2>1, <2>2, OperationsHave DEF NoOp, shared, Uses
  <1>2. call[g].op = "log" => call[g].level < LevelNone
    BY <1>1, OperationsHave
  <1>3. Return(g, Answer(level, got[g], call[g]))
    <2>1. CASE call[g].op = "log"
      BY <1>1, <1>2, <2>1 DEF NoOp, Answer, LevelAt
    <2>2. CASE call[g].op = "SetLevel"
      BY <1>1, <2>2 DEF NoOp, Answer, LevelAt
    <2>3. CASE call[g].op = "GetLevel"
      BY <1>1, <2>3 DEF NoOp, Answer, LevelAt
    <2>. QED  BY <1>1, <2>1, <2>2, <2>3
  <1>4. level' = Effect(level, got[g], call[g])
    BY <1>1 DEF Effect
  <1>. QED  BY <1>1, <1>3, <1>4, UseReturns

LEMMA SetLevelKeeps == ASSUME IInv, NEW g \in Goroutines, SetLevel(g) PROVE IInv'
  <1>1. /\ g \in Waiting /\ defaultLogger' = defaultLogger
        /\ Return(g, Answer(level, got[g], call[g]))
    BY DEF SetLevel, Waiting, Answer
  <1>2. level' = Effect(level, got[g], call[g])
    BY DEF SetLevel, Effect
  <1>. QED  BY <1>1, <1>2, UseReturns

LEMMA GetLevelKeeps == ASSUME IInv, NEW g \in Goroutines, GetLevel(g) PROVE IInv'
  <1>1. /\ g \in Waiting /\ UNCHANGED <<defaultLogger, level>>
        /\ Return(g, Answer(level, got[g], call[g]))
    BY DEF GetLevel, Waiting, Answer, LevelAt, shared
  <1>2. level' = Effect(level, got[g], call[g])
    BY <1>1 DEF GetLevel, Effect
  <1>. QED  BY <1>1, <1>2, UseReturns

LEMMA logKeeps == ASSUME IInv, NEW g \in Goroutines, log(g) PROVE IInv'
  <1>. TypeOK /\ CallsHeld /\ explanations \in SUBSET ExplanationType
    BY DEF IInv
  <1>1. /\ g \in Waiting /\ UNCHANGED <<defaultLogger, level>> /\ call[g].op = "log"
        /\ level' = Effect(level, got[g], call[g])
        /\ Answer(level, got[g], call[g])
             = IF call[g].level < level[got[g]] THEN "dropped" ELSE "printed"
    BY DEF log, Waiting, shared, Effect, Answer, LevelAt
  <1>2. CASE call[g].level < level[got[g]]
    <2>1. Return(g, Answer(level, got[g], call[g]))
      BY <1>1, <1>2 DEF log
    <2>. QED  BY <1>1, <2>1, UseReturns
  <1>3. CASE ~(call[g].level < level[got[g]])
    <2>1. pc' = [pc EXCEPT ![g] = "print"] /\ UNCHANGED <<call, got, calls, explanations>>
      BY <1>3 DEF log
    <2>2. /\ pc'[g] = "print" /\ pc[g] = "use"
          /\ \A x \in Goroutines \ {g} : pc'[x] = pc[x]
      <3>1. PICK P : P = DOMAIN pc
        BY Zenon
      <3>2. P = Goroutines /\ g \in Goroutines /\ pc[g] = "use"
        BY <1>1, <3>1 DEF TypeOK, Waiting
      <3>3. pc' = [x \in P |-> IF x = g THEN "print" ELSE pc[x]]
        BY <2>1, <3>1
      <3>. QED  BY <3>2, <3>3
    <2>3. TypeOK' /\ CallsHeld'
      BY <1>1, <2>1 DEF TypeOK, CallsHeld, Waiting
    <2>4. PICK W \in SUBSET ExplanationType :
            /\ Accounts(W) /\ Foresees(W, Waiting)
            /\ \E k \in W : /\ k.state.level = level /\ k.answers[g] = "printed"
                            /\ \A x \in Goroutines \ {g} : k.answers[x] = Actual.answers[x]
      BY <1>1, <1>3, UseIsForeseen
    <2>5. Actual' \in W
      <3>1. PICK k \in W : /\ k.state.level = level /\ k.answers[g] = "printed"
                           /\ \A x \in Goroutines \ {g} : k.answers[x] = Actual.answers[x]
        BY <2>4
      <3>2. k.state.default = defaultLogger
        BY <2>4 DEF Accounts
      <3>3. Actual' = k
        BY <1>1, <2>2, <2>3, <3>1, <3>2, ActualHas, ActualHasNext, SameExplanation
      <3>. QED  BY <3>3
    <2>6. Pending' = Pending
      BY <2>1, <2>2 DEF Pending
    <2>7. Accounts(W)'
      BY <1>1, <2>1, <2>2, <2>4, <2>5, <2>6 DEF Accounts
    <2>8. Stale' \subseteq Waiting
      BY <1>1, <2>2 DEF Stale, Waiting
    <2>9. Foresees(W, Stale)'
      BY <2>1, <2>4, <2>8 DEF Foresees
    <2>. QED  BY <2>1, <2>3, <2>4, <2>7, <2>9 DEF IInv, Explained, Linearizable
  <1>. QED  BY <1>2, <1>3

LEMMA PrintMessageKeeps == ASSUME IInv, NEW g \in Goroutines, PrintMessage(g) PROVE IInv'
  <1>1. /\ pc[g] = "print" /\ UNCHANGED <<defaultLogger, level>> /\ Return(g, "printed")
    BY DEF PrintMessage, shared
  <1>2. TypeOK
    BY DEF IInv
  <1>3. PICK W \in SUBSET ExplanationType : Accounts(W) /\ Foresees(W, Waiting)
    BY CompletelyExplained
  <1>4. PICK k \in W : k = Actual
    BY <1>3 DEF Accounts
  <1>5. k.answers[g] = "printed" /\ k.state.level = level'
    BY <1>1, <1>2, <1>4, ActualHas
  <1>6. level' \in [StandardLoggers -> Levels] /\ defaultLogger' = defaultLogger
    BY <1>1, <1>2 DEF TypeOK
  <1>. QED  BY <1>1, <1>3, <1>4, <1>5, <1>6, ReturnKeeps

LEMMA UnchangedKeeps == IInv /\ UNCHANGED vars => IInv'
  <1>. SUFFICES ASSUME IInv, UNCHANGED vars PROVE IInv'
    OBVIOUS
  <1>. USE DEF vars, shared
  <1>1. TypeOK' /\ CallsHeld' /\ (explanations \in SUBSET ExplanationType)' /\ Linearizable'
    BY DEF IInv, TypeOK, CallsHeld, Linearizable
  <1>2. Actual' = Actual /\ Pending' = Pending /\ Waiting' = Waiting /\ Stale' = Stale
    BY DEF Actual, Pending, Waiting, Stale
  <1>3. Explained'
    BY <1>2 DEF IInv, Explained, Accounts, Foresees
  <1>. QED  BY <1>1, <1>3 DEF IInv

LEMMA StepInvariant == IInv /\ [Next]_vars => IInv'
  BY GetDefaultKeeps, SetDefaultKeeps, NoOpKeeps, logKeeps, PrintMessageKeeps, SetLevelKeeps,
     GetLevelKeeps, UnchangedKeeps DEF Next, CallStep

LEMMA Invariant == Spec => []IInv
  BY Initially, StepInvariant, PTL DEF Spec

-----------------------------------------------------------------------------
(* What a program may rely on *)

\* The variables have their types: a level is never one that was not set.
THEOREM TypeCorrectness == Spec => []TypeOK
  BY Invariant, PTL DEF IInv

(***************************************************************************)
(* Any number of goroutines that log, set and read levels and replace the  *)
(* default logger, with a change between the moment a logger is taken and  *)
(* the moment it is used, and another before the message is printed, see   *)
(* what they would have seen one call at a time.                           *)
(***************************************************************************)
THEOREM CallsAreLinearizable == Spec => []Linearizable
  BY Invariant, PTL DEF IInv

=============================================================================
