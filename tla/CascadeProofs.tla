---------------------------- MODULE CascadeProofs ----------------------------
(***************************************************************************)
(* Safety of cascading dispatch for every set of events and clauses, every *)
(* behaviour of the bodies and every configuration; and that dispatch      *)
(* reports the cascade tree and counts it, whatever happens in it.         *)
(***************************************************************************)
EXTENDS CascadeContract, Recursion, FiniteSetTheorems

-----------------------------------------------------------------------------
(* The stack of activations.                                               *)

\* Pop drops the innermost activation and keeps the others where they are.
LEMMA PopProperties ==
  ASSUME frames \in Seq(Frame), frames # <<>>
  PROVE  /\ Pop \in Seq(Frame)
         /\ \E n \in Nat : /\ Len(frames) = n + 1
                           /\ Len(Pop) = n
                           /\ \A i \in 1 .. n : Pop[i] = frames[i]
<1>1. PICK n \in Nat : Len(frames) = n + 1
  <2>1. Len(frames) \in Nat \ {0}
    BY EmptySeq
  <2>2. \A m \in Nat \ {0} : m - 1 \in Nat /\ m = (m - 1) + 1
    OBVIOUS
  <2>3. QED
    BY <2>1, <2>2
<1>2. Pop = SubSeq(frames, 1, n)
  <2>1. (n + 1) - 1 = n
    OBVIOUS
  <2>2. QED
    BY <1>1, <2>1 DEF Pop
<1>3. \A i \in 1 .. n : frames[i] \in Frame
  <2>1. \A i \in 1 .. n : i \in 1 .. n + 1
    OBVIOUS
  <2>2. QED
    BY <1>1, <2>1, ElementOfSeq
<1>4. /\ SubSeq(frames, 1, n) \in Seq(Frame)
      /\ Len(SubSeq(frames, 1, n)) = IF 1 <= n THEN n - 1 + 1 ELSE 0
      /\ \A i \in 1 .. n - 1 + 1 : SubSeq(frames, 1, n)[i] = frames[1 + i - 1]
  BY <1>3, SubSeqProperties
<1>5. (IF 1 <= n THEN n - 1 + 1 ELSE 0) = n
  OBVIOUS
<1>6. \A i \in 1 .. n : i \in 1 .. n - 1 + 1 /\ 1 + i - 1 = i
  OBVIOUS
<1>7. \A i \in 1 .. n : SubSeq(frames, 1, n)[i] = frames[i]
  BY <1>4, <1>6
<1>8. QED
  BY <1>1, <1>2, <1>4, <1>5, <1>7

\* ReplaceTop changes nothing but the innermost activation.
LEMMA ReplaceTopProperties ==
  ASSUME frames \in Seq(Frame), frames # <<>>, NEW f \in Frame
  PROVE  /\ ReplaceTop(f) \in Seq(Frame)
         /\ Len(ReplaceTop(f)) = Len(frames)
         /\ Top \in Frame
         /\ \A i \in 1 .. Len(frames) :
              ReplaceTop(f)[i] = IF i = Len(frames) THEN f ELSE frames[i]
<1>1. Len(frames) \in 1 .. Len(frames)
  BY EmptySeq, LenProperties
<1>2. QED
  BY <1>1, ExceptSeq, ElementOfSeq DEF ReplaceTop, Top

\* An outcome appended to the list keeps it a list of outcomes.
LEMMA AppendOutcome ==
  ASSUME outcomes \in Seq(Outcome), NEW o \in Outcome
  PROVE  Append(outcomes, o) \in Seq(Outcome)
BY AppendProperties

LEMMA SyntheticIsOutcome ==
  ASSUME NEW kind \in OutcomeKind
  PROVE  SyntheticOutcome(kind) \in Outcome
<1>1. <<>> \in Seq(Event)
  BY EmptySeq
<1>2. QED
  BY <1>1 DEF SyntheticOutcome, Outcome

LEMMA KeptEmissions ==
  ASSUME NEW result \in BodyResult
  PROVE  Kept(result) \in Seq(Event)
<1>1. <<>> \in Seq(Event)
  BY EmptySeq
<1>2. QED
  BY <1>1 DEF Kept, BodyResult

-----------------------------------------------------------------------------
(* Type correctness.                                                       *)

LEMMA StartTypes ==
  ASSUME TypeOK, NEW kind \in {"enter", "depth", "cycle"}, Start(kind)
  PROVE  /\ call \in Event
         /\ call' \in Event \cup {NoEvent}
         /\ outcomes' \in Seq(Outcome)
         /\ cascade_depth_max' \in Nat
         /\ config' \in Configs /\ ctx_config' \in Configs
         /\ root' \in Event \cup {NoEvent}
         /\ budget_remaining' \in 0 .. ctx_config'.budget
         /\ dispatches' \in 0 .. MaxDispatches
         /\ cascades_emitted' \in Nat
         /\ last_error' \subseteq Script
<1>1. Depth \in Nat
  BY LenProperties DEF TypeOK, Depth
<1>2. kind # "enter" => Append(outcomes, SyntheticOutcome(kind)) \in Seq(Outcome)
  BY SyntheticIsOutcome, AppendOutcome DEF TypeOK, OutcomeKind
<1>3. QED
  BY <1>1, <1>2 DEF Start, TypeOK, Larger

LEMMA TypeOKStep ==
  ASSUME TypeOK, [Next]_vars
  PROVE  TypeOK'
<1> USE CascadeAssumption
<1>1. ASSUME NEW cfg \in Configs, SetCascadeConfig(cfg)
      PROVE  TypeOK'
  BY <1>1 DEF TypeOK, SetCascadeConfig, context, stats
<1>2. ASSUME NEW e \in Event, Dispatch(e)
      PROVE  TypeOK'
  <2>1. config.budget \in 0 .. config.budget
    BY DEF TypeOK, CascadeConfig
  <2>2. <<>> \in Seq(Outcome)
    BY EmptySeq
  <2>3. dispatches' \in 0 .. MaxDispatches
    BY <1>2 DEF TypeOK, Dispatch
  <2>4. QED
    BY <1>2, <2>1, <2>2, <2>3 DEF TypeOK, Dispatch
<1>3. CASE RefuseDepth
  BY <1>3, StartTypes DEF TypeOK, RefuseDepth
<1>4. CASE RefuseCycle
  BY <1>4, StartTypes DEF TypeOK, RefuseCycle
<1>5. CASE EnterLevel
  <2>1. Start("enter")
    BY <1>5 DEF EnterLevel
  <2>2. Matches[call] \in Seq(Clause) /\ call \in Event
    BY <2>1, StartTypes
  <2>3. [event |-> call, matches |-> Matches[call], emissions |-> <<>>] \in Frame
    BY <2>2, EmptySeq DEF Frame
  <2>4. frames' \in Seq(Frame)
    BY <1>5, <2>3, AppendProperties DEF EnterLevel, TypeOK
  <2>5. matched' \in Nat
    BY <1>5, <2>2, LenProperties DEF EnterLevel, TypeOK
  <2>6. visited' \subseteq Event
    BY <1>5, <2>2 DEF EnterLevel, TypeOK
  <2>7. QED
    BY <2>1, <2>4, <2>5, <2>6, StartTypes DEF TypeOK
<1>6. ASSUME NEW result \in Results, ExecuteClause(result)
      PROVE  TypeOK'
  <2> DEFINE c == Head(Top.matches)
             f == [event |-> Top.event, matches |-> Tail(Top.matches),
                   emissions |-> Kept(result)]
  <2>1. frames \in Seq(Frame) /\ frames # <<>>
    BY <1>6 DEF ExecuteClause, Running, TypeOK
  <2>2. Top \in Frame /\ Top.matches # <<>>
    BY <1>6, <2>1, EmptySeq, LenProperties, ElementOfSeq DEF Top, ExecuteClause
  <2>3. c \in Clause /\ Tail(Top.matches) \in Seq(Clause)
    BY <2>2, HeadTailProperties DEF Frame
  <2>4. result \in BodyResult
    BY DEF Results
  <2>5. f \in Frame
    BY <2>2, <2>3, <2>4, KeptEmissions DEF Frame
  <2>6. frames' \in Seq(Frame)
    BY <1>6, <2>1, <2>5, ReplaceTopProperties DEF ExecuteClause
  <2>7. ClauseOutcome(c, result) \in Outcome
    BY <2>3, <2>4, KeptEmissions DEF ClauseOutcome, Outcome, OutcomeKind
  <2>8. outcomes' \in Seq(Outcome)
    BY <1>6, <2>7, AppendOutcome DEF ExecuteClause, TypeOK
  <2>9. last_error' \subseteq Script
    BY <1>6, <2>3 DEF ExecuteClause, TypeOK
  <2>10. QED
    BY <1>6, <2>6, <2>8, <2>9 DEF ExecuteClause, TypeOK, context
<1>7. CASE FeedEmission
  <2> DEFINE f == [event |-> Top.event, matches |-> Top.matches,
                   emissions |-> Tail(Top.emissions)]
  <2>1. frames \in Seq(Frame) /\ frames # <<>>
    BY <1>7 DEF FeedEmission, Running, TypeOK
  <2>2. Top \in Frame /\ Top.emissions # <<>>
    BY <1>7, <2>1, EmptySeq, LenProperties, ElementOfSeq DEF Top, FeedEmission
  <2>3. Head(Top.emissions) \in Event /\ f \in Frame
    BY <2>2, HeadTailProperties DEF Frame
  <2>4. frames' \in Seq(Frame)
    BY <1>7, <2>1, <2>3, ReplaceTopProperties DEF FeedEmission
  <2>5. budget_remaining' \in 0 .. ctx_config'.budget
    <3>1. ctx_config \in CascadeConfig /\ ctx_config.budget \in Nat
      BY DEF TypeOK, CascadeConfig
    <3>2. /\ budget_remaining \in 0 .. ctx_config.budget /\ budget_remaining > 0
          /\ budget_remaining' = budget_remaining - 1 /\ ctx_config' = ctx_config
      BY <1>7 DEF FeedEmission, TypeOK
    <3>3. QED
      BY <3>1, <3>2
  <2>6. QED
    BY <1>7, <2>3, <2>4, <2>5 DEF FeedEmission, TypeOK
<1>8. CASE ExhaustBudget
  <2>1. frames' \in Seq(Frame)
    BY <1>8, PopProperties DEF ExhaustBudget, Return, Running, TypeOK
  <2>2. outcomes' \in Seq(Outcome)
    BY <1>8, SyntheticIsOutcome, AppendOutcome DEF ExhaustBudget, TypeOK, OutcomeKind
  <2>3. QED
    BY <1>8, <2>1, <2>2 DEF ExhaustBudget, Return, TypeOK, stats
<1>9. CASE FinishLevel
  <2>1. frames' \in Seq(Frame)
    BY <1>9, PopProperties DEF FinishLevel, Return, Running, TypeOK
  <2>2. QED
    BY <1>9, <2>1 DEF FinishLevel, Return, TypeOK, stats
<1>10. CASE UNCHANGED vars
  BY <1>10 DEF TypeOK, vars, context, stats
<1>11. QED
  BY <1>1, <1>2, <1>3, <1>4, <1>5, <1>6, <1>7, <1>8, <1>9, <1>10 DEF Next, Step

\* Every variable keeps its type; in particular the emission budget, an unsigned
\* counter that is decremented, never goes below zero.
THEOREM TypeCorrect == Spec => []TypeOK
<1>1. Init => TypeOK
  BY CascadeAssumption, EmptySeq DEF Init, TypeOK, CascadeConfig
<1>2. TypeOK /\ [Next]_vars => TypeOK'
  BY TypeOKStep
<1>3. QED
  BY <1>1, <1>2, PTL DEF Spec

-----------------------------------------------------------------------------
(* Cycle detection and the depth bound.                                    *)

\* An entered level: one more mark, one more activation, all events distinct.
LEMMA EnterKeepsStack ==
  ASSUME TypeOK, VisitedIsActiveStack, EnterLevel
  PROVE  VisitedIsActiveStack'
<1> DEFINE f == [event |-> call, matches |-> Matches[call], emissions |-> <<>>]
<1>1. call \in Event
  BY StartTypes DEF EnterLevel
<1>2. f \in Frame /\ f.event = call
  BY <1>1, CascadeAssumption, EmptySeq DEF Frame
<1> HIDE DEF f
<1>3. /\ Len(frames) \in Nat
      /\ DOMAIN frames = 1 .. Len(frames)
      /\ DOMAIN frames' = 1 .. Len(frames) + 1
      /\ frames'[Len(frames) + 1] = f
      /\ \A i \in 1 .. Len(frames) : frames'[i] = frames[i]
  BY <1>2, AppendProperties, LenProperties DEF TypeOK, EnterLevel, f
<1>4. visited' = visited \cup {call} /\ call \notin visited
  BY DEF EnterLevel
<1>5. visited' = {frames'[i].event : i \in DOMAIN frames'}
  BY <1>2, <1>3, <1>4 DEF VisitedIsActiveStack
<1>6. \A i, j \in DOMAIN frames' : frames'[i].event = frames'[j].event => i = j
  <2>1. \A i \in 1 .. Len(frames) : frames'[i].event # call
    BY <1>3, <1>4 DEF VisitedIsActiveStack
  <2>2. \A i, j \in 1 .. Len(frames) : frames'[i].event = frames'[j].event => i = j
    BY <1>3 DEF VisitedIsActiveStack
  <2>3. \A i \in DOMAIN frames' : i \in 1 .. Len(frames) \/ i = Len(frames) + 1
    BY <1>3
  <2>4. QED
    BY <1>2, <1>3, <2>1, <2>2, <2>3
<1>7. QED
  BY <1>5, <1>6 DEF VisitedIsActiveStack

\* A left level takes its own mark away and no other: no other activation has it.
LEMMA ReturnKeepsStack ==
  ASSUME TypeOK, VisitedIsActiveStack, frames # <<>>, Return
  PROVE  VisitedIsActiveStack'
<1>1. PICK n \in Nat : /\ Len(frames) = n + 1
                       /\ DOMAIN frames = 1 .. n + 1
                       /\ DOMAIN frames' = 1 .. n
                       /\ \A i \in 1 .. n : frames'[i] = frames[i]
  BY PopProperties, LenProperties DEF TypeOK, Return
<1>2. visited' = visited \ {frames[n + 1].event}
  BY <1>1 DEF Return, Top
<1>3. \A i \in 1 .. n + 1 : i \in 1 .. n <=> i # n + 1
  OBVIOUS
<1>4. \A i \in 1 .. n : i \in 1 .. n + 1
  OBVIOUS
<1>5. \A i \in 1 .. n : frames[i].event # frames[n + 1].event
  BY <1>1, <1>3, <1>4 DEF VisitedIsActiveStack
<1>6. visited = {frames[i].event : i \in 1 .. n + 1}
  BY <1>1 DEF VisitedIsActiveStack
<1>7. visited' = {frames'[i].event : i \in 1 .. n}
  <2>1. visited' = {frames[i].event : i \in 1 .. n}
    BY <1>2, <1>3, <1>4, <1>5, <1>6
  <2>2. QED
    BY <1>1, <2>1
<1>8. \A i, j \in 1 .. n : frames'[i].event = frames'[j].event => i = j
  BY <1>1, <1>4 DEF VisitedIsActiveStack
<1>9. QED
  BY <1>1, <1>7, <1>8 DEF VisitedIsActiveStack

\* Running the innermost activation changes no event on the stack.
LEMMA ReplaceKeepsStack ==
  ASSUME TypeOK, VisitedIsActiveStack, frames # <<>>, visited' = visited,
         NEW f \in Frame, f.event = Top.event, frames' = ReplaceTop(f)
  PROVE  VisitedIsActiveStack' /\ Len(frames') = Len(frames)
<1>1. /\ frames' \in Seq(Frame)
      /\ Len(frames') = Len(frames)
      /\ \A i \in 1 .. Len(frames) : frames'[i].event = frames[i].event
  BY ReplaceTopProperties DEF TypeOK, Top
<1>2. DOMAIN frames' = 1 .. Len(frames) /\ DOMAIN frames = 1 .. Len(frames)
  BY <1>1, LenProperties DEF TypeOK
<1>3. QED
  BY <1>1, <1>2 DEF VisitedIsActiveStack

LEMMA ExecuteReplaces ==
  ASSUME TypeOK, NEW result \in Results, ExecuteClause(result)
  PROVE  /\ frames # <<>> /\ visited' = visited
         /\ \E f \in Frame : f.event = Top.event /\ frames' = ReplaceTop(f)
<1> DEFINE f == [event |-> Top.event, matches |-> Tail(Top.matches),
                 emissions |-> Kept(result)]
<1>1. frames \in Seq(Frame) /\ frames # <<>>
  BY DEF ExecuteClause, Running, TypeOK
<1>2. Top \in Frame /\ Top.matches # <<>>
  BY <1>1, EmptySeq, LenProperties, ElementOfSeq DEF Top, ExecuteClause
<1>3. result \in BodyResult
  BY CascadeAssumption DEF Results
<1>4. f \in Frame /\ f.event = Top.event
  BY <1>2, <1>3, KeptEmissions, HeadTailProperties DEF Frame
<1>5. frames' = ReplaceTop(f)
  BY DEF ExecuteClause
<1>6. QED
  BY <1>1, <1>4, <1>5 DEF ExecuteClause, context

LEMMA FeedReplaces ==
  ASSUME TypeOK, FeedEmission
  PROVE  /\ frames # <<>> /\ visited' = visited
         /\ \E f \in Frame : f.event = Top.event /\ frames' = ReplaceTop(f)
<1> DEFINE f == [event |-> Top.event, matches |-> Top.matches,
                 emissions |-> Tail(Top.emissions)]
<1>1. frames \in Seq(Frame) /\ frames # <<>>
  BY DEF FeedEmission, Running, TypeOK
<1>2. Top \in Frame /\ Top.emissions # <<>>
  BY <1>1, EmptySeq, LenProperties, ElementOfSeq DEF Top, FeedEmission
<1>3. f \in Frame /\ f.event = Top.event
  BY <1>2, HeadTailProperties DEF Frame
<1>4. frames' = ReplaceTop(f)
  BY DEF FeedEmission
<1>5. QED
  BY <1>1, <1>3, <1>4 DEF FeedEmission

\* VisitedIsActiveStack is inductive on its own: the marks of ctx.visited are
\* those of the active levels, and no event is dispatched inside itself.
THEOREM StackSafety == Spec => []VisitedIsActiveStack
<1>1. Init => VisitedIsActiveStack
  BY DEF Init, VisitedIsActiveStack
<1>2. TypeOK /\ VisitedIsActiveStack /\ [Next]_vars => VisitedIsActiveStack'
  <2> SUFFICES ASSUME TypeOK, VisitedIsActiveStack, [Next]_vars
               PROVE  VisitedIsActiveStack'
    OBVIOUS
  <2>1. ASSUME NEW cfg \in Configs, SetCascadeConfig(cfg)
        PROVE  VisitedIsActiveStack'
    BY <2>1 DEF SetCascadeConfig, VisitedIsActiveStack, context
  <2>2. ASSUME NEW e \in Event, Dispatch(e)
        PROVE  VisitedIsActiveStack'
    BY <2>2 DEF Dispatch, Idle, VisitedIsActiveStack
  <2>3. CASE RefuseDepth
    BY <2>3 DEF RefuseDepth, VisitedIsActiveStack
  <2>4. CASE RefuseCycle
    BY <2>4 DEF RefuseCycle, VisitedIsActiveStack
  <2>5. CASE EnterLevel
    BY <2>5, EnterKeepsStack
  <2>6. ASSUME NEW result \in Results, ExecuteClause(result)
        PROVE  VisitedIsActiveStack'
    BY <2>6, ExecuteReplaces, ReplaceKeepsStack
  <2>7. CASE FeedEmission
    BY <2>7, FeedReplaces, ReplaceKeepsStack
  <2>8. CASE ExhaustBudget
    BY <2>8, ReturnKeepsStack DEF ExhaustBudget, Running
  <2>9. CASE FinishLevel
    BY <2>9, ReturnKeepsStack DEF FinishLevel, Running
  <2>10. CASE UNCHANGED vars
    BY <2>10 DEF vars, context, VisitedIsActiveStack
  <2>11. QED
    BY <2>1, <2>2, <2>3, <2>4, <2>5, <2>6, <2>7, <2>8, <2>9, <2>10 DEF Next, Step
<1>3. QED
  BY <1>1, <1>2, TypeCorrect, PTL DEF Spec

\* What every start of an activation, refused or not, does to the depth record.
LEMMA StartKeepsDepthRecord ==
  ASSUME TypeOK, DepthBounded, NEW kind \in {"enter", "depth", "cycle"}, Start(kind)
  PROVE  \E cfg \in Configs : cascade_depth_max' <= cfg.max_depth
<1>1. Depth \in Nat /\ Depth <= ctx_config.max_depth /\ ctx_config \in Configs
  BY LenProperties DEF TypeOK, DepthBounded, Depth
<1>2. cascade_depth_max' = Depth \/ cascade_depth_max' = cascade_depth_max
  BY DEF Start, Larger
<1>3. QED
  BY <1>1, <1>2 DEF DepthBounded

\* The recursion never goes below the configured depth, nor does the record of it.
THEOREM DepthSafety == Spec => []DepthBounded
<1>1. Init => DepthBounded
  BY CascadeAssumption DEF Init, DepthBounded, CascadeConfig
<1>2. TypeOK /\ VisitedIsActiveStack /\ DepthBounded /\ [Next]_vars => DepthBounded'
  <2> SUFFICES ASSUME TypeOK, VisitedIsActiveStack, DepthBounded, [Next]_vars
               PROVE  DepthBounded'
    OBVIOUS
  <2>0. Len(frames) \in Nat /\ ctx_config.max_depth \in Nat
    BY CascadeAssumption, LenProperties DEF TypeOK, CascadeConfig
  <2>1. ASSUME NEW cfg \in Configs, SetCascadeConfig(cfg)
        PROVE  DepthBounded'
    BY <2>1 DEF SetCascadeConfig, DepthBounded, context, stats
  <2>2. ASSUME NEW e \in Event, Dispatch(e)
        PROVE  DepthBounded'
    <3>1. Len(frames') = 0 /\ ctx_config'.max_depth \in Nat
      BY <2>2, CascadeAssumption, EmptySeq DEF Dispatch, Idle, TypeOK, CascadeConfig
    <3>2. QED
      BY <2>2, <3>1 DEF Dispatch, DepthBounded
  <2>3. CASE RefuseDepth
    <3>1. \E cfg \in Configs : cascade_depth_max' <= cfg.max_depth
      BY <2>3, StartKeepsDepthRecord DEF RefuseDepth
    <3>2. QED
      BY <2>3, <3>1 DEF RefuseDepth, Start, DepthBounded
  <2>4. CASE RefuseCycle
    <3>1. \E cfg \in Configs : cascade_depth_max' <= cfg.max_depth
      BY <2>4, StartKeepsDepthRecord DEF RefuseCycle
    <3>2. QED
      BY <2>4, <3>1 DEF RefuseCycle, Start, DepthBounded
  <2>5. CASE EnterLevel
    <3>1. \E cfg \in Configs : cascade_depth_max' <= cfg.max_depth
      BY <2>5, StartKeepsDepthRecord DEF EnterLevel
    <3>2. call \in Event
      BY <2>5, StartTypes DEF EnterLevel
    <3>3. [event |-> call, matches |-> Matches[call], emissions |-> <<>>] \in Frame
      BY <3>2, CascadeAssumption, EmptySeq DEF Frame
    <3>4. Len(frames') = Len(frames) + 1
      BY <2>5, <3>3, AppendProperties DEF EnterLevel, TypeOK
    <3>5. ~(Len(frames) >= ctx_config.max_depth)
      BY <2>5 DEF EnterLevel, TooDeep, Depth
    <3>6. Len(frames') <= ctx_config.max_depth
      BY <2>0, <3>4, <3>5
    <3>7. QED
      BY <2>5, <3>1, <3>6 DEF EnterLevel, Start, DepthBounded
  <2>6. ASSUME NEW result \in Results, ExecuteClause(result)
        PROVE  DepthBounded'
    <3>1. Len(frames') = Len(frames)
      BY <2>6, ExecuteReplaces, ReplaceKeepsStack
    <3>2. QED
      BY <2>6, <3>1 DEF ExecuteClause, DepthBounded, context
  <2>7. CASE FeedEmission
    <3>1. Len(frames') = Len(frames)
      BY <2>7, FeedReplaces, ReplaceKeepsStack
    <3>2. QED
      BY <2>7, <3>1 DEF FeedEmission, DepthBounded
  <2>8. ASSUME frames # <<>>, Return, UNCHANGED <<ctx_config, cascade_depth_max>>
        PROVE  DepthBounded'
    <3>1. PICK n \in Nat : Len(frames) = n + 1 /\ Len(frames') = n
      BY <2>8, PopProperties DEF TypeOK, Return
    <3>2. Len(frames') <= ctx_config.max_depth
      BY <2>0, <3>1 DEF DepthBounded
    <3>3. QED
      BY <2>8, <3>2 DEF DepthBounded
  <2>9. CASE ExhaustBudget
    BY <2>8, <2>9 DEF ExhaustBudget, Running, stats
  <2>10. CASE FinishLevel
    BY <2>8, <2>10 DEF FinishLevel, Running, stats
  <2>11. CASE UNCHANGED vars
    BY <2>11 DEF vars, context, stats, DepthBounded
  <2>12. QED
    BY <2>1, <2>2, <2>3, <2>4, <2>5, <2>6, <2>7, <2>9, <2>10, <2>11 DEF Next, Step
<1>3. QED
  BY <1>1, <1>2, TypeCorrect, StackSafety, PTL DEF Spec

-----------------------------------------------------------------------------
(* The end of the budget.                                                  *)

\* Only an outcome of kind "budget" makes the tree exhausted.
LEMMA AppendKeepsBudget ==
  ASSUME TypeOK, NEW o \in Outcome, o.kind # "budget", outcomes' = Append(outcomes, o)
  PROVE  BudgetExhausted' => BudgetExhausted
<1>1. /\ DOMAIN outcomes = 1 .. Len(outcomes)
      /\ DOMAIN outcomes' = 1 .. Len(outcomes) + 1
      /\ Len(outcomes) \in Nat
      /\ outcomes'[Len(outcomes) + 1] = o
      /\ \A i \in 1 .. Len(outcomes) : outcomes'[i] = outcomes[i]
  BY AppendProperties, LenProperties DEF TypeOK
<1>2. \A i \in DOMAIN outcomes' : i \in 1 .. Len(outcomes) \/ i = Len(outcomes) + 1
  BY <1>1
<1>3. QED
  BY <1>1, <1>2 DEF BudgetExhausted

\* The budget is refused only once it is all used, and nothing starts afterwards.
THEOREM ExhaustionSafety == Spec => []ExhaustionIsFinal
<1>1. Init => ExhaustionIsFinal
  BY DEF Init, ExhaustionIsFinal, BudgetExhausted
<1>2. TypeOK /\ ExhaustionIsFinal /\ [Next]_vars => ExhaustionIsFinal'
  <2> SUFFICES ASSUME TypeOK, ExhaustionIsFinal, [Next]_vars
               PROVE  ExhaustionIsFinal'
    OBVIOUS
  <2>1. ASSUME NEW cfg \in Configs, SetCascadeConfig(cfg)
        PROVE  ExhaustionIsFinal'
    BY <2>1 DEF SetCascadeConfig, ExhaustionIsFinal, BudgetExhausted, context
  <2>2. ASSUME NEW e \in Event, Dispatch(e)
        PROVE  ExhaustionIsFinal'
    BY <2>2 DEF Dispatch, ExhaustionIsFinal, BudgetExhausted
  <2>3. ASSUME NEW kind \in {"enter", "depth", "cycle"}, Start(kind)
        PROVE  ExhaustionIsFinal'
    <3>1. ~BudgetExhausted
      BY <2>3 DEF Start, ExhaustionIsFinal
    <3>2. CASE kind = "enter"
      BY <2>3, <3>1, <3>2 DEF Start, ExhaustionIsFinal, BudgetExhausted
    <3>3. CASE kind # "enter"
      <4>1. SyntheticOutcome(kind) \in Outcome /\ SyntheticOutcome(kind).kind # "budget"
        BY <3>3, SyntheticIsOutcome DEF SyntheticOutcome, OutcomeKind
      <4>2. outcomes' = Append(outcomes, SyntheticOutcome(kind))
        BY <2>3, <3>3 DEF Start
      <4>3. QED
        BY <3>1, <4>1, <4>2, AppendKeepsBudget DEF ExhaustionIsFinal
    <3>4. QED
      BY <3>2, <3>3
  <2>4. CASE RefuseDepth
    BY <2>3, <2>4 DEF RefuseDepth
  <2>5. CASE RefuseCycle
    BY <2>3, <2>5 DEF RefuseCycle
  <2>6. CASE EnterLevel
    BY <2>3, <2>6 DEF EnterLevel
  <2>7. ASSUME NEW result \in Results, ExecuteClause(result)
        PROVE  ExhaustionIsFinal'
    <3> DEFINE o == ClauseOutcome(Head(Top.matches), result)
    <3>1. Top \in Frame /\ Top.matches # <<>>
      BY <2>7, EmptySeq, LenProperties, ElementOfSeq DEF TypeOK, Top, ExecuteClause, Running
    <3>2. Head(Top.matches) \in Clause /\ result \in BodyResult
      BY <3>1, CascadeAssumption, HeadTailProperties DEF Frame, Results
    <3>3. o \in Outcome /\ o.kind # "budget"
      BY <3>2, KeptEmissions DEF ClauseOutcome, Outcome, OutcomeKind
    <3>4. outcomes' = Append(outcomes, o)
      BY <2>7 DEF ExecuteClause
    <3>5. BudgetExhausted' => BudgetExhausted
      BY <3>3, <3>4, AppendKeepsBudget
    <3>6. QED
      BY <2>7, <3>5 DEF ExecuteClause, ExhaustionIsFinal, context
  <2>8. CASE FeedEmission
    BY <2>8 DEF FeedEmission, ExhaustionIsFinal, BudgetExhausted, TypeOK, CascadeConfig
  <2>9. CASE ExhaustBudget
    BY <2>9 DEF ExhaustBudget, Running, ExhaustionIsFinal
  <2>10. CASE FinishLevel
    BY <2>10 DEF FinishLevel, ExhaustionIsFinal, BudgetExhausted
  <2>11. CASE UNCHANGED vars
    BY <2>11 DEF vars, context, ExhaustionIsFinal, BudgetExhausted
  <2>12. QED
    BY <2>1, <2>2, <2>4, <2>5, <2>6, <2>7, <2>8, <2>9, <2>10, <2>11 DEF Next, Step
<1>3. QED
  BY <1>1, <1>2, TypeCorrect, PTL DEF Spec

-----------------------------------------------------------------------------
(* Sums and joins.                                                         *)

\* Sums up to each place.
Totals(a, f, n) ==
  a[0] = 0 /\ \A i \in 1 .. n : a[i] = a[i - 1] + f[i]

LEMMA TotalRecursion ==
  ASSUME NEW n \in Nat, NEW f \in [1 .. n -> Nat]
  PROVE  \E a \in [0 .. n -> Nat] : Totals(a, f, n) /\ Total(f, n) = a[n]
<1> DEFINE N == n
           X == Nat
           Nth(a, i) == IF i = 0 THEN 0 ELSE a[i - 1] + f[i]
           step == [c \in (1 .. N) \X X |-> c[2] + f[c[1]]]
<1>1. N \in Nat /\ 0 \in X
  OBVIOUS
<1>2. \A i \in 1 .. N, x \in X : x + f[i] \in X
  OBVIOUS
<1> HIDE DEF X, N
<1>3. step \in [(1 .. N) \X X -> X]
  BY <1>2
<1>4. PICK a \in [0 .. N -> X] : Iterates(a, 0, step, N)
  <2> HIDE DEF step
  <2>1. QED
    BY <1>1, <1>3, Iteration, Zenon
<1>5. a[0] = 0 /\ \A i \in 1 .. N : a[i] = a[i - 1] + f[i]
  <2>1. a[0] = 0
    BY <1>4 DEF Iterates
  <2>2. ASSUME NEW i \in 1 .. N
        PROVE  a[i] = a[i - 1] + f[i]
    <3>1. i - 1 \in 0 .. N
      BY <1>1
    <3>2. <<i, a[i - 1]>> \in (1 .. N) \X X /\ <<i, a[i - 1]>>[1] = i /\ <<i, a[i - 1]>>[2] = a[i - 1]
      BY <1>4, <3>1
    <3>3. a[i] = step[<<i, a[i - 1]>>]
      BY <1>4 DEF Iterates
    <3>4. QED
      BY <3>2, <3>3
  <2>3. QED
    BY <2>1, <2>2
<1>6. a = [i \in 0 .. N |-> Nth(a, i)]
  <2>1. \A i \in 0 .. N : a[i] = Nth(a, i)
    <3>1. \A i \in 0 .. N : i = 0 \/ i \in 1 .. N
      BY <1>1
    <3>2. QED
      BY <1>5, <3>1
  <2>2. a = [i \in 0 .. N |-> a[i]]
    BY <1>4
  <2> HIDE DEF Nth
  <2>3. QED
    BY <2>1, <2>2
<1> DEFINE b == CHOOSE h : h = [i \in 0 .. N |-> Nth(h, i)]
<1>7. b = [i \in 0 .. N |-> Nth(b, i)]
  <2> HIDE DEF Nth
  <2>1. QED
    BY <1>6, Zenon
<1>8. Total(f, n) = b[N]
  BY Zenon DEF Total, N
<1> HIDE DEF b
<1>9. b[0] = 0 /\ \A i \in 1 .. N : b[i] = b[i - 1] + f[i]
  <2>1. 0 \in 0 .. N /\ \A i \in 1 .. N : i \in 0 .. N /\ i # 0
    BY <1>1
  <2>2. \A i \in 0 .. N : b[i] = Nth(b, i)
    BY <1>7
  <2>3. QED
    BY <2>1, <2>2
<1>10. \A i \in 0 .. N : b[i] = a[i]
  <2> DEFINE U == {i \in Nat : b[i] = a[i]}
  <2>1. 0 \in U
    BY <1>5, <1>9
  <2>2. ASSUME NEW i \in U, i + 1 <= N
        PROVE  i + 1 \in U
    <3>1. i + 1 \in 1 .. N /\ (i + 1) - 1 = i
      BY <1>1, <2>2
    <3>2. a[i + 1] = a[i] + f[i + 1] /\ b[i + 1] = b[i] + f[i + 1]
      BY <1>5, <1>9, <3>1
    <3>3. a[i] = b[i]
      BY <2>2
    <3>4. b[i + 1] = a[i + 1]
      BY <3>2, <3>3, Zenon
    <3>5. i + 1 \in Nat
      BY <3>1
    <3>6. QED
      BY <3>4, <3>5, Zenon
  <2> HIDE DEF U
  <2>3. U \in SUBSET Nat
    BY DEF U
  <2>4. \A i \in 0 .. N : i \in U
    BY <1>1, <2>1, <2>2, <2>3, InductionUpTo
  <2>5. QED
    BY <2>4 DEF U
<1>11. Total(f, n) = a[N]
  BY <1>1, <1>8, <1>10
<1>12. QED
  BY <1>4, <1>5, <1>11 DEF Totals, N, X

\* One place more: what it holds is added to the sum so far.
LEMMA TotalNext ==
  ASSUME NEW n \in Nat, NEW f \in [1 .. n + 1 -> Nat], NEW g \in [1 .. n -> Nat],
         \A i \in 1 .. n : g[i] = f[i]
  PROVE  Total(f, n + 1) = Total(g, n) + f[n + 1]
<1>1. PICK a \in [0 .. n + 1 -> Nat] : Totals(a, f, n + 1) /\ Total(f, n + 1) = a[n + 1]
  <2>1. n + 1 \in Nat
    OBVIOUS
  <2>2. QED
    BY <2>1, TotalRecursion, Zenon
<1>2. PICK b \in [0 .. n -> Nat] : Totals(b, g, n) /\ Total(g, n) = b[n]
  BY TotalRecursion, Zenon
<1>3. \A i \in 0 .. n : a[i] = b[i]
  <2> DEFINE U == {i \in Nat : a[i] = b[i]}
  <2>1. 0 \in U
    BY <1>1, <1>2 DEF Totals
  <2>2. ASSUME NEW i \in U, i + 1 <= n
        PROVE  i + 1 \in U
    <3>1. i + 1 \in 1 .. n /\ i + 1 \in 1 .. n + 1 /\ (i + 1) - 1 = i
      BY <2>2
    <3>2. a[i + 1] = a[i] + f[i + 1] /\ b[i + 1] = b[i] + g[i + 1] /\ g[i + 1] = f[i + 1]
      BY <1>1, <1>2, <3>1 DEF Totals
    <3>3. a[i] = b[i]
      BY <2>2
    <3>4. b[i + 1] = a[i + 1]
      BY <3>2, <3>3, Zenon
    <3>5. i + 1 \in Nat
      BY <3>1
    <3>6. QED
      BY <3>4, <3>5, Zenon
  <2> HIDE DEF U
  <2>3. U \in SUBSET Nat
    BY DEF U
  <2>4. \A i \in 0 .. n : i \in U
    BY <2>1, <2>2, <2>3, InductionUpTo
  <2>5. QED
    BY <2>4 DEF U
<1>4. n \in 0 .. n /\ n + 1 \in 1 .. n + 1 /\ (n + 1) - 1 = n
  OBVIOUS
<1>5. a[n + 1] = a[n] + f[n + 1]
  BY <1>1, <1>4 DEF Totals
<1>6. QED
  BY <1>1, <1>2, <1>3, <1>4, <1>5

\* Joins up to each place.
Joins(a, f, n) ==
  a[0] = <<>> /\ \A i \in 1 .. n : a[i] = f[i] \o a[i - 1]

LEMMA JoinedRecursion ==
  ASSUME NEW S, NEW n \in Nat, NEW f \in [1 .. n -> Seq(S)]
  PROVE  \E a \in [0 .. n -> Seq(S)] : Joins(a, f, n) /\ Joined(f, n) = a[n]
<1> DEFINE N == n
           X == Seq(S)
           Nth(a, i) == IF i = 0 THEN <<>> ELSE f[i] \o a[i - 1]
           step == [c \in (1 .. N) \X X |-> f[c[1]] \o c[2]]
<1>1. N \in Nat /\ <<>> \in X
  BY EmptySeq
<1>2. \A i \in 1 .. N, x \in X : f[i] \o x \in X
  BY ConcatProperties
<1> HIDE DEF X, N
<1>3. step \in [(1 .. N) \X X -> X]
  BY <1>2
<1>4. PICK a \in [0 .. N -> X] : Iterates(a, <<>>, step, N)
  <2> HIDE DEF step
  <2>1. QED
    BY <1>1, <1>3, Iteration, Zenon
<1>5. a[0] = <<>> /\ \A i \in 1 .. N : a[i] = f[i] \o a[i - 1]
  <2>1. a[0] = <<>>
    BY <1>4 DEF Iterates
  <2>2. ASSUME NEW i \in 1 .. N
        PROVE  a[i] = f[i] \o a[i - 1]
    <3>1. i - 1 \in 0 .. N
      BY <1>1
    <3>2. <<i, a[i - 1]>> \in (1 .. N) \X X /\ <<i, a[i - 1]>>[1] = i /\ <<i, a[i - 1]>>[2] = a[i - 1]
      BY <1>4, <3>1
    <3>3. a[i] = step[<<i, a[i - 1]>>]
      BY <1>4 DEF Iterates
    <3>4. QED
      BY <3>2, <3>3
  <2>3. QED
    BY <2>1, <2>2
<1>6. a = [i \in 0 .. N |-> Nth(a, i)]
  <2>1. \A i \in 0 .. N : a[i] = Nth(a, i)
    <3>1. \A i \in 0 .. N : i = 0 \/ i \in 1 .. N
      BY <1>1
    <3>2. QED
      BY <1>5, <3>1
  <2>2. a = [i \in 0 .. N |-> a[i]]
    BY <1>4
  <2> HIDE DEF Nth
  <2>3. QED
    BY <2>1, <2>2
<1> DEFINE b == CHOOSE h : h = [i \in 0 .. N |-> Nth(h, i)]
<1>7. b = [i \in 0 .. N |-> Nth(b, i)]
  <2> HIDE DEF Nth
  <2>1. QED
    BY <1>6, Zenon
<1>8. Joined(f, n) = b[N]
  BY Zenon DEF Joined, N
<1> HIDE DEF b
<1>9. b[0] = <<>> /\ \A i \in 1 .. N : b[i] = f[i] \o b[i - 1]
  <2>1. 0 \in 0 .. N /\ \A i \in 1 .. N : i \in 0 .. N /\ i # 0
    BY <1>1
  <2>2. \A i \in 0 .. N : b[i] = Nth(b, i)
    BY <1>7
  <2>3. QED
    BY <2>1, <2>2
<1>10. \A i \in 0 .. N : b[i] = a[i]
  <2> DEFINE U == {i \in Nat : b[i] = a[i]}
  <2>1. 0 \in U
    BY <1>5, <1>9
  <2>2. ASSUME NEW i \in U, i + 1 <= N
        PROVE  i + 1 \in U
    <3>1. i + 1 \in 1 .. N /\ (i + 1) - 1 = i
      BY <1>1, <2>2
    <3>2. a[i + 1] = f[i + 1] \o a[i] /\ b[i + 1] = f[i + 1] \o b[i]
      BY <1>5, <1>9, <3>1
    <3>3. a[i] = b[i]
      BY <2>2
    <3>4. b[i + 1] = a[i + 1]
      BY <3>2, <3>3, Zenon
    <3>5. i + 1 \in Nat
      BY <3>1
    <3>6. QED
      BY <3>4, <3>5, Zenon
  <2> HIDE DEF U
  <2>3. U \in SUBSET Nat
    BY DEF U
  <2>4. \A i \in 0 .. N : i \in U
    BY <1>1, <2>1, <2>2, <2>3, InductionUpTo
  <2>5. QED
    BY <2>4 DEF U
<1>11. Joined(f, n) = a[N]
  BY <1>1, <1>8, <1>10
<1>12. QED
  BY <1>4, <1>5, <1>11 DEF Joins, N, X

\* One place more: what it holds comes before the join so far.
LEMMA JoinedNext ==
  ASSUME NEW S, NEW n \in Nat, NEW f \in [1 .. n + 1 -> Seq(S)], NEW g \in [1 .. n -> Seq(S)],
         \A i \in 1 .. n : g[i] = f[i]
  PROVE  Joined(f, n + 1) = f[n + 1] \o Joined(g, n)
<1>1. PICK a \in [0 .. n + 1 -> Seq(S)] : Joins(a, f, n + 1) /\ Joined(f, n + 1) = a[n + 1]
  <2>1. n + 1 \in Nat
    OBVIOUS
  <2>2. QED
    BY <2>1, JoinedRecursion, Zenon
<1>2. PICK b \in [0 .. n -> Seq(S)] : Joins(b, g, n) /\ Joined(g, n) = b[n]
  BY JoinedRecursion, Zenon
<1>3. \A i \in 0 .. n : a[i] = b[i]
  <2> DEFINE U == {i \in Nat : a[i] = b[i]}
  <2>1. 0 \in U
    BY <1>1, <1>2 DEF Joins
  <2>2. ASSUME NEW i \in U, i + 1 <= n
        PROVE  i + 1 \in U
    <3>1. i + 1 \in 1 .. n /\ i + 1 \in 1 .. n + 1 /\ (i + 1) - 1 = i
      BY <2>2
    <3>2. a[i + 1] = f[i + 1] \o a[i] /\ b[i + 1] = g[i + 1] \o b[i] /\ g[i + 1] = f[i + 1]
      BY <1>1, <1>2, <3>1 DEF Joins
    <3>3. a[i] = b[i]
      BY <2>2
    <3>4. b[i + 1] = a[i + 1]
      BY <3>2, <3>3, Zenon
    <3>5. i + 1 \in Nat
      BY <3>1
    <3>6. QED
      BY <3>4, <3>5, Zenon
  <2> HIDE DEF U
  <2>3. U \in SUBSET Nat
    BY DEF U
  <2>4. \A i \in 0 .. n : i \in U
    BY <2>1, <2>2, <2>3, InductionUpTo
  <2>5. QED
    BY <2>4 DEF U
<1>4. n \in 0 .. n /\ n + 1 \in 1 .. n + 1 /\ (n + 1) - 1 = n
  OBVIOUS
<1>5. a[n + 1] = f[n + 1] \o a[n]
  BY <1>1, <1>4 DEF Joins
<1>6. QED
  BY <1>1, <1>2, <1>3, <1>4, <1>5

-----------------------------------------------------------------------------
(* What is due.                                                            *)

LEMMA RunsProperties ==
  ASSUME NEW clauses \in Seq(Clause), NEW path \in Seq(Event)
  PROVE  /\ Runs(clauses, path) \in Seq(Due)
         /\ clauses = <<>> => Runs(clauses, path) = <<>>
         /\ clauses # <<>> =>
              Runs(clauses, path) =
                <<[clause |-> Head(clauses), kind |-> "run", path |-> path]>> \o Runs(Tail(clauses), path)
<1> DEFINE r(cs) == [n \in 1 .. Len(cs) |-> [clause |-> cs[n], kind |-> "run", path |-> path]]
<1>1. ASSUME NEW cs \in Seq(Clause)
      PROVE  /\ Runs(cs, path) = r(cs) /\ r(cs) \in Seq(Due) /\ Len(r(cs)) = Len(cs)
             /\ \A n \in 1 .. Len(cs) : r(cs)[n] = [clause |-> cs[n], kind |-> "run", path |-> path]
  <2>1. Len(cs) \in Nat /\ DOMAIN cs = 1 .. Len(cs)
    BY LenProperties
  <2>2. \A n \in 1 .. Len(cs) : [clause |-> cs[n], kind |-> "run", path |-> path] \in Due
    BY ElementOfSeq DEF Due
  <2>3. QED
    BY <2>1, <2>2 DEF Runs
<1>2. ASSUME clauses = <<>>
      PROVE  Runs(clauses, path) = <<>>
  <2>1. Len(Runs(clauses, path)) = 0 /\ Runs(clauses, path) \in Seq(Due)
    BY <1>1, <1>2
  <2>2. QED
    BY <2>1, EmptySeq
<1>3. ASSUME clauses # <<>>
      PROVE  Runs(clauses, path) =
               <<[clause |-> Head(clauses), kind |-> "run", path |-> path]>> \o Runs(Tail(clauses), path)
  <2> DEFINE x == [clause |-> Head(clauses), kind |-> "run", path |-> path]
             k == Len(Tail(clauses))
  <2>1. /\ Tail(clauses) \in Seq(Clause) /\ k \in Nat /\ Len(clauses) = k + 1
        /\ Head(clauses) = clauses[1] /\ \A n \in 1 .. k : Tail(clauses)[n] = clauses[n + 1]
    BY <1>3, HeadTailProperties, LenProperties, EmptySeq
  <2>2. x \in Due /\ <<x>> \in Seq(Due) /\ Len(<<x>>) = 1 /\ <<x>>[1] = x
    BY <1>3, HeadTailProperties DEF Due
  <2> DEFINE s == Runs(Tail(clauses), path)
             t == Runs(clauses, path)
  <2>3. /\ s \in Seq(Due) /\ Len(s) = k
        /\ \A n \in 1 .. k : s[n] = [clause |-> clauses[n + 1], kind |-> "run", path |-> path]
    BY <1>1, <2>1
  <2>4. /\ t \in Seq(Due) /\ Len(t) = k + 1
        /\ \A n \in 1 .. k + 1 : t[n] = [clause |-> clauses[n], kind |-> "run", path |-> path]
    BY <1>1, <2>1
  <2>5. x = [clause |-> clauses[1], kind |-> "run", path |-> path]
    BY <2>1
  <2> HIDE DEF s, t, x, k
  <2>6. /\ <<x>> \o s \in Seq(Due) /\ Len(<<x>> \o s) = 1 + k
        /\ \A n \in 1 .. 1 + k : (<<x>> \o s)[n] = IF n <= 1 THEN <<x>>[n] ELSE s[n - 1]
    BY <2>2, <2>3, ConcatProperties
  <2>7. ASSUME NEW n \in 1 .. k + 1
        PROVE  t[n] = (<<x>> \o s)[n]
    <3>1. CASE n = 1
      BY <2>1, <2>2, <2>4, <2>5, <2>6, <3>1
    <3>2. CASE n # 1
      <4>1. n - 1 \in 1 .. k /\ (n - 1) + 1 = n /\ ~(n <= 1)
        BY <2>1, <3>2
      <4>2. QED
        BY <2>1, <2>3, <2>4, <2>6, <4>1
    <3>3. QED
      BY <3>1, <3>2
  <2>8. t = <<x>> \o s
    <3>1. 1 + k = k + 1
      BY <2>1
    <3>2. QED
      BY <2>4, <2>6, <2>7, <3>1, SeqEqual
  <2>9. QED
    BY <2>8 DEF s, t, x
<1>4. QED
  BY <1>1, <1>2, <1>3

LEMMA RefusedIsDue ==
  ASSUME NEW kind \in {"depth", "cycle"}
  PROVE  Refused(kind) \in Due /\ <<Refused(kind)>> \in Seq(Due)
<1>1. <<>> \in Seq(Event)
  BY EmptySeq
<1>2. Refused(kind) \in Due
  BY <1>1 DEF Refused, Due
<1>3. QED
  BY <1>2

LEMMA DueBelowType ==
  ASSUME NEW limit \in Nat, NEW path \in Seq(Event), NEW e \in Event
  PROVE  DueBelow(limit, path, e) \in Seq(Due)
<1>1. Append(path, e) \in Seq(Event) /\ Matches[e] \in Seq(Clause)
  BY CascadeAssumption, AppendProperties
<1>2. Runs(Matches[e], Append(path, e)) \in Seq(Due)
  BY <1>1, RunsProperties
<1>3. QED
  BY <1>2, RefusedIsDue DEF DueBelow

LEMMA DueOfProperties ==
  ASSUME NEW limit \in Nat, NEW path \in Seq(Event), NEW es \in Seq(Event)
  PROVE  /\ DueOf(limit, path, es) \in Seq(Due)
         /\ es = <<>> => DueOf(limit, path, es) = <<>>
         /\ es # <<>> =>
              DueOf(limit, path, es) = DueBelow(limit, path, Head(es)) \o DueOf(limit, path, Tail(es))
<1> DEFINE f(s) == [i \in 1 .. Len(s) |-> DueBelow(limit, path, s[Len(s) + 1 - i])]
<1>1. ASSUME NEW s \in Seq(Event)
      PROVE  Len(s) \in Nat /\ f(s) \in [1 .. Len(s) -> Seq(Due)] /\ DueOf(limit, path, s) = Joined(f(s), Len(s))
  <2>1. Len(s) \in Nat
    BY LenProperties
  <2>2. ASSUME NEW i \in 1 .. Len(s)
        PROVE  DueBelow(limit, path, s[Len(s) + 1 - i]) \in Seq(Due)
    <3>1. Len(s) + 1 - i \in 1 .. Len(s)
      BY <2>1
    <3>2. s[Len(s) + 1 - i] \in Event
      BY <3>1, ElementOfSeq
    <3>3. QED
      BY <3>2, DueBelowType
  <2>3. QED
    BY <2>1, <2>2 DEF DueOf
<1> HIDE DEF f
<1>2. DueOf(limit, path, es) \in Seq(Due)
  <2>1. \E a \in [0 .. Len(es) -> Seq(Due)] : Joins(a, f(es), Len(es)) /\ Joined(f(es), Len(es)) = a[Len(es)]
    BY <1>1, JoinedRecursion, Zenon
  <2>2. Len(es) \in 0 .. Len(es)
    BY <1>1
  <2>3. QED
    BY <1>1, <2>1, <2>2
<1>3. ASSUME es = <<>>
      PROVE  DueOf(limit, path, es) = <<>>
  <2>1. PICK a \in [0 .. Len(es) -> Seq(Due)] : Joins(a, f(es), Len(es)) /\ Joined(f(es), Len(es)) = a[Len(es)]
    BY <1>1, JoinedRecursion, Zenon
  <2>2. Len(es) = 0 /\ a[0] = <<>>
    BY <1>3, <2>1, EmptySeq DEF Joins
  <2>3. QED
    BY <1>1, <2>1, <2>2
<1>4. ASSUME es # <<>>
      PROVE  DueOf(limit, path, es) = DueBelow(limit, path, Head(es)) \o DueOf(limit, path, Tail(es))
  <2> DEFINE k == Len(Tail(es))
  <2>1. /\ Tail(es) \in Seq(Event) /\ k \in Nat /\ Len(es) = k + 1
        /\ Head(es) = es[1] /\ \A n \in 1 .. k : Tail(es)[n] = es[n + 1]
    BY <1>4, HeadTailProperties, LenProperties, EmptySeq
  <2> HIDE DEF k
  <2>2. f(es) \in [1 .. k + 1 -> Seq(Due)] /\ f(Tail(es)) \in [1 .. k -> Seq(Due)]
    BY <1>1, <2>1 DEF k
  <2>3. \A i \in 1 .. k : f(Tail(es))[i] = f(es)[i]
    <3>1. TAKE i \in 1 .. k
    <3>2. k + 1 - i \in 1 .. k /\ (k + 1 - i) + 1 = (k + 1) + 1 - i /\ i \in 1 .. k + 1
      BY <2>1
    <3>3. Tail(es)[k + 1 - i] = es[(k + 1) + 1 - i]
      BY <2>1, <3>2
    <3>4. f(Tail(es))[i] = DueBelow(limit, path, Tail(es)[k + 1 - i])
      BY <2>1 DEF f, k
    <3>5. f(es)[i] = DueBelow(limit, path, es[(k + 1) + 1 - i])
      BY <2>1, <3>2 DEF f
    <3>6. QED
      BY <3>3, <3>4, <3>5
  <2>4. f(es)[k + 1] = DueBelow(limit, path, Head(es))
    <3>1. k + 1 \in 1 .. k + 1 /\ (k + 1) + 1 - (k + 1) = 1
      BY <2>1
    <3>2. QED
      BY <2>1, <3>1 DEF f
  <2>5. Joined(f(es), k + 1) = f(es)[k + 1] \o Joined(f(Tail(es)), k)
    BY <2>1, <2>2, <2>3, JoinedNext
  <2>6. DueOf(limit, path, es) = Joined(f(es), k + 1) /\ DueOf(limit, path, Tail(es)) = Joined(f(Tail(es)), k)
    BY <1>1, <2>1 DEF k
  <2>7. QED
    BY <2>4, <2>5, <2>6
<1>5. QED
  BY <1>2, <1>3, <1>4

LEMMA FollowType ==
  ASSUME NEW limit \in Nat, NEW due \in SUBSET Seq(Due), NEW o \in Outcome
  PROVE  Follow(limit, due, o) \in SUBSET Seq(Due)
<1>1. ASSUME NEW d \in due, d # <<>>
      PROVE  DueOf(limit, d[1].path, o.emitted) \o Tail(d) \in Seq(Due)
  <2>1. d \in Seq(Due) /\ 1 \in 1 .. Len(d) /\ Tail(d) \in Seq(Due)
    BY <1>1, HeadTailProperties, EmptySeq
  <2>5. PICK x \in Due : x = d[1]
    BY <2>1, ElementOfSeq
  <2>2. d[1].path \in Seq(Event)
    BY <2>5 DEF Due
  <2>3. o.emitted \in Seq(Event)
    BY DEF Outcome
  <2>4. DueOf(limit, d[1].path, o.emitted) \in Seq(Due)
    BY <2>2, <2>3, DueOfProperties
  <2>6. QED
    BY <2>1, <2>4, ConcatProperties
<1>2. QED
  BY <1>1 DEF Follow

\* The outcome o is what d is due first, and leaves more.
Leads(limit, d, o, more) ==
  \E x \in Due, rest \in Seq(Due) :
    Reports(o, x) /\ d = <<x>> \o rest /\ more = DueOf(limit, x.path, o.emitted) \o rest

LEMMA FollowFirst ==
  ASSUME NEW limit \in Nat, NEW o \in Outcome, NEW d, NEW more, Leads(limit, d, o, more)
  PROVE  Follow(limit, {d}, o) = {more}
<1>0. PICK x \in Due, rest \in Seq(Due) :
        Reports(o, x) /\ d = <<x>> \o rest /\ more = DueOf(limit, x.path, o.emitted) \o rest
  BY DEF Leads
<1>1. <<x>> \in Seq(Due) /\ Len(<<x>>) = 1 /\ <<x>>[1] = x
  OBVIOUS
<1>2. /\ d \in Seq(Due) /\ Len(d) = 1 + Len(rest)
      /\ \A i \in 1 .. 1 + Len(rest) : d[i] = IF i <= 1 THEN <<x>>[i] ELSE rest[i - 1]
      /\ Len(rest) \in Nat
  BY <1>0, <1>1, ConcatProperties, LenProperties
<1>3. d # <<>> /\ d[1] = x
  BY <1>1, <1>2, EmptySeq
<1>4. Tail(d) = rest
  <2>1. /\ Tail(d) \in Seq(Due) /\ Len(Tail(d)) = Len(rest)
        /\ \A i \in 1 .. Len(rest) : Tail(d)[i] = d[i + 1]
    BY <1>2, <1>3, HeadTailProperties
  <2>2. \A i \in 1 .. Len(rest) : d[i + 1] = rest[i]
    BY <1>2
  <2>3. QED
    BY <2>1, <2>2, SeqEqual
<1>5. Follow(limit, {d}, o) = {DueOf(limit, x.path, o.emitted) \o rest}
  BY <1>0, <1>3, <1>4 DEF Follow
<1>6. QED
  BY <1>0, <1>5

\* What is due after each outcome.
Afters(a, limit, log, e) ==
  a[0] = {DueBelow(limit, <<>>, e)} /\ \A i \in 1 .. Len(log) : a[i] = Follow(limit, a[i - 1], log[i])

LEMMA AfterRecursion ==
  ASSUME NEW limit \in Nat, NEW e \in Event, NEW log \in Seq(Outcome)
  PROVE  \E a \in [0 .. Len(log) -> SUBSET Seq(Due)] : Afters(a, limit, log, e) /\ After(limit, log, e) = a[Len(log)]
<1> DEFINE N == Len(log)
           X == SUBSET Seq(Due)
           Nth(a, i) == IF i = 0 THEN {DueBelow(limit, <<>>, e)} ELSE Follow(limit, a[i - 1], log[i])
           step == [c \in (1 .. N) \X X |-> Follow(limit, c[2], log[c[1]])]
<1>1. N \in Nat /\ {DueBelow(limit, <<>>, e)} \in X
  <2>1. <<>> \in Seq(Event) /\ Len(log) \in Nat
    BY LenProperties, EmptySeq
  <2>2. DueBelow(limit, <<>>, e) \in Seq(Due)
    BY <2>1, DueBelowType
  <2>3. QED
    BY <2>1, <2>2
<1>2. \A i \in 1 .. N, x \in X : Follow(limit, x, log[i]) \in X
  BY FollowType, ElementOfSeq
<1> HIDE DEF X, N
<1>3. step \in [(1 .. N) \X X -> X]
  BY <1>2
<1>4. PICK a \in [0 .. N -> X] : Iterates(a, {DueBelow(limit, <<>>, e)}, step, N)
  <2> HIDE DEF step
  <2>1. QED
    BY <1>1, <1>3, Iteration, Zenon
<1>5. a[0] = {DueBelow(limit, <<>>, e)} /\ \A i \in 1 .. N : a[i] = Follow(limit, a[i - 1], log[i])
  <2>1. a[0] = {DueBelow(limit, <<>>, e)}
    BY <1>4 DEF Iterates
  <2>2. ASSUME NEW i \in 1 .. N
        PROVE  a[i] = Follow(limit, a[i - 1], log[i])
    <3>1. i - 1 \in 0 .. N
      BY <1>1
    <3>2. <<i, a[i - 1]>> \in (1 .. N) \X X /\ <<i, a[i - 1]>>[1] = i /\ <<i, a[i - 1]>>[2] = a[i - 1]
      BY <1>4, <3>1
    <3>3. a[i] = step[<<i, a[i - 1]>>]
      BY <1>4 DEF Iterates
    <3>4. QED
      BY <3>2, <3>3
  <2>3. QED
    BY <2>1, <2>2
<1>6. a = [i \in 0 .. N |-> Nth(a, i)]
  <2>1. \A i \in 0 .. N : a[i] = Nth(a, i)
    <3>1. \A i \in 0 .. N : i = 0 \/ i \in 1 .. N
      BY <1>1
    <3>2. QED
      BY <1>5, <3>1
  <2>2. a = [i \in 0 .. N |-> a[i]]
    BY <1>4
  <2> HIDE DEF Nth
  <2>3. QED
    BY <2>1, <2>2
<1> DEFINE b == CHOOSE h : h = [i \in 0 .. N |-> Nth(h, i)]
<1>7. b = [i \in 0 .. N |-> Nth(b, i)]
  <2> HIDE DEF Nth
  <2>1. QED
    BY <1>6, Zenon
<1>8. After(limit, log, e) = b[N]
  BY Zenon DEF After, N
<1> HIDE DEF b
<1>9. b[0] = {DueBelow(limit, <<>>, e)} /\ \A i \in 1 .. N : b[i] = Follow(limit, b[i - 1], log[i])
  <2>1. 0 \in 0 .. N /\ \A i \in 1 .. N : i \in 0 .. N /\ i # 0
    BY <1>1
  <2>2. \A i \in 0 .. N : b[i] = Nth(b, i)
    BY <1>7
  <2>3. QED
    BY <2>1, <2>2
<1>10. \A i \in 0 .. N : b[i] = a[i]
  <2> DEFINE U == {i \in Nat : b[i] = a[i]}
  <2>1. 0 \in U
    BY <1>5, <1>9
  <2>2. ASSUME NEW i \in U, i + 1 <= N
        PROVE  i + 1 \in U
    <3>1. i + 1 \in 1 .. N /\ (i + 1) - 1 = i
      BY <1>1, <2>2
    <3>2. a[i + 1] = Follow(limit, a[i], log[i + 1]) /\ b[i + 1] = Follow(limit, b[i], log[i + 1])
      BY <1>5, <1>9, <3>1
    <3>3. a[i] = b[i]
      BY <2>2
    <3>4. b[i + 1] = a[i + 1]
      BY <3>2, <3>3, Zenon
    <3>5. i + 1 \in Nat
      BY <3>1
    <3>6. QED
      BY <3>4, <3>5, Zenon
  <2> HIDE DEF U
  <2>3. U \in SUBSET Nat
    BY DEF U
  <2>4. \A i \in 0 .. N : i \in U
    BY <1>1, <2>1, <2>2, <2>3, InductionUpTo
  <2>5. QED
    BY <2>4 DEF U
<1>11. After(limit, log, e) = a[N]
  BY <1>1, <1>8, <1>10
<1>12. QED
  BY <1>4, <1>5, <1>11 DEF Afters, N, X

\* The next outcome follows what was due before it.
LEMMA AfterNext ==
  ASSUME NEW limit \in Nat, NEW e \in Event, NEW log \in Seq(Outcome), NEW o \in Outcome
  PROVE  After(limit, Append(log, o), e) = Follow(limit, After(limit, log, e), o)
<1> DEFINE n == Len(log)
           more == Append(log, o)
<1>1. n \in Nat
  BY LenProperties
<1>2. /\ more \in Seq(Outcome) /\ Len(more) = n + 1
      /\ more[n + 1] = o /\ \A i \in 1 .. n : more[i] = log[i]
  BY AppendProperties
<1> HIDE DEF more
<1>3. PICK a \in [0 .. Len(more) -> SUBSET Seq(Due)] :
        Afters(a, limit, more, e) /\ After(limit, more, e) = a[Len(more)]
  BY <1>2, AfterRecursion, Zenon
<1>4. PICK b \in [0 .. n -> SUBSET Seq(Due)] : Afters(b, limit, log, e) /\ After(limit, log, e) = b[n]
  BY AfterRecursion, Zenon
<1>5. /\ a[0] = b[0]
      /\ \A i \in 1 .. n + 1 : a[i] = Follow(limit, a[i - 1], more[i])
      /\ \A i \in 1 .. n : b[i] = Follow(limit, b[i - 1], log[i])
  BY <1>2, <1>3, <1>4 DEF Afters
<1> HIDE DEF n
<1>6. \A i \in 0 .. n : a[i] = b[i]
  <2> DEFINE U == {i \in Nat : a[i] = b[i]}
  <2>1. 0 \in U
    BY <1>5
  <2>2. ASSUME NEW i \in U, i + 1 <= n
        PROVE  i + 1 \in U
    <3>1. i + 1 \in 1 .. n /\ i + 1 \in 1 .. n + 1 /\ (i + 1) - 1 = i
      BY <1>1, <2>2
    <3>2. QED
      BY <1>2, <1>5, <3>1
  <2> HIDE DEF U
  <2>3. U \in SUBSET Nat
    BY DEF U
  <2>4. \A i \in 0 .. n : i \in U
    BY <1>1, <2>1, <2>2, <2>3, InductionUpTo
  <2>5. QED
    BY <2>4 DEF U
<1>7. n \in 0 .. n /\ n + 1 \in 1 .. n + 1 /\ (n + 1) - 1 = n
  BY <1>1
<1>8. a[n + 1] = Follow(limit, a[n], o)
  BY <1>2, <1>5, <1>7
<1>9. QED
  BY <1>2, <1>3, <1>4, <1>6, <1>7, <1>8 DEF more

\* An outcome that is what is due first leaves what it caused, and the rest.
LEMMA AfterDue ==
  ASSUME NEW limit \in Nat, NEW e \in Event, NEW log \in Seq(Outcome), NEW o \in Outcome,
         NEW d, NEW more, Leads(limit, d, o, more),
         After(limit, log, e) = {d}
  PROVE  After(limit, Append(log, o), e) = {more}
<1>1. After(limit, Append(log, o), e) = Follow(limit, After(limit, log, e), o)
  BY AfterNext, Zenon
<1>2. Follow(limit, {d}, o) = {more}
  BY FollowFirst, Zenon
<1>3. QED
  BY <1>1, <1>2, Zenon

-----------------------------------------------------------------------------
(* What the activations on the stack still owe.                            *)

\* The events from the root to the activation d.
PathTo(fr, d) == [i \in 1 .. d |-> fr[i].event]

Owed(limit, path, f) == DueOf(limit, path, f.emissions) \o Runs(f.matches, path)
OwedBy(limit, fr) == Joined([d \in 1 .. Len(fr) |-> Owed(limit, PathTo(fr, d), fr[d])], Len(fr))
Waiting(fr) == Total([d \in 1 .. Len(fr) |-> Len(fr[d].matches)], Len(fr))
Unfed(fr) == Total([d \in 1 .. Len(fr) |-> Len(fr[d].emissions)], Len(fr))

LEMMA PathToType ==
  ASSUME NEW fr \in Seq(Frame), NEW d \in 0 .. Len(fr)
  PROVE  PathTo(fr, d) \in Seq(Event) /\ Len(PathTo(fr, d)) = d
<1>1. Len(fr) \in Nat /\ d \in Nat
  BY LenProperties
<1>2. \A i \in 1 .. d : fr[i].event \in Event
  <2>1. \A i \in 1 .. d : fr[i] \in Frame
    BY <1>1, ElementOfSeq
  <2>2. QED
    BY <2>1 DEF Frame
<1>3. QED
  BY <1>1, <1>2 DEF PathTo

LEMMA OwedType ==
  ASSUME NEW limit \in Nat, NEW path \in Seq(Event), NEW f \in Frame
  PROVE  Owed(limit, path, f) \in Seq(Due)
<1>1. f.emissions \in Seq(Event) /\ f.matches \in Seq(Clause)
  BY DEF Frame
<1>2. QED
  BY <1>1, DueOfProperties, RunsProperties, ConcatProperties DEF Owed

\* One activation more owes its share first.
LEMMA OwedByAppend ==
  ASSUME NEW limit \in Nat, NEW fr \in Seq(Frame), NEW f \in Frame
  PROVE  /\ OwedBy(limit, fr) \in Seq(Due)
         /\ PathTo(Append(fr, f), Len(fr) + 1) = Append(PathTo(fr, Len(fr)), f.event)
         /\ OwedBy(limit, Append(fr, f)) =
              Owed(limit, Append(PathTo(fr, Len(fr)), f.event), f) \o OwedBy(limit, fr)
<1> DEFINE n == Len(fr)
           more == Append(fr, f)
           F(s) == [d \in 1 .. Len(s) |-> Owed(limit, PathTo(s, d), s[d])]
<1>1. n \in Nat
  BY LenProperties
<1>2. /\ more \in Seq(Frame) /\ Len(more) = n + 1
      /\ more[n + 1] = f /\ \A i \in 1 .. n : more[i] = fr[i]
  BY AppendProperties
<1>3. ASSUME NEW s \in Seq(Frame)
      PROVE  Len(s) \in Nat /\ F(s) \in [1 .. Len(s) -> Seq(Due)] /\ OwedBy(limit, s) = Joined(F(s), Len(s))
  <2>1. Len(s) \in Nat
    BY LenProperties
  <2>2. ASSUME NEW d \in 1 .. Len(s)
        PROVE  Owed(limit, PathTo(s, d), s[d]) \in Seq(Due)
    <3>1. d \in 0 .. Len(s)
      BY <2>1
    <3>2. PathTo(s, d) \in Seq(Event) /\ s[d] \in Frame
      BY <3>1, PathToType, ElementOfSeq
    <3>3. QED
      BY <3>2, OwedType
  <2>3. QED
    BY <2>1, <2>2 DEF OwedBy
<1>4. \A d \in 1 .. n : PathTo(more, d) = PathTo(fr, d)
  <2>1. TAKE d \in 1 .. n
  <2>2. \A i \in 1 .. d : i \in 1 .. n
    BY <1>1
  <2>3. \A i \in 1 .. d : more[i].event = fr[i].event
    BY <1>2, <2>2
  <2>4. QED
    BY <2>3 DEF PathTo
<1>5. PathTo(more, n + 1) = Append(PathTo(fr, n), f.event)
  <2>1. n \in 0 .. n /\ n + 1 \in 0 .. n + 1 /\ f.event \in Event
    BY <1>1 DEF Frame
  <2>2. PathTo(fr, n) \in Seq(Event) /\ Len(PathTo(fr, n)) = n /\ \A i \in 1 .. n : PathTo(fr, n)[i] = fr[i].event
    BY <2>1, PathToType DEF PathTo
  <2>3. /\ PathTo(more, n + 1) \in Seq(Event) /\ Len(PathTo(more, n + 1)) = n + 1
        /\ \A i \in 1 .. n + 1 : PathTo(more, n + 1)[i] = more[i].event
    BY <1>2, <2>1, PathToType DEF PathTo
  <2> DEFINE p == PathTo(fr, n)
             q == PathTo(more, n + 1)
  <2> HIDE DEF p, q, more, n
  <2>4. /\ Append(p, f.event) \in Seq(Event) /\ Len(Append(p, f.event)) = n + 1
        /\ \A i \in 1 .. n : Append(p, f.event)[i] = p[i]
        /\ Append(p, f.event)[n + 1] = f.event
    <3>1. p \in Seq(Event) /\ Len(p) = n
      BY <2>2 DEF p
    <3>2. QED
      BY <2>1, <3>1, AppendProperties
  <2>5. \A i \in 1 .. n + 1 : q[i] = Append(p, f.event)[i]
    <3>1. TAKE i \in 1 .. n + 1
    <3>2. CASE i = n + 1
      BY <1>2, <2>3, <2>4, <3>2 DEF q
    <3>3. CASE i # n + 1
      <4>1. i \in 1 .. n
        BY <1>1, <3>3
      <4>2. QED
        BY <1>2, <2>2, <2>3, <2>4, <4>1 DEF p, q
    <3>4. QED
      BY <3>2, <3>3
  <2>6. q = Append(p, f.event)
    <3>1. q \in Seq(Event) /\ Len(q) = n + 1
      BY <2>3 DEF q
    <3>2. QED
      BY <2>4, <2>5, <3>1, SeqEqual
  <2>7. QED
    BY <2>6 DEF p, q
<1> HIDE DEF more, F, n
<1>6. Joined(F(more), n + 1) = F(more)[n + 1] \o Joined(F(fr), n)
  <2>1. F(more) \in [1 .. n + 1 -> Seq(Due)] /\ F(fr) \in [1 .. n -> Seq(Due)]
    BY <1>2, <1>3 DEF n
  <2>2. \A d \in 1 .. n : F(fr)[d] = F(more)[d]
    <3>1. TAKE d \in 1 .. n
    <3>2. d \in 1 .. n + 1
      BY <1>1
    <3>3. F(more)[d] = Owed(limit, PathTo(more, d), more[d])
      BY <1>2, <3>2 DEF F
    <3>4. F(fr)[d] = Owed(limit, PathTo(fr, d), fr[d])
      BY DEF F, n
    <3>5. QED
      BY <1>2, <1>4, <3>3, <3>4
  <2>3. QED
    BY <1>1, <2>1, <2>2, JoinedNext
<1>7. F(more)[n + 1] = Owed(limit, Append(PathTo(fr, n), f.event), f)
  <2>1. n + 1 \in 1 .. n + 1
    BY <1>1
  <2>2. QED
    BY <1>2, <1>5, <2>1 DEF F
<1>8. OwedBy(limit, fr) \in Seq(Due)
  <2>1. \E a \in [0 .. n -> Seq(Due)] : Joins(a, F(fr), n) /\ Joined(F(fr), n) = a[n]
    BY <1>1, <1>3, JoinedRecursion, Zenon DEF n
  <2>2. n \in 0 .. n
    BY <1>1
  <2>3. QED
    BY <1>3, <2>1, <2>2 DEF n
<1>9. OwedBy(limit, more) = Joined(F(more), n + 1) /\ OwedBy(limit, fr) = Joined(F(fr), n)
  BY <1>2, <1>3 DEF n
<1>10. QED
  BY <1>5, <1>6, <1>7, <1>8, <1>9 DEF more, n

LEMMA NothingOwed ==
  ASSUME NEW limit \in Nat
  PROVE  OwedBy(limit, <<>>) = <<>> /\ Waiting(<<>>) = 0 /\ Unfed(<<>>) = 0
<1>1. Len(<<>>) = 0 /\ 0 \in Nat
  OBVIOUS
<1>2. ASSUME NEW f \in [1 .. 0 -> Seq(Due)]
      PROVE  Joined(f, 0) = <<>>
  <2>1. PICK n \in Nat : n = 0
    OBVIOUS
  <2>2. f \in [1 .. n -> Seq(Due)]
    BY <2>1
  <2>3. PICK a \in [0 .. n -> Seq(Due)] : Joins(a, f, n) /\ Joined(f, n) = a[n]
    BY <2>2, JoinedRecursion, Zenon
  <2>4. QED
    BY <2>1, <2>3 DEF Joins
<1>3. ASSUME NEW f \in [1 .. 0 -> Nat]
      PROVE  Total(f, 0) = 0
  <2>1. PICK a \in [0 .. 0 -> Nat] : Totals(a, f, 0) /\ Total(f, 0) = a[0]
    BY <1>1, TotalRecursion, Zenon
  <2>2. QED
    BY <2>1 DEF Totals
<1>4. 1 .. 0 = {}
  OBVIOUS
<1>5. OwedBy(limit, <<>>) = <<>>
  <2> DEFINE f == [d \in 1 .. 0 |-> Owed(limit, PathTo(<<>>, d), <<>>[d])]
  <2>1. f \in [1 .. 0 -> Seq(Due)]
    BY <1>4
  <2>2. OwedBy(limit, <<>>) = Joined(f, 0)
    BY <1>1, Zenon DEF OwedBy
  <2> HIDE DEF f
  <2>3. QED
    BY <1>2, <2>1, <2>2
<1>6. Waiting(<<>>) = 0
  <2> DEFINE f == [d \in 1 .. 0 |-> Len(<<>>[d].matches)]
  <2>1. f \in [1 .. 0 -> Nat]
    BY <1>4
  <2>2. Waiting(<<>>) = Total(f, 0)
    BY <1>1, Zenon DEF Waiting
  <2> HIDE DEF f
  <2>3. QED
    BY <1>3, <2>1, <2>2
<1>7. Unfed(<<>>) = 0
  <2> DEFINE f == [d \in 1 .. 0 |-> Len(<<>>[d].emissions)]
  <2>1. f \in [1 .. 0 -> Nat]
    BY <1>4
  <2>2. Unfed(<<>>) = Total(f, 0)
    BY <1>1, Zenon DEF Unfed
  <2> HIDE DEF f
  <2>3. QED
    BY <1>3, <2>1, <2>2
<1>8. QED
  BY <1>5, <1>6, <1>7

\* The sum over one place more of a sequence of lengths.
LEMMA TotalAppend ==
  ASSUME NEW S, NEW s \in Seq(S), NEW x \in S, NEW len \in [S -> Nat]
  PROVE  /\ Total([i \in 1 .. Len(s) |-> len[s[i]]], Len(s)) \in Nat
         /\ Total([i \in 1 .. Len(Append(s, x)) |-> len[Append(s, x)[i]]], Len(Append(s, x))) =
              Total([i \in 1 .. Len(s) |-> len[s[i]]], Len(s)) + len[x]
<1> DEFINE n == Len(s)
           more == Append(s, x)
           g == [i \in 1 .. n |-> len[s[i]]]
           f == [i \in 1 .. n + 1 |-> len[more[i]]]
<1>1. n \in Nat /\ n + 1 \in 1 .. n + 1
  BY LenProperties
<1>2. /\ more \in Seq(S) /\ Len(more) = n + 1
      /\ more[n + 1] = x /\ \A i \in 1 .. n : more[i] = s[i]
  BY AppendProperties
<1>3. (\A i \in 1 .. n : s[i] \in S) /\ \A i \in 1 .. n + 1 : more[i] \in S
  BY <1>2, ElementOfSeq
<1> HIDE DEF more, n
<1>4. g \in [1 .. n -> Nat] /\ f \in [1 .. n + 1 -> Nat] /\ \A i \in 1 .. n : g[i] = f[i]
  <2>1. \A i \in 1 .. n : i \in 1 .. n + 1
    BY <1>1
  <2>2. QED
    BY <1>2, <1>3, <2>1
<1>5. f[n + 1] = len[x]
  BY <1>1, <1>2
<1> HIDE DEF f, g
<1>6. Total(f, n + 1) = Total(g, n) + f[n + 1]
  BY <1>1, <1>4, TotalNext
<1>7. Total(g, n) \in Nat
  <2>1. \E a \in [0 .. n -> Nat] : Totals(a, g, n) /\ Total(g, n) = a[n]
    BY <1>1, <1>4, TotalRecursion, Zenon
  <2>2. n \in 0 .. n
    BY <1>1
  <2>3. QED
    BY <2>1, <2>2
<1>8. QED
  BY <1>2, <1>5, <1>6, <1>7 DEF f, g, more, n

LEMMA CountsAppend ==
  ASSUME NEW fr \in Seq(Frame), NEW f \in Frame
  PROVE  /\ Waiting(fr) \in Nat /\ Waiting(Append(fr, f)) = Waiting(fr) + Len(f.matches)
         /\ Unfed(fr) \in Nat /\ Unfed(Append(fr, f)) = Unfed(fr) + Len(f.emissions)
<1> DEFINE m == [x \in Frame |-> Len(x.matches)]
           e == [x \in Frame |-> Len(x.emissions)]
<1>1. \A x \in Frame : Len(x.matches) \in Nat /\ Len(x.emissions) \in Nat
  BY LenProperties DEF Frame
<1>2. m \in [Frame -> Nat] /\ e \in [Frame -> Nat] /\ m[f] = Len(f.matches) /\ e[f] = Len(f.emissions)
  BY <1>1
<1>3. ASSUME NEW s \in Seq(Frame)
      PROVE  /\ Waiting(s) = Total([i \in 1 .. Len(s) |-> m[s[i]]], Len(s))
             /\ Unfed(s) = Total([i \in 1 .. Len(s) |-> e[s[i]]], Len(s))
  <2>1. \A i \in 1 .. Len(s) : m[s[i]] = Len(s[i].matches) /\ e[s[i]] = Len(s[i].emissions)
    BY ElementOfSeq
  <2>2. /\ [i \in 1 .. Len(s) |-> m[s[i]]] = [d \in 1 .. Len(s) |-> Len(s[d].matches)]
        /\ [i \in 1 .. Len(s) |-> e[s[i]]] = [d \in 1 .. Len(s) |-> Len(s[d].emissions)]
    BY <2>1
  <2>3. QED
    BY <2>2 DEF Waiting, Unfed
<1>4. Append(fr, f) \in Seq(Frame)
  BY AppendProperties
<1> HIDE DEF m, e
<1>5. QED
  <2> DEFINE w(s) == [i \in 1 .. Len(s) |-> m[s[i]]]
             u(s) == [i \in 1 .. Len(s) |-> e[s[i]]]
             more == Append(fr, f)
  <2>1. Total(w(fr), Len(fr)) \in Nat /\ Total(w(more), Len(more)) = Total(w(fr), Len(fr)) + m[f]
    BY <1>2, TotalAppend, ZenonT(40)
  <2>2. Total(u(fr), Len(fr)) \in Nat /\ Total(u(more), Len(more)) = Total(u(fr), Len(fr)) + e[f]
    BY <1>2, TotalAppend, ZenonT(40)
  <2>3. /\ Waiting(fr) = Total(w(fr), Len(fr)) /\ Waiting(more) = Total(w(more), Len(more))
        /\ Unfed(fr) = Total(u(fr), Len(fr)) /\ Unfed(more) = Total(u(more), Len(more))
    BY <1>3, <1>4
  <2> HIDE DEF w, u, more
  <2>4. QED
    BY <1>2, <2>1, <2>2, <2>3 DEF more

\* The innermost activation and the others.
LEMMA TopAndOthers ==
  ASSUME frames \in Seq(Frame), frames # <<>>
  PROVE  \E fr \in Seq(Frame), f \in Frame :
           /\ frames = Append(fr, f) /\ Top = f /\ Pop = fr
           /\ \A g \in Frame : ReplaceTop(g) = Append(fr, g)
<1>1. PICK fr \in Seq(Frame), f \in Frame : frames = Append(fr, f)
  BY SequenceEmptyOrAppend
<1>2. /\ Len(fr) \in Nat /\ Len(frames) = Len(fr) + 1
      /\ frames[Len(fr) + 1] = f /\ \A i \in 1 .. Len(fr) : frames[i] = fr[i]
  BY <1>1, AppendProperties, LenProperties
<1>3. Top = f
  BY <1>2 DEF Top
<1>4. Pop = fr
  <2>1. /\ Pop \in Seq(Frame)
        /\ \E n \in Nat : Len(frames) = n + 1 /\ Len(Pop) = n /\ \A i \in 1 .. n : Pop[i] = frames[i]
    BY PopProperties
  <2>2. Len(Pop) = Len(fr) /\ \A i \in 1 .. Len(fr) : Pop[i] = fr[i]
    BY <1>2, <2>1
  <2>3. QED
    BY <2>1, <2>2, SeqEqual
<1>5. ASSUME NEW g \in Frame
      PROVE  ReplaceTop(g) = Append(fr, g)
  <2>1. /\ ReplaceTop(g) \in Seq(Frame) /\ Len(ReplaceTop(g)) = Len(fr) + 1
        /\ \A i \in 1 .. Len(fr) + 1 : ReplaceTop(g)[i] = IF i = Len(fr) + 1 THEN g ELSE frames[i]
    BY <1>2, ReplaceTopProperties
  <2>2. /\ Append(fr, g) \in Seq(Frame) /\ Len(Append(fr, g)) = Len(fr) + 1
        /\ Append(fr, g)[Len(fr) + 1] = g /\ \A i \in 1 .. Len(fr) : Append(fr, g)[i] = fr[i]
    BY AppendProperties
  <2>3. \A i \in 1 .. Len(fr) + 1 : ReplaceTop(g)[i] = Append(fr, g)[i]
    <3>1. TAKE i \in 1 .. Len(fr) + 1
    <3>2. i = Len(fr) + 1 \/ (i \in 1 .. Len(fr) /\ i # Len(fr) + 1)
      BY <1>2
    <3>3. QED
      BY <1>2, <2>1, <2>2, <3>2
  <2>4. QED
    BY <2>1, <2>2, <2>3, SeqEqual
<1>6. QED
  BY <1>1, <1>3, <1>4, <1>5

-----------------------------------------------------------------------------
(* The list of outcomes as it grows.                                       *)

Exhausted(log) == \E i \in DOMAIN log : log[i].kind = "budget"

LEMMA BeforeAt ==
  ASSUME NEW log \in Seq(Outcome), NEW k \in 1 .. Len(log), log[k].kind = "budget",
         \A j \in 1 .. Len(log) : log[j].kind = "budget" => k <= j
  PROVE  /\ BeforeExhaustion(log) = SubSeq(log, 1, k - 1)
         /\ Len(BeforeExhaustion(log)) = k - 1
<1> DEFINE cut == {i \in DOMAIN log : log[i].kind = "budget"}
<1>1. Len(log) \in Nat /\ DOMAIN log = 1 .. Len(log)
  BY LenProperties
<1>2. k \in cut /\ \A j \in cut : k <= j
  BY <1>1
<1>3. \A i \in cut : (\A j \in cut : i <= j) => i = k
  BY <1>1, <1>2
<1>4. (CHOOSE i \in cut : \A j \in cut : i <= j) = k
  BY <1>2, <1>3
<1>5. BeforeExhaustion(log) = SubSeq(log, 1, k - 1)
  BY <1>2, <1>4 DEF BeforeExhaustion
<1>6. \A i \in 1 .. k - 1 : log[i] \in Outcome
  BY <1>1, ElementOfSeq
<1>7. Len(SubSeq(log, 1, k - 1)) = IF 1 <= k - 1 THEN k - 1 - 1 + 1 ELSE 0
  BY <1>1, <1>6, SubSeqProperties
<1>8. QED
  BY <1>1, <1>5, <1>7

LEMMA FirstExhausted ==
  ASSUME NEW log \in Seq(Outcome), Exhausted(log)
  PROVE  \E k \in 1 .. Len(log) :
           /\ log[k].kind = "budget"
           /\ \A j \in 1 .. Len(log) : log[j].kind = "budget" => k <= j
<1>1. Len(log) \in Nat /\ DOMAIN log = 1 .. Len(log)
  BY LenProperties
<1> DEFINE cut == {i \in 1 .. Len(log) : log[i].kind = "budget"}
<1>2. cut \in SUBSET Nat /\ cut # {}
  BY <1>1 DEF Exhausted
<1>3. PICK k \in cut : \A j \in cut : k <= j
  BY <1>2, LeastNatural
<1>4. QED
  BY <1>3

LEMMA BeforeNone ==
  ASSUME NEW log, ~Exhausted(log)
  PROVE  BeforeExhaustion(log) = log
  BY DEF Exhausted, BeforeExhaustion

LEMMA ExhaustedAppend ==
  ASSUME NEW log \in Seq(Outcome), NEW o \in Outcome
  PROVE  /\ Exhausted(Append(log, o)) <=> (Exhausted(log) \/ o.kind = "budget")
         /\ Exhausted(log) => BeforeExhaustion(Append(log, o)) = BeforeExhaustion(log)
         /\ ~Exhausted(log) /\ o.kind = "budget" => BeforeExhaustion(Append(log, o)) = log
<1> DEFINE more == Append(log, o)
           n == Len(log)
<1>1. n \in Nat /\ DOMAIN log = 1 .. n
  BY LenProperties
<1>2. /\ more \in Seq(Outcome) /\ Len(more) = n + 1 /\ DOMAIN more = 1 .. n + 1
      /\ more[n + 1] = o /\ \A i \in 1 .. n : more[i] = log[i]
  BY AppendProperties, LenProperties
<1> HIDE DEF more
<1>3. \A i \in 1 .. n + 1 : i \in 1 .. n \/ i = n + 1
  BY <1>1
<1>4. Exhausted(more) <=> (Exhausted(log) \/ o.kind = "budget")
  <2>1. n + 1 \in 1 .. n + 1 /\ \A i \in 1 .. n : i \in 1 .. n + 1
    BY <1>1
  <2>2. QED
    BY <1>1, <1>2, <1>3, <2>1 DEF Exhausted
<1>5. ASSUME Exhausted(log)
      PROVE  BeforeExhaustion(more) = BeforeExhaustion(log)
  <2>1. PICK k \in 1 .. n : /\ log[k].kind = "budget"
                            /\ \A j \in 1 .. n : log[j].kind = "budget" => k <= j
    BY <1>5, FirstExhausted
  <2>2. BeforeExhaustion(log) = SubSeq(log, 1, k - 1)
    BY <2>1, BeforeAt
  <2>3. k \in 1 .. Len(more) /\ more[k].kind = "budget"
    BY <1>1, <1>2, <2>1
  <2>4. \A j \in 1 .. Len(more) : more[j].kind = "budget" => k <= j
    BY <1>1, <1>2, <1>3, <2>1
  <2>5. BeforeExhaustion(more) = SubSeq(more, 1, k - 1)
    BY <1>2, <2>3, <2>4, BeforeAt
  <2>6. SubSeq(more, 1, k - 1) = SubSeq(log, 1, k - 1)
    <3>1. \A i \in 1 .. k - 1 : i \in 1 .. n /\ i \in 1 .. n + 1
      BY <1>1
    <3>2. \A i \in 1 .. k - 1 : log[i] \in Outcome /\ more[i] \in Outcome /\ more[i] = log[i]
      BY <1>2, <3>1, ElementOfSeq
    <3>3. 1 \in Int /\ k - 1 \in Int /\ \A i \in 1 .. k - 1 - 1 + 1 : 1 + i - 1 \in 1 .. k - 1
      BY <1>1
    <3>4. /\ SubSeq(log, 1, k - 1) \in Seq(Outcome)
          /\ Len(SubSeq(log, 1, k - 1)) = IF 1 <= k - 1 THEN k - 1 - 1 + 1 ELSE 0
          /\ \A i \in 1 .. k - 1 - 1 + 1 : SubSeq(log, 1, k - 1)[i] = log[1 + i - 1]
      BY <3>2, <3>3, SubSeqProperties
    <3>5. /\ SubSeq(more, 1, k - 1) \in Seq(Outcome)
          /\ Len(SubSeq(more, 1, k - 1)) = IF 1 <= k - 1 THEN k - 1 - 1 + 1 ELSE 0
          /\ \A i \in 1 .. k - 1 - 1 + 1 : SubSeq(more, 1, k - 1)[i] = more[1 + i - 1]
      BY <3>2, <3>3, SubSeqProperties
    <3> DEFINE s == SubSeq(log, 1, k - 1)
               t == SubSeq(more, 1, k - 1)
    <3>6. \A i \in 1 .. k - 1 - 1 + 1 : t[i] = s[i]
      BY <3>2, <3>3, <3>4, <3>5
    <3>7. \A i \in 1 .. Len(t) : i \in 1 .. k - 1 - 1 + 1
      BY <1>1, <3>5
    <3>8. s \in Seq(Outcome) /\ t \in Seq(Outcome) /\ Len(s) = Len(t)
      BY <3>4, <3>5
    <3> HIDE DEF s, t
    <3>9. t = s
      BY <3>6, <3>7, <3>8, SeqEqual
    <3>10. QED
      BY <3>9 DEF s, t
  <2>7. QED
    BY <2>2, <2>5, <2>6
<1>6. ASSUME ~Exhausted(log), o.kind = "budget"
      PROVE  BeforeExhaustion(more) = log
  <2>1. n + 1 \in 1 .. Len(more) /\ more[n + 1].kind = "budget"
    BY <1>1, <1>2, <1>6
  <2>2. \A j \in 1 .. Len(more) : more[j].kind = "budget" => n + 1 <= j
    BY <1>1, <1>2, <1>3, <1>6 DEF Exhausted
  <2>3. BeforeExhaustion(more) = SubSeq(more, 1, n + 1 - 1) /\ n + 1 - 1 = n
    <3>1. PICK k \in 1 .. Len(more) : k = n + 1
      BY <2>1
    <3>2. BeforeExhaustion(more) = SubSeq(more, 1, k - 1)
      BY <1>2, <2>1, <2>2, <3>1, BeforeAt
    <3>3. QED
      BY <1>1, <3>1, <3>2
  <2> DEFINE t == SubSeq(more, 1, n)
  <2>4. \A i \in 1 .. n : more[i] \in Outcome /\ 1 + i - 1 = i
    BY <1>1, <1>2, ElementOfSeq
  <2>5. /\ t \in Seq(Outcome) /\ Len(t) = IF 1 <= n THEN n - 1 + 1 ELSE 0
        /\ \A i \in 1 .. n - 1 + 1 : t[i] = more[1 + i - 1]
    BY <1>1, <2>4, SubSeqProperties
  <2> HIDE DEF t
  <2>6. Len(t) = n /\ \A i \in 1 .. n : t[i] = log[i]
    BY <1>1, <1>2, <2>4, <2>5
  <2>7. t = log
    BY <2>5, <2>6, SeqEqual
  <2>8. QED
    BY <2>3, <2>7 DEF t
<1>7. QED
  BY <1>4, <1>5, <1>6 DEF more

\* What may follow an outcome once the budget is exhausted.
LEMMA RefusedAppend ==
  ASSUME NEW log \in Seq(Outcome), NEW o \in Outcome, RefusedWithoutBudget(log),
         Exhausted(log) => /\ o.kind \in {"ok", "body", "budget"}
                           /\ log[Len(log)].emitted # <<>> => o.kind = "budget"
  PROVE  RefusedWithoutBudget(Append(log, o))
<1> DEFINE more == Append(log, o)
           n == Len(log)
<1>1. n \in Nat /\ DOMAIN log = 1 .. n
  BY LenProperties
<1>2. /\ more \in Seq(Outcome) /\ Len(more) = n + 1
      /\ more[n + 1] = o /\ \A i \in 1 .. n : more[i] = log[i]
  BY AppendProperties
<1>3. /\ Exhausted(more) <=> (Exhausted(log) \/ o.kind = "budget")
      /\ Exhausted(log) => BeforeExhaustion(more) = BeforeExhaustion(log)
      /\ ~Exhausted(log) /\ o.kind = "budget" => BeforeExhaustion(more) = log
  BY ExhaustedAppend
<1> HIDE DEF more
<1>4. CASE ~Exhausted(more)
  <2>1. Len(BeforeExhaustion(more)) + 1 .. Len(more) = {}
    BY <1>1, <1>2, <1>4, BeforeNone
  <2>2. QED
    BY <2>1 DEF RefusedWithoutBudget, more
<1>5. CASE ~Exhausted(log) /\ o.kind = "budget"
  <2>1. \A i \in Len(BeforeExhaustion(more)) + 1 .. Len(more) : i = n + 1
    BY <1>1, <1>2, <1>3, <1>5
  <2>2. ~(n + 1 < Len(more)) /\ more[n + 1].kind = "budget"
    BY <1>1, <1>2, <1>5
  <2>3. QED
    BY <2>1, <2>2 DEF RefusedWithoutBudget, more
<1>6. CASE Exhausted(log)
  <2>1. PICK k \in 1 .. n : /\ log[k].kind = "budget"
                            /\ \A j \in 1 .. n : log[j].kind = "budget" => k <= j
    BY <1>6, FirstExhausted
  <2>2. Len(BeforeExhaustion(log)) = k - 1 /\ k - 1 \in Nat
    BY <1>1, <2>1, BeforeAt
  <2>3. ASSUME NEW i \in Len(BeforeExhaustion(more)) + 1 .. Len(more)
        PROVE  /\ more[i].kind \in {"ok", "body", "budget"}
               /\ (i < Len(more) /\ more[i].emitted # <<>>) => more[i + 1].kind = "budget"
    <3>1. i \in k .. n + 1
      BY <1>1, <1>2, <1>3, <1>6, <2>2
    <3>2. CASE i = n + 1
      BY <1>1, <1>2, <1>6, <3>2
    <3>3. CASE i = n
      <4>1. n \in Len(BeforeExhaustion(log)) + 1 .. n /\ n \in 1 .. n
        BY <1>1, <2>2, <3>1, <3>3
      <4>2. more[n].kind \in {"ok", "body", "budget"} /\ more[n].emitted = log[n].emitted
        BY <1>2, <4>1 DEF RefusedWithoutBudget
      <4>3. QED
        BY <1>2, <1>6, <3>3, <4>2
    <3>4. CASE i # n + 1 /\ i # n
      <4>1. i \in Len(BeforeExhaustion(log)) + 1 .. n /\ i < n /\ i \in 1 .. n /\ i + 1 \in 1 .. n
        <5> HIDE DEF n
        <5>1. k \in 1 .. n /\ n \in Nat /\ i \in k .. n + 1 /\ i # n + 1 /\ i # n
          BY <1>1, <3>1, <3>4
        <5>2. (k - 1) + 1 = k /\ i \in k .. n /\ i < n /\ i \in 1 .. n /\ i + 1 \in 1 .. n
          BY <5>1
        <5>3. QED
          BY <2>2, <5>2
      <4>2. more[i] = log[i] /\ more[i + 1] = log[i + 1]
        BY <1>2, <4>1
      <4>3. QED
        BY <4>1, <4>2 DEF RefusedWithoutBudget
    <3>5. QED
      BY <3>2, <3>3, <3>4
  <2>4. QED
    BY <2>3 DEF RefusedWithoutBudget, more
<1>7. QED
  BY <1>3, <1>4, <1>5, <1>6

-----------------------------------------------------------------------------
(* The outcomes and what is owed.                                          *)

\* With e about to start, or no event.
AllDue(limit, fr, e) ==
  IF e = NoEvent THEN OwedBy(limit, fr)
  ELSE DueBelow(limit, PathTo(fr, Len(fr)), e) \o OwedBy(limit, fr)

\* Up to the first exhausted budget the outcomes are right, and what is due after them is
\* what the stack owes; once a budget is exhausted, an emission waits to be refused.
Recorded(limit, log, fr, e, r) ==
  /\ r # NoEvent => IF Exhausted(log) THEN After(limit, BeforeExhaustion(log), r) # {}
                    ELSE After(limit, log, r) = {AllDue(limit, fr, e)}
  /\ RefusedWithoutBudget(log)
  /\ Exhausted(log) /\ log[Len(log)].emitted # <<>> => fr # <<>> /\ fr[Len(fr)].emissions # <<>>

RecordInv == Recorded(ctx_config.max_depth, outcomes, frames, call, root)

\* An outcome that was due.
LEMMA RecordedDue ==
  ASSUME NEW limit \in Nat, NEW log \in Seq(Outcome), NEW fr, NEW e, NEW r \in Event \cup {NoEvent},
         Recorded(limit, log, fr, e, r), ~Exhausted(log), NEW o \in Outcome, o.kind # "budget",
         NEW s, NEW d, Leads(limit, AllDue(limit, fr, e), o, AllDue(limit, s, d))
  PROVE  Recorded(limit, Append(log, o), s, d, r)
<1>1. ~Exhausted(Append(log, o))
  BY ExhaustedAppend
<1>2. RefusedWithoutBudget(Append(log, o))
  BY RefusedAppend DEF Recorded
<1>3. ASSUME r # NoEvent
      PROVE  After(limit, Append(log, o), r) = {AllDue(limit, s, d)}
  <2>1. After(limit, log, r) = {AllDue(limit, fr, e)} /\ r \in Event
    BY <1>3 DEF Recorded
  <2>2. QED
    BY <2>1, AfterDue
<1>4. QED
  BY <1>1, <1>2, <1>3 DEF Recorded

\* A step between two outcomes.
LEMMA RecordedSame ==
  ASSUME NEW limit, NEW log, NEW fr, NEW e, NEW r, Recorded(limit, log, fr, e, r),
         NEW s, NEW d,
         IF Exhausted(log) THEN log[Len(log)].emitted = <<>>
         ELSE AllDue(limit, s, d) = AllDue(limit, fr, e)
  PROVE  Recorded(limit, log, s, d, r)
  BY DEF Recorded

\* An outcome that exhausts the budget, or comes after one that does.
LEMMA RecordedPast ==
  ASSUME NEW limit, NEW log \in Seq(Outcome), NEW fr, NEW e, NEW r, Recorded(limit, log, fr, e, r),
         NEW o \in Outcome, NEW s, NEW d,
         Exhausted(log) => /\ o.kind \in {"ok", "body", "budget"}
                           /\ log[Len(log)].emitted # <<>> => o.kind = "budget",
         ~Exhausted(log) => o.kind = "budget",
         o.emitted # <<>> => s # <<>> /\ s[Len(s)].emissions # <<>>
  PROVE  Recorded(limit, Append(log, o), s, d, r)
<1>1. Exhausted(Append(log, o))
  BY ExhaustedAppend
<1>2. RefusedWithoutBudget(Append(log, o))
  BY RefusedAppend DEF Recorded
<1>3. ASSUME r # NoEvent
      PROVE  After(limit, BeforeExhaustion(Append(log, o)), r) # {}
  BY <1>3, ExhaustedAppend DEF Recorded
<1>4. Append(log, o)[Len(Append(log, o))] = o
  BY AppendProperties
<1>5. QED
  BY <1>1, <1>2, <1>3, <1>4 DEF Recorded

\* A dispatch starts: it is due what its event is.
LEMMA RecordedStart ==
  ASSUME NEW limit \in Nat, NEW e \in Event
  PROVE  Recorded(limit, <<>>, <<>>, e, e)
<1>1. /\ <<>> \in Seq(Outcome) /\ <<>> \in Seq(Event) /\ <<>> \in Seq(Frame) /\ Len(<<>>) = 0
  BY EmptySeq
<1>2. ~Exhausted(<<>>)
  BY DEF Exhausted
<1>3. RefusedWithoutBudget(<<>>)
  <2>1. BeforeExhaustion(<<>>) = <<>>
    BY <1>2, BeforeNone
  <2>2. Len(<<>>) + 1 .. Len(<<>>) = {}
    BY <1>1
  <2>3. QED
    BY <2>1, <2>2 DEF RefusedWithoutBudget
<1>4. PathTo(<<>>, Len(<<>>)) = <<>>
  <2>1. 0 \in 0 .. Len(<<>>)
    BY <1>1
  <2>2. PathTo(<<>>, 0) \in Seq(Event) /\ Len(PathTo(<<>>, 0)) = 0
    BY <1>1, <2>1, PathToType
  <2>3. QED
    BY <1>1, <2>2, EmptySeq
<1>5. PICK due \in Seq(Due) : due = DueBelow(limit, <<>>, e)
  BY <1>1, DueBelowType
<1>6. AllDue(limit, <<>>, e) = due
  <2>1. e # NoEvent
    BY CascadeAssumption
  <2>2. AllDue(limit, <<>>, e) = due \o <<>>
    BY <1>4, <1>5, <2>1, NothingOwed DEF AllDue
  <2>3. QED
    BY <2>2, ConcatEmptySeq
<1>7. After(limit, <<>>, e) = {due}
  <2>1. PICK log \in Seq(Outcome) : log = <<>>
    BY <1>1
  <2>2. PICK a \in [0 .. Len(log) -> SUBSET Seq(Due)] :
          Afters(a, limit, log, e) /\ After(limit, log, e) = a[Len(log)]
    BY AfterRecursion, Zenon
  <2>3. Len(log) = 0 /\ a[0] = {due}
    BY <1>1, <1>5, <2>1, <2>2 DEF Afters
  <2>4. QED
    BY <2>1, <2>2, <2>3
<1>8. QED
  BY <1>2, <1>3, <1>6, <1>7 DEF Recorded

LEMMA NothingCaused ==
  ASSUME NEW limit \in Nat, NEW path \in Seq(Event), NEW s \in Seq(Due)
  PROVE  DueOf(limit, path, <<>>) = <<>> /\ DueOf(limit, path, <<>>) \o s = s
<1>1. <<>> \in Seq(Event)
  BY EmptySeq
<1>2. DueOf(limit, path, <<>>) = <<>>
  BY <1>1, DueOfProperties
<1>3. QED
  BY <1>2, ConcatEmptySeq

\* A refusal is all that its event is due.
LEMMA RefusalLeads ==
  ASSUME NEW limit \in Nat, NEW fr \in Seq(Frame), NEW e \in Event, NEW kind \in {"depth", "cycle"},
         DueBelow(limit, PathTo(fr, Len(fr)), e) = <<Refused(kind)>>
  PROVE  Leads(limit, AllDue(limit, fr, e), SyntheticOutcome(kind), AllDue(limit, fr, NoEvent))
<1>1. PICK rest \in Seq(Due) : rest = OwedBy(limit, fr)
  <2>1. PICK f \in Frame : TRUE
    <3>1. <<>> \in Seq(Clause) /\ <<>> \in Seq(Event)
      BY EmptySeq
    <3>2. [event |-> e, matches |-> <<>>, emissions |-> <<>>] \in Frame
      BY <3>1 DEF Frame
    <3>3. QED
      BY <3>2
  <2>2. QED
    BY OwedByAppend
<1>2. PICK x \in Due : x = Refused(kind)
  BY RefusedIsDue
<1>3. AllDue(limit, fr, NoEvent) = rest /\ AllDue(limit, fr, e) = <<x>> \o rest
  BY <1>1, <1>2, CascadeAssumption DEF AllDue
<1>4. x.path = <<>> /\ x.kind = kind /\ SyntheticOutcome(kind).emitted = <<>>
  BY <1>2 DEF Refused, SyntheticOutcome
<1>5. Reports(SyntheticOutcome(kind), x)
  BY <1>4 DEF Reports
<1>6. DueOf(limit, <<>>, <<>>) \o rest = rest
  <2>1. <<>> \in Seq(Event)
    BY EmptySeq
  <2>2. QED
    BY <2>1, NothingCaused
<1>7. PICK p, es : p = x.path /\ es = SyntheticOutcome(kind).emitted
  OBVIOUS
<1>8. rest = DueOf(limit, p, es) \o rest
  BY <1>4, <1>6, <1>7
<1>9. QED
  BY <1>3, <1>5, <1>7, <1>8 DEF Leads

\* A level that is entered owes just what its event was due.
LEMMA EnteringOwes ==
  ASSUME NEW limit \in Nat, NEW fr \in Seq(Frame), NEW e \in Event, NEW f \in Frame,
         f.event = e, f.matches = Matches[e], f.emissions = <<>>,
         DueBelow(limit, PathTo(fr, Len(fr)), e) = Runs(Matches[e], Append(PathTo(fr, Len(fr)), e))
  PROVE  AllDue(limit, Append(fr, f), NoEvent) = AllDue(limit, fr, e)
<1>1. PICK path \in Seq(Event) : path = Append(PathTo(fr, Len(fr)), e)
  <2>1. Len(fr) \in 0 .. Len(fr)
    BY LenProperties
  <2>2. PathTo(fr, Len(fr)) \in Seq(Event)
    BY <2>1, PathToType
  <2>3. QED
    BY <2>2, AppendProperties
<1>2. PICK due \in Seq(Due) : due = Runs(Matches[e], path)
  BY CascadeAssumption, RunsProperties
<1>3. Owed(limit, path, f) = due
  BY <1>2, NothingCaused DEF Owed
<1>4. AllDue(limit, Append(fr, f), NoEvent) = due \o OwedBy(limit, fr)
  BY <1>1, <1>3, OwedByAppend DEF AllDue
<1>5. AllDue(limit, fr, e) = due \o OwedBy(limit, fr)
  BY <1>1, <1>2, CascadeAssumption DEF AllDue
<1>6. QED
  BY <1>4, <1>5

LEMMA FramePath ==
  ASSUME NEW fr \in Seq(Frame), NEW e \in Event
  PROVE  Append(PathTo(fr, Len(fr)), e) \in Seq(Event)
<1>1. Len(fr) \in 0 .. Len(fr)
  BY LenProperties
<1>2. PathTo(fr, Len(fr)) \in Seq(Event)
  BY <1>1, PathToType
<1>3. QED
  BY <1>2, AppendProperties

\* A clause that has run owes what it emitted, before the other matches.
LEMMA ClauseLeads ==
  ASSUME NEW limit \in Nat, NEW fr \in Seq(Frame), NEW f \in Frame, NEW g \in Frame, NEW o \in Outcome,
         f.emissions = <<>>, f.matches # <<>>,
         g.event = f.event, g.matches = Tail(f.matches), g.emissions = o.emitted,
         o.clause = Head(f.matches)
  PROVE  Leads(limit, AllDue(limit, Append(fr, f), NoEvent), o, AllDue(limit, Append(fr, g), NoEvent))
<1>1. PICK path \in Seq(Event) : path = Append(PathTo(fr, Len(fr)), f.event)
  BY FramePath DEF Frame
<1>2. PICK rest \in Seq(Due) : rest = OwedBy(limit, fr)
  BY OwedByAppend
<1>3. PICK ms \in Seq(Clause) : ms = f.matches
  BY DEF Frame
<1>4. PICK es \in Seq(Event) : es = o.emitted
  BY DEF Outcome
<1>5. PICK x \in Due : x = [clause |-> Head(ms), kind |-> "run", path |-> path]
  BY <1>3, HeadTailProperties DEF Due
<1>6. Tail(ms) \in Seq(Clause)
  BY <1>3, HeadTailProperties
<1>7. PICK others \in Seq(Due) : others = Runs(Tail(ms), path)
  BY <1>6, RunsProperties
<1>8. Runs(ms, path) = <<x>> \o others /\ Runs(ms, path) \in Seq(Due)
  BY <1>3, <1>5, <1>7, RunsProperties
<1>9. PICK caused \in Seq(Due) : caused = DueOf(limit, path, es)
  BY DueOfProperties
<1>10. Owed(limit, path, f) = <<x>> \o others
  BY <1>3, <1>8, NothingCaused DEF Owed
<1>11. Owed(limit, path, g) = caused \o others
  BY <1>3, <1>4, <1>7, <1>9 DEF Owed
<1>12. AllDue(limit, Append(fr, f), NoEvent) = (<<x>> \o others) \o rest
  BY <1>1, <1>2, <1>10, OwedByAppend DEF AllDue
<1>13. AllDue(limit, Append(fr, g), NoEvent) = (caused \o others) \o rest
  BY <1>1, <1>2, <1>11, OwedByAppend DEF AllDue
<1>14. <<x>> \in Seq(Due)
  OBVIOUS
<1>15. /\ (<<x>> \o others) \o rest = <<x>> \o (others \o rest)
       /\ (caused \o others) \o rest = caused \o (others \o rest)
  <2>1. (<<x>> \o others) \o rest = <<x>> \o (others \o rest)
    BY <1>2, <1>7, <1>14, ConcatAssociative, SMTT(40)
  <2>2. (caused \o others) \o rest = caused \o (others \o rest)
    BY <1>2, <1>7, <1>9, ConcatAssociative, SMTT(40)
  <2>3. QED
    BY <2>1, <2>2
<1>16. PICK tail \in Seq(Due) : tail = others \o rest
  BY <1>2, <1>7, ConcatProperties
<1>17. Reports(o, x) /\ x.path = path
  BY <1>3, <1>5 DEF Reports
<1>18. PICK a, b : a = AllDue(limit, Append(fr, f), NoEvent) /\ b = AllDue(limit, Append(fr, g), NoEvent)
  OBVIOUS
<1>19. a = <<x>> \o tail /\ b = caused \o tail
  BY <1>12, <1>13, <1>15, <1>16, <1>18
<1>20. b = DueOf(limit, x.path, o.emitted) \o tail
  BY <1>4, <1>9, <1>17, <1>19
<1>21. Leads(limit, a, o, b)
  BY <1>17, <1>19, <1>20, Zenon DEF Leads
<1>22. QED
  BY <1>18, <1>21

\* An emission that is fed back is due what it was.
LEMMA FeedingOwes ==
  ASSUME NEW limit \in Nat, NEW fr \in Seq(Frame), NEW f \in Frame, NEW g \in Frame,
         f.emissions # <<>>,
         g.event = f.event, g.matches = f.matches, g.emissions = Tail(f.emissions)
  PROVE  AllDue(limit, Append(fr, g), Head(f.emissions)) = AllDue(limit, Append(fr, f), NoEvent)
<1>1. PICK path \in Seq(Event) : path = Append(PathTo(fr, Len(fr)), f.event)
  BY FramePath DEF Frame
<1>2. PICK rest \in Seq(Due) : rest = OwedBy(limit, fr)
  BY OwedByAppend
<1>3. PICK es \in Seq(Event) : es = f.emissions
  BY DEF Frame
<1>4. PICK e \in Event : e = Head(es)
  BY <1>3, HeadTailProperties
<1>5. Tail(es) \in Seq(Event)
  BY <1>3, HeadTailProperties
<1>6. PICK first \in Seq(Due) : first = DueBelow(limit, path, e)
  BY DueBelowType
<1>7. PICK others \in Seq(Due) : others = DueOf(limit, path, Tail(es))
  BY <1>5, DueOfProperties
<1>8. DueOf(limit, path, es) = first \o others
  BY <1>3, <1>4, <1>6, <1>7, DueOfProperties
<1>9. PICK runs \in Seq(Due) : runs = Runs(f.matches, path)
  BY RunsProperties DEF Frame
<1>10. Owed(limit, path, f) = (first \o others) \o runs
  BY <1>3, <1>8, <1>9 DEF Owed
<1>11. Owed(limit, path, g) = others \o runs
  BY <1>3, <1>7, <1>9 DEF Owed
<1>12. OwedBy(limit, Append(fr, f)) = ((first \o others) \o runs) \o rest
  BY <1>1, <1>2, <1>10, OwedByAppend
<1>13. OwedBy(limit, Append(fr, g)) = (others \o runs) \o rest
  BY <1>1, <1>2, <1>11, OwedByAppend
<1>14. PathTo(Append(fr, g), Len(Append(fr, g))) = path
  <2>1. Len(Append(fr, g)) = Len(fr) + 1
    BY AppendProperties
  <2>2. QED
    BY <1>1, <2>1, OwedByAppend
<1>15. ((first \o others) \o runs) \o rest = first \o ((others \o runs) \o rest)
  <2>1. others \o runs \in Seq(Due)
    BY <1>7, <1>9, ConcatProperties
  <2>2. (first \o others) \o runs = first \o (others \o runs)
    BY <1>6, <1>7, <1>9, ConcatAssociative, SMTT(40)
  <2>3. (first \o (others \o runs)) \o rest = first \o ((others \o runs) \o rest)
    BY <1>2, <1>6, <2>1, ConcatAssociative, SMTT(40)
  <2>4. QED
    BY <2>2, <2>3
<1>16. AllDue(limit, Append(fr, f), NoEvent) = first \o ((others \o runs) \o rest)
  BY <1>12, <1>15 DEF AllDue
<1>17. AllDue(limit, Append(fr, g), e) = first \o ((others \o runs) \o rest)
  BY <1>6, <1>13, <1>14, CascadeAssumption DEF AllDue
<1>18. QED
  BY <1>3, <1>4, <1>16, <1>17

\* A level that has finished owes nothing.
LEMMA FinishedOwes ==
  ASSUME NEW limit \in Nat, NEW fr \in Seq(Frame), NEW f \in Frame, f.emissions = <<>>, f.matches = <<>>
  PROVE  AllDue(limit, fr, NoEvent) = AllDue(limit, Append(fr, f), NoEvent)
<1>1. PICK path \in Seq(Event) : path = Append(PathTo(fr, Len(fr)), f.event)
  BY FramePath DEF Frame
<1>2. PICK rest \in Seq(Due) : rest = OwedBy(limit, fr)
  BY OwedByAppend
<1>3. <<>> \in Seq(Due) /\ <<>> \in Seq(Clause)
  BY EmptySeq
<1>4. Owed(limit, path, f) = <<>>
  <2>1. DueOf(limit, path, f.emissions) \o Runs(f.matches, path) = Runs(<<>>, path)
    <3>1. Runs(<<>>, path) \in Seq(Due)
      BY <1>3, RunsProperties
    <3>2. QED
      BY <3>1, NothingCaused
  <2>2. Runs(<<>>, path) = <<>>
    BY <1>3, RunsProperties
  <2>3. QED
    BY <2>1, <2>2 DEF Owed
<1>5. AllDue(limit, Append(fr, f), NoEvent) = <<>> \o rest
  BY <1>1, <1>2, <1>4, OwedByAppend DEF AllDue
<1>6. QED
  BY <1>2, <1>5, ConcatEmptySeq DEF AllDue

-----------------------------------------------------------------------------
(* The steps.                                                              *)

LEMMA LimitIsNatural ==
  ASSUME TypeOK
  PROVE  ctx_config.max_depth \in Nat /\ config.max_depth \in Nat
BY CascadeAssumption DEF TypeOK, CascadeConfig

\* The marks are the events on the path.
LEMMA MarksAreThePath ==
  ASSUME TypeOK, VisitedIsActiveStack
  PROVE  /\ Len(PathTo(frames, Len(frames))) = Depth
         /\ \A e : e \in visited <=>
              \E n \in DOMAIN PathTo(frames, Len(frames)) : PathTo(frames, Len(frames))[n] = e
<1>1. frames \in Seq(Frame) /\ Len(frames) \in 0 .. Len(frames) /\ DOMAIN frames = 1 .. Len(frames)
  BY LenProperties DEF TypeOK
<1>2. Len(PathTo(frames, Len(frames))) = Depth
  BY <1>1, PathToType DEF Depth
<1>3. /\ DOMAIN PathTo(frames, Len(frames)) = 1 .. Len(frames)
      /\ \A n \in 1 .. Len(frames) : PathTo(frames, Len(frames))[n] = frames[n].event
  BY DEF PathTo
<1>4. QED
  BY <1>1, <1>2, <1>3 DEF VisitedIsActiveStack

LEMMA RefusingRecords ==
  ASSUME TypeOK, VisitedIsActiveStack, ExhaustionIsFinal, RecordInv,
         NEW kind \in {"depth", "cycle"}, Start(kind), frames' = frames,
         DueBelow(ctx_config.max_depth, PathTo(frames, Len(frames)), call) = <<Refused(kind)>>
  PROVE  RecordInv'
<1>1. PICK limit \in Nat : limit = ctx_config.max_depth
  BY LimitIsNatural
<1>2. /\ call \in Event /\ call # NoEvent /\ call' = NoEvent /\ ctx_config' = ctx_config /\ root' = root
      /\ outcomes' = Append(outcomes, SyntheticOutcome(kind))
  BY DEF TypeOK, Start
<1>3. ~Exhausted(outcomes)
  BY <1>2 DEF ExhaustionIsFinal, BudgetExhausted, Exhausted
<1>4. frames \in Seq(Frame) /\ outcomes \in Seq(Outcome) /\ root \in Event \cup {NoEvent}
  BY DEF TypeOK
<1>5. SyntheticOutcome(kind) \in Outcome /\ SyntheticOutcome(kind).kind # "budget"
  <2>1. kind \in OutcomeKind
    BY DEF OutcomeKind
  <2>2. QED
    BY <2>1, SyntheticIsOutcome DEF SyntheticOutcome
<1>6. Leads(limit, AllDue(limit, frames, call), SyntheticOutcome(kind), AllDue(limit, frames, NoEvent))
  BY <1>1, <1>2, <1>4, RefusalLeads
<1>7. Recorded(limit, outcomes, frames, call, root)
  BY <1>1 DEF RecordInv
<1>8. Recorded(limit, Append(outcomes, SyntheticOutcome(kind)), frames, NoEvent, root)
  BY <1>3, <1>4, <1>5, <1>6, <1>7, RecordedDue
<1>9. QED
  BY <1>1, <1>2, <1>8 DEF RecordInv

LEMMA EnteringRecords ==
  ASSUME TypeOK, VisitedIsActiveStack, ExhaustionIsFinal, RecordInv, EnterLevel
  PROVE  RecordInv'
<1>1. PICK limit \in Nat : limit = ctx_config.max_depth
  BY LimitIsNatural
<1>2. /\ call \in Event /\ call # NoEvent /\ call' = NoEvent /\ ctx_config' = ctx_config /\ root' = root
      /\ outcomes' = outcomes
  BY DEF TypeOK, EnterLevel, Start
<1>3. ~Exhausted(outcomes)
  BY <1>2 DEF ExhaustionIsFinal, BudgetExhausted, Exhausted
<1>4. frames \in Seq(Frame)
  BY DEF TypeOK
<1>5. PICK f : f = [event |-> call, matches |-> Matches[call], emissions |-> <<>>]
  OBVIOUS
<1>6. f \in Frame /\ f.event = call /\ f.matches = Matches[call] /\ f.emissions = <<>>
  <2>1. <<>> \in Seq(Event) /\ Matches[call] \in Seq(Clause)
    BY <1>2, CascadeAssumption, EmptySeq
  <2>2. QED
    BY <1>2, <1>5, <2>1 DEF Frame
<1>7. frames' = Append(frames, f)
  BY <1>5 DEF EnterLevel
<1>8. DueBelow(limit, PathTo(frames, Len(frames)), call)
        = Runs(Matches[call], Append(PathTo(frames, Len(frames)), call))
  <2>1. ~TooDeep /\ call \notin visited
    BY DEF EnterLevel
  <2>2. QED
    BY <1>1, <2>1, MarksAreThePath DEF DueBelow, TooDeep
<1>9. AllDue(limit, Append(frames, f), NoEvent) = AllDue(limit, frames, call)
  BY <1>2, <1>4, <1>6, <1>8, EnteringOwes
<1>10. Recorded(limit, outcomes, frames, call, root)
  BY <1>1 DEF RecordInv
<1>11. Recorded(limit, outcomes, Append(frames, f), NoEvent, root)
  BY <1>3, <1>9, <1>10, RecordedSame
<1>12. QED
  BY <1>1, <1>2, <1>7, <1>11 DEF RecordInv

LEMMA ExecutingRecords ==
  ASSUME TypeOK, RecordInv, NEW result \in Results, ExecuteClause(result)
  PROVE  RecordInv'
<1>1. PICK limit \in Nat : limit = ctx_config.max_depth
  BY LimitIsNatural
<1>2. frames \in Seq(Frame) /\ frames # <<>> /\ outcomes \in Seq(Outcome) /\ root \in Event \cup {NoEvent}
  BY DEF TypeOK, ExecuteClause, Running
<1>3. PICK fr \in Seq(Frame), f \in Frame : /\ frames = Append(fr, f) /\ Top = f
                                            /\ \A g \in Frame : ReplaceTop(g) = Append(fr, g)
  BY <1>2, TopAndOthers
<1>4. PICK g : g = [event |-> f.event, matches |-> Tail(f.matches), emissions |-> Kept(result)]
  OBVIOUS
<1>5. f.matches \in Seq(Clause) /\ f.matches # <<>> /\ f.emissions = <<>> /\ f.event \in Event
  BY <1>3 DEF Frame, ExecuteClause
<1>6. Head(f.matches) \in Clause /\ Tail(f.matches) \in Seq(Clause)
  BY <1>5, HeadTailProperties
<1>7. result \in BodyResult /\ Kept(result) \in Seq(Event)
  <2>1. result \in BodyResult
    BY CascadeAssumption DEF Results
  <2>2. QED
    BY <2>1, KeptEmissions
<1>8. PICK o : o = ClauseOutcome(Head(f.matches), result)
  OBVIOUS
<1>9. /\ o \in Outcome /\ o.clause = Head(f.matches) /\ o.emitted = Kept(result)
      /\ o.kind \in {"ok", "body"}
  BY <1>6, <1>7, <1>8 DEF ClauseOutcome, Outcome, OutcomeKind
<1>10. g \in Frame /\ g.event = f.event /\ g.matches = Tail(f.matches) /\ g.emissions = o.emitted
  BY <1>4, <1>5, <1>6, <1>7, <1>9 DEF Frame
<1>11. /\ frames' = Append(fr, g) /\ outcomes' = Append(outcomes, o)
       /\ call = NoEvent /\ call' = NoEvent /\ ctx_config' = ctx_config /\ root' = root
  BY <1>3, <1>4, <1>8, <1>10 DEF ExecuteClause, Running, context
<1>12. Recorded(limit, outcomes, Append(fr, f), NoEvent, root)
  BY <1>1, <1>3, <1>11 DEF RecordInv
<1>13. Recorded(limit, Append(outcomes, o), Append(fr, g), NoEvent, root)
  <2>1. CASE ~Exhausted(outcomes)
    <3>1. Leads(limit, AllDue(limit, Append(fr, f), NoEvent), o, AllDue(limit, Append(fr, g), NoEvent))
      BY <1>3, <1>5, <1>9, <1>10, ClauseLeads
    <3>2. QED
      BY <1>2, <1>9, <1>12, <2>1, <3>1, RecordedDue
  <2>2. CASE Exhausted(outcomes)
    <3>1. \A h \in Frame : /\ Len(Append(fr, h)) = Len(fr) + 1 /\ Append(fr, h) # <<>>
                           /\ Append(fr, h)[Len(Append(fr, h))] = h
      BY <1>3, AppendProperties, LenProperties
    <3>2. outcomes[Len(outcomes)].emitted = <<>>
      BY <1>3, <1>5, <1>12, <2>2, <3>1 DEF Recorded
    <3>3. PICK s : s = Append(fr, g)
      OBVIOUS
    <3>4. s # <<>> /\ s[Len(s)].emissions = o.emitted
      BY <1>10, <3>1, <3>3
    <3>5. Recorded(limit, Append(outcomes, o), s, NoEvent, root)
      BY <1>2, <1>9, <1>12, <2>2, <3>2, <3>4, RecordedPast
    <3>6. QED
      BY <3>3, <3>5
  <2>3. QED
    BY <2>1, <2>2
<1>14. QED
  BY <1>1, <1>11, <1>13 DEF RecordInv

LEMMA FeedingRecords ==
  ASSUME TypeOK, ExhaustionIsFinal, RecordInv, FeedEmission
  PROVE  RecordInv'
<1>1. PICK limit \in Nat : limit = ctx_config.max_depth
  BY LimitIsNatural
<1>2. frames \in Seq(Frame) /\ frames # <<>>
  BY DEF TypeOK, FeedEmission, Running
<1>3. PICK fr \in Seq(Frame), f \in Frame : /\ frames = Append(fr, f) /\ Top = f
                                            /\ \A g \in Frame : ReplaceTop(g) = Append(fr, g)
  BY <1>2, TopAndOthers
<1>4. PICK g : g = [event |-> f.event, matches |-> f.matches, emissions |-> Tail(f.emissions)]
  OBVIOUS
<1>5. f.matches \in Seq(Clause) /\ f.emissions \in Seq(Event) /\ f.emissions # <<>> /\ f.event \in Event
  BY <1>3 DEF Frame, FeedEmission
<1>6. Tail(f.emissions) \in Seq(Event)
  BY <1>5, HeadTailProperties
<1>7. g \in Frame /\ g.event = f.event /\ g.matches = f.matches /\ g.emissions = Tail(f.emissions)
  BY <1>4, <1>5, <1>6 DEF Frame
<1>8. /\ frames' = Append(fr, g) /\ outcomes' = outcomes
      /\ call = NoEvent /\ call' = Head(f.emissions) /\ ctx_config' = ctx_config /\ root' = root
  BY <1>3, <1>4, <1>7 DEF FeedEmission, Running
<1>9. ~Exhausted(outcomes)
  BY DEF ExhaustionIsFinal, BudgetExhausted, Exhausted, FeedEmission
<1>10. Recorded(limit, outcomes, Append(fr, f), NoEvent, root)
  BY <1>1, <1>3, <1>8 DEF RecordInv
<1>11. AllDue(limit, Append(fr, g), Head(f.emissions)) = AllDue(limit, Append(fr, f), NoEvent)
  BY <1>3, <1>5, <1>7, FeedingOwes
<1>12. Recorded(limit, outcomes, Append(fr, g), Head(f.emissions), root)
  BY <1>9, <1>10, <1>11, RecordedSame
<1>13. QED
  BY <1>1, <1>8, <1>12 DEF RecordInv

LEMMA ExhaustingRecords ==
  ASSUME TypeOK, RecordInv, ExhaustBudget
  PROVE  RecordInv'
<1>1. PICK limit \in Nat : limit = ctx_config.max_depth
  BY LimitIsNatural
<1>2. outcomes \in Seq(Outcome)
  BY DEF TypeOK
<1>3. /\ SyntheticOutcome("budget") \in Outcome /\ SyntheticOutcome("budget").kind = "budget"
      /\ SyntheticOutcome("budget").emitted = <<>>
  <2>1. "budget" \in OutcomeKind
    BY DEF OutcomeKind
  <2>2. QED
    BY <2>1, SyntheticIsOutcome DEF SyntheticOutcome
<1>4. Recorded(limit, outcomes, frames, call, root)
  BY <1>1 DEF RecordInv
<1>5. PICK s, d : s = frames' /\ d = call'
  OBVIOUS
<1>6. Recorded(limit, Append(outcomes, SyntheticOutcome("budget")), s, d, root)
  BY <1>2, <1>3, <1>4, RecordedPast
<1>7. ctx_config' = ctx_config /\ root' = root /\ outcomes' = Append(outcomes, SyntheticOutcome("budget"))
  BY DEF ExhaustBudget
<1>8. QED
  BY <1>1, <1>5, <1>6, <1>7 DEF RecordInv

LEMMA FinishingRecords ==
  ASSUME TypeOK, RecordInv, FinishLevel
  PROVE  RecordInv'
<1>1. PICK limit \in Nat : limit = ctx_config.max_depth
  BY LimitIsNatural
<1>2. frames \in Seq(Frame) /\ frames # <<>>
  BY DEF TypeOK, FinishLevel, Running
<1>3. PICK fr \in Seq(Frame), f \in Frame : frames = Append(fr, f) /\ Top = f /\ Pop = fr
  BY <1>2, TopAndOthers
<1>4. f.emissions = <<>> /\ f.matches = <<>>
  BY <1>3 DEF FinishLevel
<1>5. /\ frames' = fr /\ outcomes' = outcomes
      /\ call = NoEvent /\ call' = NoEvent /\ ctx_config' = ctx_config /\ root' = root
  BY <1>3 DEF FinishLevel, Running, Return
<1>6. Recorded(limit, outcomes, frames, NoEvent, root)
  BY <1>1, <1>5 DEF RecordInv
<1>7. Exhausted(outcomes) => outcomes[Len(outcomes)].emitted = <<>>
  <2>1. frames[Len(frames)].emissions = <<>>
    BY <1>3, <1>4 DEF Top
  <2>2. QED
    BY <1>6, <2>1 DEF Recorded
<1>8. AllDue(limit, fr, NoEvent) = AllDue(limit, frames, NoEvent)
  BY <1>3, <1>4, FinishedOwes
<1>9. Recorded(limit, outcomes, fr, NoEvent, root)
  BY <1>6, <1>7, <1>8, RecordedSame
<1>10. QED
  BY <1>1, <1>5, <1>9 DEF RecordInv

LEMMA RecordStep ==
  ASSUME TypeOK, VisitedIsActiveStack, ExhaustionIsFinal, RecordInv, [Next]_vars
  PROVE  RecordInv'
<1>1. ASSUME NEW cfg \in Configs, SetCascadeConfig(cfg)
      PROVE  RecordInv'
  BY <1>1 DEF RecordInv, SetCascadeConfig, context
<1>2. ASSUME NEW e \in Event, Dispatch(e)
      PROVE  RecordInv'
  <2>1. PICK limit \in Nat : limit = config.max_depth
    BY LimitIsNatural
  <2>2. /\ ctx_config' = config /\ outcomes' = <<>> /\ frames' = frames /\ frames = <<>>
        /\ call' = e /\ root' = e
    BY <1>2 DEF Dispatch, Idle
  <2>3. Recorded(limit, <<>>, <<>>, e, e)
    BY RecordedStart
  <2>4. QED
    BY <2>1, <2>2, <2>3 DEF RecordInv
<1>3. CASE RefuseDepth
  <2>1. Start("depth") /\ frames' = frames /\ TooDeep
    BY <1>3 DEF RefuseDepth
  <2>2. DueBelow(ctx_config.max_depth, PathTo(frames, Len(frames)), call) = <<Refused("depth")>>
    BY <2>1, MarksAreThePath DEF DueBelow, TooDeep
  <2>3. QED
    BY <2>1, <2>2, RefusingRecords
<1>4. CASE RefuseCycle
  <2>1. Start("cycle") /\ frames' = frames /\ ~TooDeep /\ call \in visited
    BY <1>4 DEF RefuseCycle
  <2>2. DueBelow(ctx_config.max_depth, PathTo(frames, Len(frames)), call) = <<Refused("cycle")>>
    BY <2>1, MarksAreThePath DEF DueBelow, TooDeep
  <2>3. QED
    BY <2>1, <2>2, RefusingRecords
<1>5. CASE EnterLevel
  BY <1>5, EnteringRecords
<1>6. ASSUME NEW result \in Results, ExecuteClause(result)
      PROVE  RecordInv'
  BY <1>6, ExecutingRecords
<1>7. CASE FeedEmission
  BY <1>7, FeedingRecords
<1>8. CASE ExhaustBudget
  BY <1>8, ExhaustingRecords
<1>9. CASE FinishLevel
  BY <1>9, FinishingRecords
<1>10. CASE UNCHANGED vars
  BY <1>10 DEF RecordInv, vars, context
<1>11. QED
  BY <1>1, <1>2, <1>3, <1>4, <1>5, <1>6, <1>7, <1>8, <1>9, <1>10 DEF Next, Step

-----------------------------------------------------------------------------
(* What the statistics count.                                              *)

LEMMA OutcomesAppend ==
  ASSUME NEW log \in Seq(Outcome), NEW o \in Outcome
  PROVE  /\ Emissions(log) \in Nat
         /\ Emissions(Append(log, o)) = Emissions(log) + Len(o.emitted)
         /\ Cardinality(ClauseOutcomes(log)) \in Nat
         /\ Cardinality(ClauseOutcomes(Append(log, o)))
              = Cardinality(ClauseOutcomes(log)) + IF o.clause # Synthetic THEN 1 ELSE 0
         /\ Failed(Append(log, o)) =
              Failed(log) \cup IF o.kind = "body" THEN {ScriptOf[o.clause]} ELSE {}
<1> DEFINE more == Append(log, o)
           n == Len(log)
<1>1. n \in Nat /\ DOMAIN log = 1 .. n
  BY LenProperties
<1>2. /\ more \in Seq(Outcome) /\ Len(more) = n + 1 /\ DOMAIN more = 1 .. n + 1
      /\ more[n + 1] = o /\ \A i \in 1 .. n : more[i] = log[i]
  BY AppendProperties, LenProperties
<1> HIDE DEF more, n
<1>3. (\A i \in 1 .. n + 1 : i \in 1 .. n \/ i = n + 1) /\ n + 1 \in 1 .. n + 1 /\ n + 1 \notin 1 .. n
      /\ \A i \in 1 .. n : i \in 1 .. n + 1
  BY <1>1
<1>4. Emissions(log) \in Nat /\ Emissions(more) = Emissions(log) + Len(o.emitted)
  <2>1. PICK len \in [Outcome -> Nat] : \A x \in Outcome : len[x] = Len(x.emitted)
    <3>1. \A x \in Outcome : Len(x.emitted) \in Nat
      BY LenProperties DEF Outcome
    <3>2. [x \in Outcome |-> Len(x.emitted)] \in [Outcome -> Nat]
      BY <3>1
    <3>3. QED
      BY <3>2
  <2>2. ASSUME NEW s \in Seq(Outcome)
        PROVE  Emissions(s) = Total([i \in 1 .. Len(s) |-> len[s[i]]], Len(s))
    <3>1. DOMAIN s = 1 .. Len(s) /\ \A i \in 1 .. Len(s) : s[i] \in Outcome
      BY ElementOfSeq, LenProperties
    <3>2. [i \in DOMAIN s |-> Len(s[i].emitted)] = [i \in 1 .. Len(s) |-> len[s[i]]]
      BY <2>1, <3>1
    <3>3. QED
      BY <3>2 DEF Emissions
  <2> DEFINE T(s) == Total([i \in 1 .. Len(s) |-> len[s[i]]], Len(s))
  <2>3. T(log) \in Nat /\ T(Append(log, o)) = T(log) + len[o]
    BY <2>1, TotalAppend, Zenon
  <2>4. Emissions(log) = T(log) /\ Emissions(more) = T(more)
    BY <1>2, <2>2
  <2> HIDE DEF T
  <2>5. QED
    BY <2>1, <2>3, <2>4 DEF more
<1>5. /\ Cardinality(ClauseOutcomes(log)) \in Nat
      /\ Cardinality(ClauseOutcomes(more))
           = Cardinality(ClauseOutcomes(log)) + IF o.clause # Synthetic THEN 1 ELSE 0
  <2>1. ClauseOutcomes(log) \subseteq 1 .. n
    BY <1>1 DEF ClauseOutcomes
  <2>2. IsFiniteSet(ClauseOutcomes(log))
    <3>1. IsFiniteSet(1 .. n)
      BY <1>1, FS_Interval
    <3>2. QED
      BY <2>1, <3>1, FS_Subset
  <2>3. ClauseOutcomes(more) = ClauseOutcomes(log) \cup IF o.clause # Synthetic THEN {n + 1} ELSE {}
    BY <1>1, <1>2, <1>3 DEF ClauseOutcomes
  <2>4. Cardinality(ClauseOutcomes(log)) \in Nat
    BY <2>2, FS_CardinalityType
  <2>5. n + 1 \notin ClauseOutcomes(log)
    BY <1>3, <2>1
  <2>6. Cardinality(ClauseOutcomes(log) \cup {n + 1}) = Cardinality(ClauseOutcomes(log)) + 1
    BY <2>2, <2>5, FS_AddElement
  <2>7. CASE o.clause # Synthetic
    BY <2>3, <2>4, <2>6, <2>7
  <2>8. CASE o.clause = Synthetic
    <3>1. ClauseOutcomes(more) = ClauseOutcomes(log)
      BY <2>3, <2>8
    <3>2. QED
      BY <2>4, <2>8, <3>1
  <2>9. QED
    BY <2>7, <2>8
<1>6. Failed(more) = Failed(log) \cup IF o.kind = "body" THEN {ScriptOf[o.clause]} ELSE {}
  <2>1. {j \in DOMAIN more : more[j].kind = "body"}
          = {j \in DOMAIN log : log[j].kind = "body"} \cup IF o.kind = "body" THEN {n + 1} ELSE {}
    BY <1>1, <1>2, <1>3
  <2>2. ScriptOf[more[n + 1].clause] = ScriptOf[o.clause]
        /\ \A i \in DOMAIN log : ScriptOf[more[i].clause] = ScriptOf[log[i].clause]
    BY <1>1, <1>2
  <2>3. QED
    BY <2>1, <2>2 DEF Failed
<1>7. QED
  BY <1>4, <1>5, <1>6 DEF more

\* A match has an outcome or still waits, and an emission was fed back or still waits.
Counted(log, fr, m, c) ==
  m = Cardinality(ClauseOutcomes(log)) + Waiting(fr) /\ c + Unfed(fr) = Emissions(log)

CountInv ==
  /\ dispatches = 0 => Idle /\ matched = 0 /\ cascades_emitted = 0 /\ last_error = {}
  /\ dispatches = 1 => last_error = Failed(outcomes)
  /\ dispatches = 1 /\ ~Exhausted(outcomes) =>
       Counted(outcomes, frames, matched, cascades_emitted)

LEMMA NothingCounted == Counted(<<>>, <<>>, 0, 0) /\ Failed(<<>>) = {}
<1>1. <<>> \in Seq(Outcome) /\ <<>> \in Seq(Frame) /\ Len(<<>>) = 0 /\ DOMAIN <<>> = {}
  BY EmptySeq
<1>2. ClauseOutcomes(<<>>) = {} /\ Cardinality({}) = 0
  BY <1>1, FS_EmptySet DEF ClauseOutcomes
<1>3. Emissions(<<>>) = 0
  <2>1. PICK n, g : n = 0 /\ n \in Nat /\ g = [i \in DOMAIN <<>> |-> Len(<<>>[i].emitted)]
    OBVIOUS
  <2>2. g \in [1 .. n -> Nat] /\ Emissions(<<>>) = Total(g, n)
    <3>1. DOMAIN <<>> = 1 .. n
      BY <2>1
    <3>2. g \in [1 .. n -> Nat]
      BY <1>1, <2>1, <3>1
    <3>3. QED
      BY <1>1, <2>1, <3>2 DEF Emissions
  <2>3. PICK a \in [0 .. n -> Nat] : Totals(a, g, n) /\ Total(g, n) = a[n]
    BY <2>1, <2>2, TotalRecursion, Zenon
  <2>4. QED
    BY <2>1, <2>2, <2>3 DEF Totals
<1>4. Waiting(<<>>) = 0 /\ Unfed(<<>>) = 0
  BY NothingOwed
<1>5. Failed(<<>>) = {}
  BY <1>1 DEF Failed
<1>6. QED
  BY <1>2, <1>3, <1>4, <1>5 DEF Counted

\* What a step that starts no dispatch has to show.
LEMMA CountedStep ==
  ASSUME TypeOK, CountInv, ~Idle, dispatches' = dispatches,
         dispatches = 1 => last_error' = Failed(outcomes'),
         dispatches = 1 /\ ~Exhausted(outcomes') =>
           Counted(outcomes', frames', matched', cascades_emitted')
  PROVE  CountInv'
BY DEF CountInv

LEMMA RefusingCounts ==
  ASSUME TypeOK, CountInv, NEW kind \in {"depth", "cycle"}, Start(kind),
         frames' = frames, matched' = matched
  PROVE  CountInv'
<1>1. /\ ~Idle /\ dispatches' = dispatches /\ last_error' = last_error
      /\ cascades_emitted' = cascades_emitted
      /\ outcomes' = Append(outcomes, SyntheticOutcome(kind))
  BY DEF Start, Idle
<1>2. PICK o \in Outcome : o = SyntheticOutcome(kind)
  <2>1. kind \in OutcomeKind
    BY DEF OutcomeKind
  <2>2. QED
    BY <2>1, SyntheticIsOutcome
<1>3. o.clause = Synthetic /\ o.kind # "body" /\ Len(o.emitted) = 0
  BY <1>2 DEF SyntheticOutcome
<1>4. outcomes \in Seq(Outcome)
  BY DEF TypeOK
<1>5. /\ Emissions(Append(outcomes, o)) = Emissions(outcomes)
      /\ Cardinality(ClauseOutcomes(Append(outcomes, o))) = Cardinality(ClauseOutcomes(outcomes))
      /\ Failed(Append(outcomes, o)) = Failed(outcomes)
  <2>1. /\ Emissions(outcomes) \in Nat /\ Cardinality(ClauseOutcomes(outcomes)) \in Nat
        /\ Emissions(Append(outcomes, o)) = Emissions(outcomes) + 0
        /\ Cardinality(ClauseOutcomes(Append(outcomes, o))) = Cardinality(ClauseOutcomes(outcomes)) + 0
        /\ Failed(Append(outcomes, o)) = Failed(outcomes) \cup {}
    BY <1>3, <1>4, OutcomesAppend
  <2>2. QED
    BY <2>1
<1>6. Exhausted(outcomes) => Exhausted(Append(outcomes, o))
  BY <1>4, ExhaustedAppend
<1>7. dispatches = 1 => last_error' = Failed(outcomes')
  BY <1>1, <1>2, <1>5 DEF CountInv
<1>8. dispatches = 1 /\ ~Exhausted(outcomes') =>
        Counted(outcomes', frames', matched', cascades_emitted')
  BY <1>1, <1>2, <1>5, <1>6 DEF CountInv, Counted
<1>9. QED
  BY <1>1, <1>7, <1>8, CountedStep

LEMMA EnteringCounts ==
  ASSUME TypeOK, CountInv, EnterLevel
  PROVE  CountInv'
<1>1. /\ ~Idle /\ dispatches' = dispatches /\ last_error' = last_error
      /\ cascades_emitted' = cascades_emitted /\ outcomes' = outcomes
      /\ matched' = matched + Len(Matches[call]) /\ call \in Event
  BY DEF EnterLevel, Start, Idle, TypeOK
<1>2. PICK f : f = [event |-> call, matches |-> Matches[call], emissions |-> <<>>]
  OBVIOUS
<1>3. f \in Frame /\ f.matches = Matches[call] /\ Len(f.emissions) = 0 /\ Len(Matches[call]) \in Nat
  <2>1. <<>> \in Seq(Event) /\ Matches[call] \in Seq(Clause)
    BY <1>1, CascadeAssumption, EmptySeq
  <2>2. QED
    BY <1>1, <1>2, <2>1, LenProperties DEF Frame
<1>4. frames' = Append(frames, f)
  BY <1>2 DEF EnterLevel
<1>5. /\ Waiting(frames) \in Nat /\ Waiting(frames') = Waiting(frames) + Len(Matches[call])
      /\ Unfed(frames) \in Nat /\ Unfed(frames') = Unfed(frames) + 0
  BY <1>3, <1>4, CountsAppend DEF TypeOK
<1>6. Cardinality(ClauseOutcomes(outcomes)) \in Nat
  <2>1. SyntheticOutcome("depth") \in Outcome
    BY SyntheticIsOutcome DEF OutcomeKind
  <2>2. QED
    BY <2>1, OutcomesAppend DEF TypeOK
<1>7. dispatches = 1 /\ ~Exhausted(outcomes') =>
        Counted(outcomes', frames', matched', cascades_emitted')
  BY <1>1, <1>3, <1>5, <1>6 DEF CountInv, Counted
<1>8. dispatches = 1 => last_error' = Failed(outcomes')
  BY <1>1 DEF CountInv
<1>9. QED
  BY <1>1, <1>7, <1>8, CountedStep

LEMMA ExecutingCounts ==
  ASSUME TypeOK, CountInv, NEW result \in Results, ExecuteClause(result)
  PROVE  CountInv'
<1>2. frames \in Seq(Frame) /\ frames # <<>> /\ outcomes \in Seq(Outcome) /\ ~Idle
  BY DEF TypeOK, ExecuteClause, Running, Idle
<1>3. PICK fr \in Seq(Frame), f \in Frame : /\ frames = Append(fr, f) /\ Top = f
                                            /\ \A g \in Frame : ReplaceTop(g) = Append(fr, g)
  BY <1>2, TopAndOthers
<1>4. PICK g : g = [event |-> f.event, matches |-> Tail(f.matches), emissions |-> Kept(result)]
  OBVIOUS
<1>5. f.matches \in Seq(Clause) /\ f.matches # <<>> /\ f.emissions = <<>> /\ f.event \in Event
  BY <1>3 DEF Frame, ExecuteClause
<1>6. Head(f.matches) \in Clause /\ Tail(f.matches) \in Seq(Clause)
      /\ Len(Tail(f.matches)) = Len(f.matches) - 1
  BY <1>5, HeadTailProperties
<1>7. result \in BodyResult /\ Kept(result) \in Seq(Event) /\ Len(Kept(result)) \in Nat
  <2>1. result \in BodyResult
    BY CascadeAssumption DEF Results
  <2>2. QED
    BY <2>1, KeptEmissions, LenProperties
<1>8. PICK o : o = ClauseOutcome(Head(f.matches), result)
  OBVIOUS
<1>9. /\ o \in Outcome /\ o.clause = Head(f.matches) /\ o.emitted = Kept(result)
      /\ o.kind = IF result.ok THEN "ok" ELSE "body"
  BY <1>6, <1>7, <1>8 DEF ClauseOutcome, Outcome, OutcomeKind
<1>10. g \in Frame /\ g.matches = Tail(f.matches) /\ g.emissions = o.emitted
  BY <1>4, <1>5, <1>6, <1>7, <1>9 DEF Frame
<1>11. /\ frames' = Append(fr, g) /\ outcomes' = Append(outcomes, o)
       /\ last_error' = IF result.ok THEN last_error ELSE last_error \cup {ScriptOf[o.clause]}
       /\ dispatches' = dispatches /\ matched' = matched /\ cascades_emitted' = cascades_emitted
  BY <1>3, <1>4, <1>8, <1>9, <1>10 DEF ExecuteClause
<1>12. o.clause # Synthetic
  BY <1>6, <1>9, CascadeAssumption
<1>13. /\ Emissions(outcomes) \in Nat /\ Cardinality(ClauseOutcomes(outcomes)) \in Nat
       /\ Emissions(Append(outcomes, o)) = Emissions(outcomes) + Len(o.emitted)
       /\ Cardinality(ClauseOutcomes(Append(outcomes, o))) = Cardinality(ClauseOutcomes(outcomes)) + 1
       /\ Failed(Append(outcomes, o)) =
            Failed(outcomes) \cup IF o.kind = "body" THEN {ScriptOf[o.clause]} ELSE {}
  BY <1>2, <1>9, <1>12, OutcomesAppend
<1>14. dispatches = 1 => last_error' = Failed(outcomes')
  <2>1. Failed(outcomes') = IF result.ok THEN Failed(outcomes) ELSE Failed(outcomes) \cup {ScriptOf[o.clause]}
    BY <1>9, <1>11, <1>13
  <2>2. QED
    BY <1>11, <2>1 DEF CountInv
<1>15. /\ Waiting(frames) = Waiting(fr) + Len(f.matches) /\ Waiting(frames') = Waiting(fr) + (Len(f.matches) - 1)
       /\ Unfed(frames) = Unfed(fr) + 0 /\ Unfed(frames') = Unfed(fr) + Len(o.emitted)
       /\ Waiting(fr) \in Nat /\ Unfed(fr) \in Nat /\ Len(f.matches) \in Nat /\ Len(o.emitted) \in Nat
  <2>1. Len(f.emissions) = 0 /\ Len(f.matches) \in Nat
    BY <1>5, LenProperties
  <2>2. Waiting(Append(fr, f)) = Waiting(fr) + Len(f.matches) /\ Unfed(Append(fr, f)) = Unfed(fr) + 0
    BY <1>3, <2>1, CountsAppend
  <2>3. /\ Waiting(Append(fr, g)) = Waiting(fr) + (Len(f.matches) - 1)
        /\ Unfed(Append(fr, g)) = Unfed(fr) + Len(o.emitted)
        /\ Waiting(fr) \in Nat /\ Unfed(fr) \in Nat
    BY <1>3, <1>6, <1>10, CountsAppend
  <2>4. QED
    BY <1>3, <1>7, <1>9, <1>11, <2>1, <2>2, <2>3
<1>16. Exhausted(outcomes) => Exhausted(outcomes')
  BY <1>2, <1>9, <1>11, ExhaustedAppend
<1>17. cascades_emitted \in Nat
  BY DEF TypeOK
<1>18. ASSUME dispatches = 1, ~Exhausted(outcomes')
       PROVE  Counted(outcomes', frames', matched', cascades_emitted')
  <2>1. /\ matched = Cardinality(ClauseOutcomes(outcomes)) + Waiting(frames)
        /\ cascades_emitted + Unfed(frames) = Emissions(outcomes)
    BY <1>16, <1>18 DEF CountInv, Counted
  <2>2. matched = (Cardinality(ClauseOutcomes(outcomes)) + 1) + (Waiting(fr) + (Len(f.matches) - 1))
    <3>1. PICK c \in Nat, w \in Nat, m \in Nat :
            c = Cardinality(ClauseOutcomes(outcomes)) /\ w = Waiting(fr) /\ m = Len(f.matches)
      BY <1>13, <1>15
    <3>2. matched = c + (w + m)
      BY <1>15, <2>1, <3>1
    <3>3. c + (w + m) = (c + 1) + (w + (m - 1))
      OBVIOUS
    <3>4. QED
      BY <3>1, <3>2, <3>3
  <2>3. cascades_emitted + (Unfed(fr) + Len(o.emitted)) = Emissions(outcomes) + Len(o.emitted)
    <3>1. PICK e \in Nat, u \in Nat, n \in Nat :
            e = cascades_emitted /\ u = Unfed(fr) /\ n = Len(o.emitted)
      BY <1>15, <1>17
    <3>2. e + u = Emissions(outcomes)
      BY <1>15, <2>1, <3>1
    <3>3. e + (u + n) = (e + u) + n
      OBVIOUS
    <3>4. QED
      BY <3>1, <3>2, <3>3
  <2>4. QED
    BY <1>11, <1>13, <1>15, <2>2, <2>3 DEF Counted
<1>19. QED
  BY <1>2, <1>11, <1>14, <1>18, CountedStep

LEMMA FeedingCounts ==
  ASSUME TypeOK, CountInv, FeedEmission
  PROVE  CountInv'
<1>2. frames \in Seq(Frame) /\ frames # <<>> /\ ~Idle
  BY DEF TypeOK, FeedEmission, Running, Idle
<1>3. PICK fr \in Seq(Frame), f \in Frame : /\ frames = Append(fr, f) /\ Top = f
                                            /\ \A g \in Frame : ReplaceTop(g) = Append(fr, g)
  BY <1>2, TopAndOthers
<1>4. PICK g : g = [event |-> f.event, matches |-> f.matches, emissions |-> Tail(f.emissions)]
  OBVIOUS
<1>5. f.matches \in Seq(Clause) /\ f.emissions \in Seq(Event) /\ f.emissions # <<>> /\ f.event \in Event
  BY <1>3 DEF Frame, FeedEmission
<1>6. Tail(f.emissions) \in Seq(Event) /\ Len(Tail(f.emissions)) = Len(f.emissions) - 1
      /\ Len(f.emissions) \in Nat
  BY <1>5, HeadTailProperties, LenProperties
<1>7. g \in Frame /\ g.matches = f.matches /\ g.emissions = Tail(f.emissions)
  BY <1>4, <1>5, <1>6 DEF Frame
<1>8. /\ frames' = Append(fr, g) /\ outcomes' = outcomes /\ dispatches' = dispatches
      /\ matched' = matched /\ cascades_emitted' = cascades_emitted + 1 /\ last_error' = last_error
  BY <1>3, <1>4, <1>7 DEF FeedEmission
<1>9. /\ Waiting(frames') = Waiting(frames)
      /\ Unfed(frames) = Unfed(fr) + Len(f.emissions)
      /\ Unfed(frames') = Unfed(fr) + (Len(f.emissions) - 1)
      /\ Unfed(fr) \in Nat
  BY <1>3, <1>6, <1>7, <1>8, CountsAppend
<1>10. cascades_emitted \in Nat
  BY DEF TypeOK
<1>11. ASSUME dispatches = 1, ~Exhausted(outcomes')
       PROVE  Counted(outcomes', frames', matched', cascades_emitted')
  <2>1. /\ matched = Cardinality(ClauseOutcomes(outcomes)) + Waiting(frames)
        /\ cascades_emitted + Unfed(frames) = Emissions(outcomes)
    BY <1>8, <1>11 DEF CountInv, Counted
  <2>2. (cascades_emitted + 1) + (Unfed(fr) + (Len(f.emissions) - 1)) = Emissions(outcomes)
    <3>1. PICK u \in Nat, m \in Nat : u = Unfed(fr) /\ m = Len(f.emissions)
      BY <1>6, <1>9
    <3>2. cascades_emitted + (u + m) = Emissions(outcomes)
      BY <1>9, <2>1, <3>1
    <3>3. cascades_emitted + (u + m) = (cascades_emitted + 1) + (u + (m - 1))
      BY <1>10
    <3>4. QED
      BY <3>1, <3>2, <3>3
  <2>3. QED
    BY <1>8, <1>9, <2>1, <2>2 DEF Counted
<1>12. dispatches = 1 => last_error' = Failed(outcomes')
  BY <1>8 DEF CountInv
<1>13. QED
  BY <1>2, <1>8, <1>11, <1>12, CountedStep

LEMMA ExhaustingCounts ==
  ASSUME TypeOK, CountInv, ExhaustBudget
  PROVE  CountInv'
<1>1. /\ ~Idle /\ dispatches' = dispatches /\ last_error' = last_error
      /\ outcomes' = Append(outcomes, SyntheticOutcome("budget"))
  BY DEF ExhaustBudget, Running, Idle, stats
<1>2. PICK o \in Outcome : o = SyntheticOutcome("budget")
  BY SyntheticIsOutcome DEF OutcomeKind
<1>3. o.kind = "budget"
  BY <1>2 DEF SyntheticOutcome
<1>4. Exhausted(outcomes') /\ Failed(outcomes') = Failed(outcomes)
  <2>1. outcomes \in Seq(Outcome)
    BY DEF TypeOK
  <2>2. Exhausted(Append(outcomes, o))
    BY <1>3, <2>1, ExhaustedAppend
  <2>3. Failed(Append(outcomes, o)) = Failed(outcomes) \cup {}
    BY <1>3, <2>1, OutcomesAppend
  <2>4. QED
    BY <1>1, <1>2, <2>2, <2>3
<1>5. QED
  BY <1>1, <1>4, CountedStep DEF CountInv

LEMMA FinishingCounts ==
  ASSUME TypeOK, CountInv, FinishLevel
  PROVE  CountInv'
<1>1. frames \in Seq(Frame) /\ frames # <<>> /\ ~Idle
  BY DEF TypeOK, FinishLevel, Running, Idle
<1>2. PICK fr \in Seq(Frame), f \in Frame : frames = Append(fr, f) /\ Top = f /\ Pop = fr
  BY <1>1, TopAndOthers
<1>3. Len(f.emissions) = 0 /\ Len(f.matches) = 0
  BY <1>2 DEF FinishLevel
<1>4. /\ frames' = fr /\ outcomes' = outcomes /\ dispatches' = dispatches
      /\ matched' = matched /\ cascades_emitted' = cascades_emitted /\ last_error' = last_error
  BY <1>2 DEF FinishLevel, Return, stats
<1>5. Waiting(frames') = Waiting(frames) /\ Unfed(frames') = Unfed(frames)
  <2>1. /\ Waiting(fr) \in Nat /\ Waiting(frames) = Waiting(fr) + 0
        /\ Unfed(fr) \in Nat /\ Unfed(frames) = Unfed(fr) + 0
    BY <1>2, <1>3, CountsAppend
  <2>2. QED
    BY <1>4, <2>1
<1>6. dispatches = 1 /\ ~Exhausted(outcomes') =>
        Counted(outcomes', frames', matched', cascades_emitted')
  BY <1>4, <1>5 DEF CountInv, Counted
<1>7. dispatches = 1 => last_error' = Failed(outcomes')
  BY <1>4 DEF CountInv
<1>8. QED
  BY <1>1, <1>4, <1>6, <1>7, CountedStep

LEMMA CountStep ==
  ASSUME TypeOK, CountInv, [Next]_vars
  PROVE  CountInv'
<1>1. ASSUME NEW cfg \in Configs, SetCascadeConfig(cfg)
      PROVE  CountInv'
  BY <1>1 DEF CountInv, SetCascadeConfig, stats, Idle
<1>2. ASSUME NEW e \in Event, Dispatch(e)
      PROVE  CountInv'
  <2>1. /\ outcomes' = <<>> /\ frames' = <<>> /\ dispatches' = dispatches + 1 /\ dispatches \in Nat
        /\ matched' = matched /\ cascades_emitted' = cascades_emitted /\ last_error' = last_error
    BY <1>2, CascadeAssumption DEF Dispatch, Idle, TypeOK
  <2>2. dispatches' # 0 /\ (dispatches' = 1 => dispatches = 0)
    BY <2>1
  <2>3. QED
    BY <2>1, <2>2, NothingCounted DEF CountInv
<1>3. CASE RefuseDepth
  BY <1>3, RefusingCounts DEF RefuseDepth
<1>4. CASE RefuseCycle
  BY <1>4, RefusingCounts DEF RefuseCycle
<1>5. CASE EnterLevel
  BY <1>5, EnteringCounts
<1>6. ASSUME NEW result \in Results, ExecuteClause(result)
      PROVE  CountInv'
  BY <1>6, ExecutingCounts
<1>7. CASE FeedEmission
  BY <1>7, FeedingCounts
<1>8. CASE ExhaustBudget
  BY <1>8, ExhaustingCounts
<1>9. CASE FinishLevel
  BY <1>9, FinishingCounts
<1>10. CASE UNCHANGED vars
  BY <1>10 DEF CountInv, Idle, vars, stats
<1>11. QED
  BY <1>1, <1>2, <1>3, <1>4, <1>5, <1>6, <1>7, <1>8, <1>9, <1>10 DEF Next, Step

\* dispatch's list is a beginning of the pre-order record of the cascade tree, the whole of
\* it when it returns within its budget, and follows nothing past its budget; and EngineStats
\* counts what it shows.
THEOREM ReportsTheTree == Spec => []ReportMatchesTree
<1>1. Init => RecordInv /\ CountInv
  <2> SUFFICES ASSUME Init PROVE RecordInv /\ CountInv
    OBVIOUS
  <2>1. outcomes = <<>> /\ root = NoEvent /\ DOMAIN outcomes = {} /\ Len(outcomes) = 0 /\ Len(outcomes) \in Nat
    BY DEF Init
  <2>2. ~Exhausted(outcomes)
    BY <2>1 DEF Exhausted
  <2>3. RefusedWithoutBudget(outcomes)
    <3>1. BeforeExhaustion(outcomes) = outcomes
      BY <2>2, BeforeNone
    <3>2. Len(outcomes) + 1 .. Len(outcomes) = {}
      BY <2>1
    <3>3. QED
      BY <3>1, <3>2 DEF RefusedWithoutBudget
  <2>4. RecordInv
    BY <2>1, <2>2, <2>3 DEF RecordInv, Recorded
  <2>5. CountInv
    BY DEF Init, CountInv, Idle
  <2>6. QED
    BY <2>4, <2>5
<1>2. TypeOK /\ VisitedIsActiveStack /\ ExhaustionIsFinal /\ RecordInv /\ CountInv /\ [Next]_vars
        => RecordInv' /\ CountInv'
  BY RecordStep, CountStep
<1>3. TypeOK /\ RecordInv /\ CountInv => ReportMatchesTree
  <2> SUFFICES ASSUME TypeOK, RecordInv, CountInv, root # NoEvent
               PROVE  /\ After(ctx_config.max_depth, BeforeExhaustion(outcomes), root) # {}
                      /\ Idle /\ ~BudgetExhausted => After(ctx_config.max_depth, outcomes, root) = {<<>>}
                      /\ RefusedWithoutBudget(outcomes)
                      /\ dispatches = 1 /\ Idle /\ ~BudgetExhausted =>
                           /\ matched = Cardinality(ClauseOutcomes(outcomes))
                           /\ cascades_emitted = Emissions(outcomes)
                           /\ last_error = Failed(outcomes)
    BY DEF ReportMatchesTree
  <2>1. PICK limit \in Nat : limit = ctx_config.max_depth
    BY LimitIsNatural
  <2>2. BudgetExhausted <=> Exhausted(outcomes)
    BY DEF BudgetExhausted, Exhausted
  <2>3. Recorded(limit, outcomes, frames, call, root)
    BY <2>1 DEF RecordInv
  <2>4. After(limit, BeforeExhaustion(outcomes), root) # {}
    <3>1. CASE Exhausted(outcomes)
      BY <2>3, <3>1 DEF Recorded
    <3>2. CASE ~Exhausted(outcomes)
      <4>1. BeforeExhaustion(outcomes) = outcomes
        BY <3>2, BeforeNone
      <4>2. QED
        BY <2>3, <3>2, <4>1 DEF Recorded
    <3>3. QED
      BY <3>1, <3>2
  <2>5. ASSUME Idle, ~BudgetExhausted
        PROVE  After(limit, outcomes, root) = {<<>>}
    <3>1. AllDue(limit, frames, call) = <<>>
      BY <2>5, NothingOwed DEF AllDue, Idle
    <3>2. QED
      BY <2>2, <2>3, <2>5, <3>1 DEF Recorded
  <2>6. RefusedWithoutBudget(outcomes)
    BY <2>3 DEF Recorded
  <2>7. ASSUME dispatches = 1, Idle, ~BudgetExhausted
        PROVE  /\ matched = Cardinality(ClauseOutcomes(outcomes))
               /\ cascades_emitted = Emissions(outcomes)
               /\ last_error = Failed(outcomes)
    <3>1. Waiting(frames) = 0 /\ Unfed(frames) = 0
      BY <2>7, NothingOwed DEF Idle
    <3>2. /\ matched = Cardinality(ClauseOutcomes(outcomes)) + 0
          /\ cascades_emitted + 0 = Emissions(outcomes)
          /\ last_error = Failed(outcomes)
      BY <2>2, <2>7, <3>1 DEF CountInv, Counted
    <3>3. Cardinality(ClauseOutcomes(outcomes)) \in Nat /\ cascades_emitted \in Nat
      <4>1. SyntheticOutcome("depth") \in Outcome
        BY SyntheticIsOutcome DEF OutcomeKind
      <4>2. QED
        BY <4>1, OutcomesAppend DEF TypeOK
    <3>4. QED
      BY <3>2, <3>3
  <2>8. QED
    BY <2>1, <2>4, <2>5, <2>6, <2>7
<1>4. QED
  BY <1>1, <1>2, <1>3, TypeCorrect, StackSafety, ExhaustionSafety, PTL DEF Spec

-----------------------------------------------------------------------------
(* Why a dispatch ends.                                                    *)

\* Closer to the end: less budget; or with as much, an activation has started; or with none
\* to start, fewer clauses wait; or with as many, fewer activations are on the stack.
Nearer ==
  \/ budget_remaining' < budget_remaining
  \/ budget_remaining' = budget_remaining /\ call # NoEvent /\ call' = NoEvent
  \/ /\ budget_remaining' = budget_remaining /\ call = NoEvent /\ call' = NoEvent
     /\ \/ Waiting(frames') < Waiting(frames)
        \/ Waiting(frames') = Waiting(frames) /\ Len(frames') < Len(frames)

LEMMA ExecutingNears ==
  ASSUME TypeOK, NEW result \in Results, ExecuteClause(result)
  PROVE  Nearer
<1>1. frames \in Seq(Frame) /\ frames # <<>>
  BY DEF TypeOK, ExecuteClause, Running
<1>2. PICK fr \in Seq(Frame), f \in Frame : /\ frames = Append(fr, f) /\ Top = f
                                            /\ \A g \in Frame : ReplaceTop(g) = Append(fr, g)
  BY <1>1, TopAndOthers
<1>3. PICK g : g = [event |-> f.event, matches |-> Tail(f.matches), emissions |-> Kept(result)]
  OBVIOUS
<1>4. f.matches \in Seq(Clause) /\ f.matches # <<>> /\ f.event \in Event
  BY <1>2 DEF Frame, ExecuteClause
<1>5. Kept(result) \in Seq(Event)
  <2>1. result \in BodyResult
    BY CascadeAssumption DEF Results
  <2>2. QED
    BY <2>1, KeptEmissions
<1>6. Tail(f.matches) \in Seq(Clause) /\ Len(Tail(f.matches)) = Len(f.matches) - 1 /\ Len(f.matches) \in Nat
  BY <1>4, HeadTailProperties, LenProperties
<1>7. g \in Frame /\ g.matches = Tail(f.matches)
  BY <1>3, <1>4, <1>5, <1>6 DEF Frame
<1>8. frames' = Append(fr, g)
  BY <1>2, <1>3, <1>7 DEF ExecuteClause
<1>9. /\ Waiting(frames) = Waiting(fr) + Len(f.matches) /\ Waiting(fr) \in Nat
      /\ Waiting(frames') = Waiting(fr) + (Len(f.matches) - 1)
  BY <1>2, <1>6, <1>7, <1>8, CountsAppend
<1>10. Waiting(frames') < Waiting(frames)
  BY <1>6, <1>9
<1>11. QED
  BY <1>10 DEF Nearer, ExecuteClause, Running, context

LEMMA ReturningNears ==
  ASSUME TypeOK, Running, Return, budget_remaining' = budget_remaining, call' = call
  PROVE  Nearer
<1>1. frames \in Seq(Frame) /\ frames # <<>>
  BY DEF TypeOK, Running
<1>2. PICK fr \in Seq(Frame), f \in Frame : frames = Append(fr, f) /\ Pop = fr
  BY <1>1, TopAndOthers
<1>3. Len(f.matches) \in Nat
  BY <1>2, LenProperties DEF Frame
<1>4. Waiting(fr) \in Nat /\ Waiting(frames) = Waiting(fr) + Len(f.matches)
  BY <1>2, CountsAppend
<1>5. Len(fr) \in Nat /\ Len(frames) = Len(fr) + 1
  BY <1>2, AppendProperties, LenProperties
<1>6. frames' = fr
  BY <1>2 DEF Return
<1>7. Waiting(frames') < Waiting(frames)
        \/ (Waiting(frames') = Waiting(frames) /\ Len(frames') < Len(frames))
  BY <1>3, <1>4, <1>5, <1>6
<1>8. QED
  BY <1>7 DEF Nearer, Running

\* Each step of a dispatch takes it closer to its end, whatever the bodies emit: there is no
\* going on for ever.
THEOREM StepsNearTheEnd == Spec => [][Step => Nearer]_vars
<1>1. TypeOK /\ [Next]_vars => [Step => Nearer]_vars
  <2> SUFFICES ASSUME TypeOK, Step
               PROVE  Nearer
    OBVIOUS
  <2>1. CASE RefuseDepth
    BY <2>1 DEF RefuseDepth, Start, Nearer
  <2>2. CASE RefuseCycle
    BY <2>2 DEF RefuseCycle, Start, Nearer
  <2>3. CASE EnterLevel
    BY <2>3 DEF EnterLevel, Start, Nearer
  <2>4. ASSUME NEW result \in Results, ExecuteClause(result)
        PROVE  Nearer
    BY <2>4, ExecutingNears
  <2>5. CASE FeedEmission
    <3>1. budget_remaining \in Nat /\ budget_remaining' = budget_remaining - 1
      BY <2>5, CascadeAssumption DEF TypeOK, FeedEmission, CascadeConfig
    <3>2. QED
      BY <3>1 DEF Nearer
  <2>6. CASE ExhaustBudget
    BY <2>6, ReturningNears DEF ExhaustBudget
  <2>7. CASE FinishLevel
    BY <2>7, ReturningNears DEF FinishLevel
  <2>8. QED
    BY <2>1, <2>2, <2>3, <2>4, <2>5, <2>6, <2>7 DEF Step
<1>2. QED
  BY <1>1, TypeCorrect, PTL DEF Spec

=============================================================================
