------------------------------- MODULE Cascade -------------------------------
(***************************************************************************)
(* Cascading dispatch of the luaml engine: LuamlEngine::dispatch and its   *)
(* recursive worker dispatch_inner (crates/luaml/src/lib.rs).              *)
(*                                                                         *)
(* The recursion is unfolded into an explicit stack: frames[d + 1] is the  *)
(* activation of dispatch_inner at depth d, and `call` is the argument of  *)
(* an activation about to start.  What a Lua body does is abstracted to    *)
(* its result: it fails, or it returns cleanly with a list of emissions;   *)
(* the same clause may behave differently each time it runs, because Lua   *)
(* state outlives a clause.  An event is its canonical signature, the only *)
(* thing the cascade machinery compares.                                   *)
(*                                                                         *)
(* A definition whose name starts with Slip is not part of the model: it   *)
(* is what the one after it would be with a plausible bug in that code,    *)
(* kept to show which property notices.                                    *)
(***************************************************************************)
EXTENDS Naturals, Sequences

CONSTANTS
  Event,          \* event signatures
  Script,         \* source paths
  Clause,         \* clauses of the registered scripts
  ScriptOf,       \* the script a clause belongs to
  Matches,        \* registry.match_clauses: the clauses an event selects, in order
  Bodies,         \* the results the body of a clause may have
  Configs,        \* the CascadeConfigs the embedder uses
  NoEvent,        \* no activation is about to start
  Synthetic,      \* SYNTHETIC_CLAUSE
  MaxDispatches   \* bound: how often the embedder calls dispatch

BodyResult == [ok : BOOLEAN, emitted : Seq(Event)]
CascadeConfig == [max_depth : Nat, budget : Nat]

ASSUME CascadeAssumption ==
  /\ NoEvent \notin Event
  /\ Synthetic \notin Clause
  /\ ScriptOf \in [Clause -> Script]
  /\ Matches \in [Event -> Seq(Clause)]
  /\ Bodies \in [Clause -> SUBSET BodyResult]
  /\ \A c \in Clause : Bodies[c] # {}
  /\ Configs \subseteq CascadeConfig
  /\ Configs # {}
  /\ MaxDispatches \in Nat

VARIABLES
  config,             \* engine.cascade_config
  root,               \* the argument of the running (or last) dispatch
  call,               \* the event of an activation about to start, or NoEvent
  frames,             \* the active dispatch_inner activations, outermost first
  ctx_config,         \* ctx.config, copied from the engine by dispatch
  visited,            \* ctx.visited
  budget_remaining,   \* ctx.budget_remaining
  outcomes,           \* the outcomes collected by the running (or last) dispatch
  dispatches,         \* stats.dispatches
  matched,            \* stats.matched
  cascade_depth_max,  \* stats.cascade_depth_max
  cascades_emitted,   \* stats.cascades_emitted
  last_error          \* the keys of stats.last_error_per_script

context == <<ctx_config, visited, budget_remaining>>
stats == <<dispatches, matched, cascade_depth_max, cascades_emitted, last_error>>
vars == <<config, root, call, frames, context, outcomes, stats>>

\* An activation: its event, the matches it has not executed yet, and the
\* emissions of the last executed one it has not fed back yet.
Frame == [event : Event, matches : Seq(Clause), emissions : Seq(Event)]

OutcomeKind == {"ok", "body", "depth", "cycle", "budget"}
Outcome == [clause : Clause \cup {Synthetic}, kind : OutcomeKind, emitted : Seq(Event)]

SyntheticOutcome(kind) == [clause |-> Synthetic, kind |-> kind, emitted |-> <<>>]

\* A failed body keeps none of the emissions it queued before failing.
Kept(result) == IF result.ok THEN result.emitted ELSE <<>>

ClauseOutcome(c, result) ==
  [clause |-> c, kind |-> IF result.ok THEN "ok" ELSE "body", emitted |-> Kept(result)]

Larger(m, n) == IF m > n THEN m ELSE n
Idle == frames = <<>> /\ call = NoEvent
Top == frames[Len(frames)]
Pop == SubSeq(frames, 1, Len(frames) - 1)
ReplaceTop(f) == [frames EXCEPT ![Len(frames)] = f]

\* The depth argument of the activation about to start.
Depth == Len(frames)
SlipTooDeep == Depth > ctx_config.max_depth
TooDeep == Depth >= ctx_config.max_depth

Init ==
  /\ config \in Configs
  /\ root = NoEvent
  /\ call = NoEvent
  /\ frames = <<>>
  /\ ctx_config = config
  /\ visited = {}
  /\ budget_remaining = 0
  /\ outcomes = <<>>
  /\ dispatches = 0
  /\ matched = 0
  /\ cascade_depth_max = 0
  /\ cascades_emitted = 0
  /\ last_error = {}

-----------------------------------------------------------------------------
(* The embedder's calls.  Both take the engine by &mut self, so neither    *)
(* happens while a dispatch runs.                                          *)

SetCascadeConfig(cfg) ==
  /\ Idle
  /\ config' = cfg
  /\ UNCHANGED <<root, call, frames, context, outcomes, stats>>

Dispatch(e) ==
  /\ Idle
  /\ dispatches < MaxDispatches
  /\ dispatches' = dispatches + 1
  /\ root' = e
  /\ call' = e
  /\ ctx_config' = config
  /\ visited' = {}
  /\ budget_remaining' = config.budget
  /\ outcomes' = <<>>
  /\ UNCHANGED <<config, frames, matched, cascade_depth_max, cascades_emitted, last_error>>

-----------------------------------------------------------------------------
(* The start of dispatch_inner: record the depth, then refuse the event or *)
(* enter its level.                                                        *)

Start(kind) ==
  /\ call # NoEvent
  /\ call' = NoEvent
  /\ cascade_depth_max' = Larger(cascade_depth_max, Depth)
  /\ outcomes' = IF kind = "enter" THEN outcomes ELSE Append(outcomes, SyntheticOutcome(kind))
  /\ UNCHANGED <<config, root, ctx_config, budget_remaining, dispatches, cascades_emitted,
                 last_error>>

RefuseDepth ==
  /\ Start("depth")
  /\ TooDeep
  /\ UNCHANGED <<frames, visited, matched>>

\* The repeated event is retried instead of refused.
SlipRefuseCycle ==
  /\ call # NoEvent /\ ~TooDeep /\ call \in visited
  /\ UNCHANGED vars

RefuseCycle ==
  /\ Start("cycle")
  /\ ~TooDeep
  /\ call \in visited
  /\ UNCHANGED <<frames, visited, matched>>

EnterLevel ==
  /\ Start("enter")
  /\ ~TooDeep
  /\ call \notin visited
  /\ visited' = visited \cup {call}
  /\ matched' = matched + Len(Matches[call])
  /\ frames' = Append(frames, [event |-> call, matches |-> Matches[call], emissions |-> <<>>])

-----------------------------------------------------------------------------
(* The loops of dispatch_inner, seen from the innermost activation.        *)

Running == call = NoEvent /\ frames # <<>>

\* Leaving an activation, by either of its returns.
Return ==
  /\ visited' = visited \ {Top.event}
  /\ frames' = Pop

\* execute_matched, and the outcome it returns pushed.
ExecuteClause(result) ==
  /\ Running
  /\ Top.emissions = <<>>
  /\ Top.matches # <<>>
  /\ LET c == Head(Top.matches)
     IN /\ result \in Bodies[c]
        /\ outcomes' = Append(outcomes, ClauseOutcome(c, result))
        /\ last_error' = IF result.ok THEN last_error ELSE last_error \cup {ScriptOf[c]}
  /\ frames' = ReplaceTop([event |-> Top.event, matches |-> Tail(Top.matches),
                           emissions |-> Kept(result)])
  /\ UNCHANGED <<config, root, call, context, dispatches, matched, cascade_depth_max,
                 cascades_emitted>>

\* An emission within the budget re-enters dispatch_inner one level deeper.
FeedEmission ==
  /\ Running
  /\ Top.emissions # <<>>
  /\ budget_remaining > 0
  /\ budget_remaining' = budget_remaining - 1
  /\ cascades_emitted' = cascades_emitted + 1
  /\ call' = Head(Top.emissions)
  /\ frames' = ReplaceTop([event |-> Top.event, matches |-> Top.matches,
                           emissions |-> Tail(Top.emissions)])
  /\ UNCHANGED <<config, root, ctx_config, visited, outcomes, dispatches, matched, cascade_depth_max,
                 last_error>>

\* The early return forgets to unmark the event.
SlipExhaustBudgetStillMarked ==
  /\ Running /\ Top.emissions # <<>> /\ budget_remaining = 0
  /\ outcomes' = Append(outcomes, SyntheticOutcome("budget"))
  /\ frames' = Pop
  /\ UNCHANGED <<config, root, call, context, stats>>

\* The last emission of the budget is refused too.
SlipExhaustBudgetEarly ==
  /\ Running /\ Top.emissions # <<>> /\ budget_remaining <= 1
  /\ outcomes' = Append(outcomes, SyntheticOutcome("budget"))
  /\ Return
  /\ UNCHANGED <<config, root, call, ctx_config, budget_remaining, stats>>

\* An emission beyond the budget ends its whole activation: the emissions and
\* the matches still waiting there are dropped.
ExhaustBudget ==
  /\ Running
  /\ Top.emissions # <<>>
  /\ budget_remaining = 0
  /\ outcomes' = Append(outcomes, SyntheticOutcome("budget"))
  /\ Return
  /\ UNCHANGED <<config, root, call, ctx_config, budget_remaining, stats>>

\* The normal return forgets to unmark the event.
SlipFinishLevel ==
  /\ Running /\ Top.emissions = <<>> /\ Top.matches = <<>>
  /\ frames' = Pop
  /\ UNCHANGED <<config, root, call, context, outcomes, stats>>

FinishLevel ==
  /\ Running
  /\ Top.emissions = <<>>
  /\ Top.matches = <<>>
  /\ Return
  /\ UNCHANGED <<config, root, call, ctx_config, budget_remaining, outcomes, stats>>

-----------------------------------------------------------------------------

Results == UNION {Bodies[c] : c \in Clause}

\* dispatch_inner runs to completion on the embedder's thread.
Step ==
  \/ RefuseDepth
  \/ RefuseCycle
  \/ EnterLevel
  \/ \E result \in Results : ExecuteClause(result)
  \/ FeedEmission
  \/ ExhaustBudget
  \/ FinishLevel

Next ==
  \/ \E cfg \in Configs : SetCascadeConfig(cfg)
  \/ \E e \in Event : Dispatch(e)
  \/ Step

\* A running dispatch keeps running; the embedder need not call another one.
Fairness == WF_vars(Step)

Spec == Init /\ [][Next]_vars /\ Fairness
-----------------------------------------------------------------------------

TypeOK ==
  /\ config \in Configs
  /\ ctx_config \in Configs
  /\ root \in Event \cup {NoEvent}
  /\ call \in Event \cup {NoEvent}
  /\ frames \in Seq(Frame)
  /\ visited \subseteq Event
  /\ budget_remaining \in 0 .. ctx_config.budget
  /\ outcomes \in Seq(Outcome)
  /\ dispatches \in 0 .. MaxDispatches
  /\ matched \in Nat
  /\ cascade_depth_max \in Nat
  /\ cascades_emitted \in Nat
  /\ last_error \subseteq Script

\* Cycle detection rests on this: whatever way an activation is left, the marks
\* in ctx.visited are those of the activations still on the stack, and no event
\* is dispatched inside itself.
VisitedIsActiveStack ==
  /\ visited = {frames[i].event : i \in DOMAIN frames}
  /\ \A i, j \in DOMAIN frames : frames[i].event = frames[j].event => i = j

\* The configured max_depth bounds the recursion, and so the native stack: no
\* level runs at that depth or below it, and an activation refused there is the
\* deepest there is, which is also the deepest the statistics can report.
DepthBounded ==
  /\ Len(frames) <= ctx_config.max_depth
  /\ \E cfg \in Configs : cascade_depth_max <= cfg.max_depth

BudgetExhausted == \E i \in DOMAIN outcomes : outcomes[i].kind = "budget"

\* A tree is refused its budget only after using all of it, and from then on it
\* only winds up: no activation starts again, however many clauses on the way up
\* still run and emit.
ExhaustionIsFinal == BudgetExhausted => budget_remaining = 0 /\ call = NoEvent

\* Every dispatch returns, whatever the bodies emit: a cascade ends by itself or
\* is ended by one of the three limits.
DispatchReturns == ~Idle ~> Idle
=============================================================================
