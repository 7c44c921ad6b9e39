------------------------------ MODULE Evaluator ------------------------------
(***************************************************************************)
(* One validation: the walk of a compiled schema over an instance           *)
(* (validate.go, eval.go, eval_ref.go, eval_applicator.go,                  *)
(* eval_unevaluated.go).  ctx is the runCtx.  The Go call stack is explicit: *)
(* a frame is one run call together with the evaluate, evaluateAt or        *)
(* evaluateBranch call around it and the local variables of the keyword     *)
(* evaluator it is in.                                                      *)
(*                                                                          *)
(* Schemas are graphs of compiled subschemas and instances are trees of     *)
(* values.  An error is only counted and weighed: a keyword location or a   *)
(* message makes no difference to the walk.  Every assertion keyword is the *)
(* set of values it rejects.                                                *)
(***************************************************************************)
EXTENDS Integers, Sequences, FiniteSets, SequencesExt, Selecting

CONSTANTS Sub,         \* compiled subschemas
          Schema,      \* Sub -> [bool, kws, resource, crosses]
          Value,       \* instance values, each at one location
          Instance,    \* Value -> [kind, members, items]
          KeyOrder,    \* the property names, sorted
          NameValue,   \* property name -> the string value propertyNames sees
          Height,      \* Value -> how far the value's tree reaches down
          Dynamic,     \* resource -> its $dynamicAnchor names -> Sub
          Recursive,   \* resources with $recursiveAnchor: true -> root Sub
          Validations, \* the calls: a compiled schema's root, an instance, and
                       \* the run options with the compile option maxRefDepth
          Charge,      \* evaluations charged per error
          None

ASSUME ChargeAssumption == Charge \in Nat \ {0}

\* What compiling leaves in a keyword: every subschema pointer is set.
KeywordOK(k, kw) ==
    CASE k \in {"allOf", "anyOf", "oneOf", "prefixItems"} -> kw \in Seq(Sub)
      [] k \in {"not", "propertyNames", "additionalProperties", "additionalItems",
                "unevaluatedItems", "unevaluatedProperties"} -> kw \in Sub
      [] k = "if" -> kw.cond \in Sub /\ {kw.then, kw.else} \subseteq Sub \cup {None}
      [] k \in {"properties", "dependentSchemas"} -> kw \in [DOMAIN kw -> Sub]
      [] k = "dependencies" ->
           /\ kw.schemas \in [DOMAIN kw.schemas -> Sub]
           /\ \A n \in DOMAIN kw.required : kw.required[n] \in Seq(ToSet(kw.required[n]))
      [] k = "dependentRequired" -> \A n \in DOMAIN kw : kw[n] \in Seq(ToSet(kw[n]))
      [] k = "required" -> kw \in Seq(ToSet(kw))
      [] k = "patternProperties" -> kw \in Seq(ToSet(kw)) /\ \A p \in ToSet(kw) : p.sub \in Sub
      [] k = "items" -> IF kw.isPrefix THEN kw.subs \in Seq(Sub) ELSE kw.sub \in Sub
      [] k = "contains" -> kw.sub \in Sub
      [] k \in {"$ref", "$dynamicRef", "$recursiveRef"} -> kw.target \in Sub \cup {None}
      [] OTHER -> TRUE

ASSUME SchemaAssumption ==
    /\ \A s \in Sub : \A k \in DOMAIN Schema[s].kws : KeywordOK(k, Schema[s].kws[k])
    /\ \A r \in DOMAIN Dynamic : Dynamic[r] \in [DOMAIN Dynamic[r] -> Sub]
    /\ Recursive \in [DOMAIN Recursive -> Sub]

\* Instances are finite trees; the names propertyNames sees are leaves.
ASSUME InstanceAssumption ==
    /\ KeyOrder \in Seq(ToSet(KeyOrder))
    /\ Height \in [Value -> Nat]
    /\ NameValue \in [ToSet(KeyOrder) -> Value]
    /\ \A v \in Value :
         /\ Instance[v].kind = "object" =>
              /\ DOMAIN Instance[v].members \subseteq ToSet(KeyOrder)
              /\ \A n \in DOMAIN Instance[v].members :
                   /\ Instance[v].members[n] \in Value
                   /\ Height[Instance[v].members[n]] < Height[v]
                   /\ Height[NameValue[n]] < Height[v]
         /\ Instance[v].kind = "array" =>
              /\ Instance[v].items \in Seq(Value)
              /\ \A i \in DOMAIN Instance[v].items : Height[Instance[v].items[i]] < Height[v]

OptionsType ==
    [stop : BOOLEAN, collect : BOOLEAN, maxErrors : Int, limit : Int,
     maxDepth : Int, maxRefDepth : Int, maxKeyCount : Int]
ASSUME ValidationAssumption == \A v \in Validations : v \in Sub \X Value \X OptionsType

VARIABLES schema,    \* the schema and
          instance,  \* the instance Validate was called with,
          opts,      \* and its options
          ctx,       \* the runCtx
          stack      \* the frames, outermost first

call == <<schema, instance, opts>>
vars == <<call, ctx, stack>>

-----------------------------------------------------------------------------
(* Errors and the evaluation budget *)

NoErrors == [n |-> 0, w |-> 0]
Join(e, f) == [n |-> e.n + f.n, w |-> e.w + f.w]

OverLimit(c) == opts.limit >= 0 /\ c.evals > opts.limit

\* Mutant: the charge is not held against the limit.
WrongChargeErrors(c, cost) == [c EXCEPT !.errCost = @ + cost, !.evals = @ + cost]

ChargeErrors(c, cost) ==
    LET d == [c EXCEPT !.errCost = @ + cost, !.evals = @ + cost]
    IN [d EXCEPT !.overBudget = @ \/ OverLimit(d)]

RefundErrors(c, cost) == [c EXCEPT !.errCost = @ - cost, !.evals = @ - cost]

AtCap(c) == opts.maxErrors > 0 /\ c.errors.n >= opts.maxErrors

\* An error holds its causes; one that the cap drops gives their charge back.
AddCausesError(c, causes, cost) ==
    LET failed == [c EXCEPT !.failCount = @ + 1]
        held == [n |-> c.errors.n + 1, w |-> c.errors.w + causes.w + Charge]
    IN IF AtCap(c)
       THEN RefundErrors(failed, cost)
       ELSE ChargeErrors([failed EXCEPT !.errors = held, !.stopFired = @ \/ opts.stop], Charge)

AddError(c) == AddCausesError(c, NoErrors, 0)

ShouldStop(c) == c.overBudget \/ (opts.stop /\ (c.stopFired \/ c.errors.n > 0))

-----------------------------------------------------------------------------
(* Annotations: a nil *annoScope is the empty one *)

EmptyScope == [props |-> {}, prefix |-> 0, all |-> FALSE, contained |-> {}]
Larger(m, n) == IF m > n THEN m ELSE n

Merge(s, o) ==
    [props |-> s.props \cup o.props, prefix |-> Larger(s.prefix, o.prefix),
     all |-> s.all \/ o.all, contained |-> s.contained \cup o.contained]

Public == opts.collect /\ ~opts.stop

\* mark* in the scope, and one entry in the annotation log.
Record(c, f, k, evaluated) ==
    [c EXCEPT !.scope = IF c.needScope THEN Merge(@, evaluated) ELSE @,
              !.annos = IF Public THEN @ \cup {[sub |-> f.sub, at |-> f.at, kw |-> k]} ELSE @]

AddBranchAnnotations(c, branch) ==
    [c EXCEPT !.annos = @ \cup branch.annos, !.scope = Merge(@, branch.scope)]

-----------------------------------------------------------------------------
(* The keywords of a subschema *)

\* Mutant: evalPriority misses unevaluated*, which keep their place in
\* alphabetical order among the applicators.
WrongKeywordOrder ==
    << "$dynamicRef", "$recursiveRef", "$ref", "type",
       "patternProperties", "prefixItems", "properties",
       "unevaluatedItems", "unevaluatedProperties",
       "additionalItems", "items", "additionalProperties",
       "allOf", "anyOf", "contains", "dependencies", "dependentRequired",
       "dependentSchemas", "if", "not", "oneOf", "propertyNames", "required", "title" >>

\* orderKeys, then the stable sort by evalPriority.  "type" stands for the
\* assertions that record at most one error, "title" for the annotations.
KeywordOrder ==
    << "$dynamicRef", "$recursiveRef", "$ref", "type",
       "patternProperties", "prefixItems", "properties",
       "additionalItems", "items", "additionalProperties",
       "allOf", "anyOf", "contains", "dependencies", "dependentRequired",
       "dependentSchemas", "if", "not", "oneOf", "propertyNames", "required",
       "unevaluatedItems", "unevaluatedProperties", "title" >>

Kw(s, k) == Schema[s].kws[k]
Has(s, k) == k \in DOMAIN Schema[s].kws
Evaluators(s) == Those(KeywordOrder, DOMAIN Schema[s].kws)
ReadsScope(s) == Has(s, "unevaluatedItems") \/ Has(s, "unevaluatedProperties")

Refs == {"$ref", "$dynamicRef", "$recursiveRef"}
KeyCapped == {"properties", "patternProperties", "additionalProperties", "propertyNames"}
Applicators == ToSet(KeywordOrder) \ (Refs \cup {"type", "title"})

IsObject(v) == Instance[v].kind = "object"
IsArray(v) == Instance[v].kind = "array"
Keys(v) == IF IsObject(v) THEN DOMAIN Instance[v].members ELSE {}
Items(v) == IF IsArray(v) THEN Instance[v].items ELSE <<>>
Sorted(keys) == Those(KeyOrder, keys)

\* The names that some pattern of patternProperties matches.
Matched(patterns) == UNION {p.matches : p \in ToSet(patterns)}

\* The names additionalProperties leaves to its siblings.
Covered(s) ==
    (IF Has(s, "properties") THEN DOMAIN Kw(s, "properties") ELSE {})
        \cup (IF Has(s, "patternProperties") THEN Matched(Kw(s, "patternProperties")) ELSE {})

\* Mutant: the innermost name in scope.
WrongFirstInScope(dyn, targets) ==
    LET found == Those(dyn, DOMAIN targets)
    IN IF found = <<>> THEN None ELSE targets[Last(found)]

\* The first name in scope, outermost first, that gives the reference a target.
FirstInScope(dyn, targets) ==
    LET found == Those(dyn, DOMAIN targets)
    IN IF found = <<>> THEN None ELSE targets[found[1]]

FindDynamic(kw, dyn) ==
    IF kw.name = None THEN None
    ELSE FirstInScope(dyn, [r \in {q \in DOMAIN Dynamic : kw.name \in DOMAIN Dynamic[q]}
                              |-> Dynamic[r][kw.name]])

FindRecursive(kw, dyn) ==
    IF kw.resource \notin DOMAIN Recursive THEN None ELSE FirstInScope(dyn, Recursive)

RefTarget(s, k, dyn) ==
    LET kw == Kw(s, k)
        found == IF k = "$dynamicRef" THEN FindDynamic(kw, dyn)
                 ELSE IF k = "$recursiveRef" THEN FindRecursive(kw, dyn)
                 ELSE None
    IN IF found # None THEN found ELSE kw.target

-----------------------------------------------------------------------------
(* What a keyword visits, in order *)

To(s, v, mode) == [sub |-> s, at |-> v, mode |-> mode, pos |-> 0]
Each(subs, v, mode) == [i \in DOMAIN subs |-> To(subs[i], v, mode)]
Optional(s, v) == IF s = None THEN <<>> ELSE << To(s, v, "inplace") >>
Child(v, keys, sub(_)) ==
    LET names == Sorted(keys)
    IN [i \in DOMAIN names |-> To(sub(names[i]), Instance[v].members[names[i]], "child")]
Item(v, indices, sub(_), mode) ==
    LET at == Those([i \in DOMAIN Items(v) |-> i], indices)
    IN [i \in DOMAIN at |-> [To(sub(at[i]), Items(v)[at[i]], mode) EXCEPT !.pos = at[i]]]

PatternVisits(patterns, v) ==
    FlattenSeq([i \in DOMAIN Sorted(Keys(v)) |->
        LET k == Sorted(Keys(v))[i]
            matching == Those(patterns, {p \in ToSet(patterns) : k \in p.matches})
        IN [j \in DOMAIN matching |-> To(matching[j].sub, Instance[v].members[k], "child")]])

\* An error for each of names that object v lacks.
Missing(names, v) ==
    LET absent == Those(names, ToSet(names) \ Keys(v))
    IN IF IsObject(v) THEN [i \in DOMAIN absent |-> To(None, v, "error")] ELSE <<>>

\* What each of the keys that object v has adds, in order.
ForEachKey(keys, v, steps(_)) ==
    LET names == Sorted(keys \cap Keys(v))
    IN FlattenSeq([i \in DOMAIN names |-> steps(names[i])])

\* The items past the first n, counting from 1.
Past(n, v) == {i \in DOMAIN Items(v) : i > n}
UpTo(n, v) == {i \in DOMAIN Items(v) : i <= n}
ItemsPrefix(s) == IF Has(s, "items") /\ Kw(s, "items").isPrefix THEN Len(Kw(s, "items").subs) ELSE -1
PrefixItems(s) == IF Has(s, "prefixItems") THEN Len(Kw(s, "prefixItems")) ELSE 0

\* The parts of v that keyword k of s evaluates, names and items apart; for
\* unevaluated* that is what the scope does not cover.
PropsOf(s, k, v, scope) ==
    CASE k = "properties" -> DOMAIN Kw(s, k) \cap Keys(v)
      [] k = "patternProperties" -> Matched(Kw(s, k)) \cap Keys(v)
      [] k = "additionalProperties" -> Keys(v) \ Covered(s)
      [] k = "unevaluatedProperties" -> Keys(v) \ scope.props
      [] OTHER -> {}

ItemsOf(s, k, v, scope) ==
    CASE k = "prefixItems" -> UpTo(Len(Kw(s, k)), v)
      [] k = "items" -> IF Kw(s, k).isPrefix THEN UpTo(Len(Kw(s, k).subs), v)
                        ELSE Past(PrefixItems(s), v)
      [] k = "additionalItems" -> IF ItemsPrefix(s) < 0 THEN {} ELSE Past(ItemsPrefix(s), v)
      [] k = "unevaluatedItems" -> IF scope.all THEN {} ELSE Past(scope.prefix, v) \ scope.contained
      [] OTHER -> {}

Visits(s, k, v, c) ==
    LET kw == Kw(s, k)
        props == PropsOf(s, k, v, c.scope)
        items == ItemsOf(s, k, v, c.scope)
    IN CASE k = "allOf" -> Each(kw, v, "inplace")
         [] k \in {"anyOf", "oneOf"} -> Each(kw, v, "branch")
         [] k = "not" -> << To(kw, v, "branch") >>
         [] k = "if" -> << To(kw.cond, v, "branch") >>
         [] k = "dependentSchemas" -> ForEachKey(DOMAIN kw, v, LAMBDA n : << To(kw[n], v, "inplace") >>)
         [] k = "dependencies" ->
              ForEachKey(DOMAIN kw.schemas \cup DOMAIN kw.required, v,
                         LAMBDA n : IF n \in DOMAIN kw.schemas THEN << To(kw.schemas[n], v, "inplace") >>
                                    ELSE Missing(kw.required[n], v))
         [] k = "dependentRequired" -> ForEachKey(DOMAIN kw, v, LAMBDA n : Missing(kw[n], v))
         [] k = "required" -> Missing(kw, v)
         [] k = "properties" -> Child(v, props, LAMBDA n : kw[n])
         [] k = "patternProperties" -> PatternVisits(kw, v)
         [] k = "propertyNames" ->
              LET names == Sorted(Keys(v))
              IN [i \in DOMAIN names |-> To(kw, NameValue[names[i]], "child")]
         [] k = "contains" -> Item(v, DOMAIN Items(v), LAMBDA i : kw.sub, "item")
         [] k = "prefixItems" -> Item(v, items, LAMBDA i : kw[i], "child")
         [] k = "items" -> Item(v, items, LAMBDA i : IF kw.isPrefix THEN kw.subs[i] ELSE kw.sub, "child")
         [] k \in {"additionalItems", "unevaluatedItems"} -> Item(v, items, LAMBDA i : kw, "child")
         [] OTHER -> Child(v, props, LAMBDA n : kw)

\* What the scope learns when keyword k of s is through with v.
Evaluated(s, k, v, scope) ==
    LET items == ItemsOf(s, k, v, scope)
        prefix == k = "prefixItems" \/ (k = "items" /\ Kw(s, k).isPrefix)
    IN [EmptyScope EXCEPT
          !.props = PropsOf(s, k, v, scope),
          !.prefix = IF prefix THEN Cardinality(items) ELSE 0,
          !.all = ~prefix /\ items # {}]

-----------------------------------------------------------------------------
(* Frames *)

NoBranch == [annos |-> {}, scope |-> EmptyScope]
Locals == [causes |-> NoErrors, cost |-> 0, passed |-> 0, kept |-> NoBranch, matched |-> {}]

Frame(to, c) ==
    [sub |-> to.sub, at |-> to.at, mode |-> to.mode, pos |-> to.pos,
     phase |-> "enter",    \* enter, next, loop (inside a keyword) or exit
     next |-> 1,           \* the evaluator to run
     todo |-> <<>>,        \* what that evaluator has still to visit
     acc |-> Locals,       \* its local variables
     saved |-> c,          \* the caller's context
     entered |-> FALSE,    \* run got as far as validationDepth++
     owns |-> FALSE]       \* this run set needScope

Context(root) ==
    [errors |-> NoErrors, annos |-> {}, scope |-> EmptyScope, needScope |-> FALSE,
     stopFired |-> FALSE, failCount |-> 0, refDepth |-> 0, depth |-> 0,
     dyn |-> << Schema[root].resource >>, keyCountFired |-> {},
     evals |-> 0, errCost |-> 0, overBudget |-> FALSE,
     runs |-> 0]           \* history: run calls counted by evals

\* The context in which the callee of a visit runs.
Prepared(c, mode) ==
    CASE mode = "inplace" -> [c EXCEPT !.scope = EmptyScope]
      [] mode = "child" -> [c EXCEPT !.scope = EmptyScope, !.needScope = FALSE, !.refDepth = 0]
      [] mode = "branch" -> [c EXCEPT !.errors = NoErrors, !.annos = {}, !.scope = EmptyScope,
                                      !.stopFired = FALSE]
      [] OTHER -> [c EXCEPT !.errors = NoErrors, !.annos = {}, !.scope = EmptyScope,
                            !.stopFired = FALSE, !.refDepth = 0]

Init ==
    /\ \E v \in Validations : schema = v[1] /\ instance = v[2] /\ opts = v[3]
    /\ ctx = Prepared(Context(schema), "inplace")
    /\ stack = << Frame(To(schema, instance, "inplace"), Context(schema)) >>

Finished == stack = <<>>
Top == stack[Len(stack)]
SetTop(f) == stack' = [stack EXCEPT ![Len(stack)] = f]
At(phase) == stack # <<>> /\ Top.phase = phase /\ UNCHANGED call

-----------------------------------------------------------------------------
(* run, up to its loop over the evaluators *)

Counted == [ctx EXCEPT !.evals = @ + 1, !.runs = @ + 1]
Exit == SetTop([Top EXCEPT !.phase = "exit"])

RunSkipped ==
    /\ At("enter")
    /\ ctx.overBudget
    /\ Exit
    /\ UNCHANGED ctx

RunOverLimit ==
    /\ At("enter")
    /\ ~ctx.overBudget
    /\ OverLimit(Counted)
    /\ ctx' = [Counted EXCEPT !.overBudget = TRUE]
    /\ Exit

Runs == At("enter") /\ ~ctx.overBudget /\ ~OverLimit(Counted)

RunBoolean ==
    /\ Runs
    /\ Schema[Top.sub].bool # None
    /\ ctx' = IF Schema[Top.sub].bool THEN Counted ELSE AddError(Counted)
    /\ Exit

RunTooDeep ==
    /\ Runs
    /\ Schema[Top.sub].bool = None
    /\ ctx.depth > opts.maxDepth
    /\ ctx' = AddError(Counted)
    /\ Exit

\* Mutant: no depth limit.
WrongRunEnter ==
    /\ Runs
    /\ Schema[Top.sub].bool = None
    /\ ctx' = [Counted EXCEPT !.needScope = @ \/ ReadsScope(Top.sub), !.depth = @ + 1]
    /\ SetTop([Top EXCEPT !.phase = "next", !.entered = TRUE,
                          !.owns = ReadsScope(Top.sub) /\ ~ctx.needScope])

RunEnter ==
    /\ Runs
    /\ Schema[Top.sub].bool = None
    /\ ctx.depth <= opts.maxDepth
    /\ ctx' = [Counted EXCEPT !.needScope = @ \/ ReadsScope(Top.sub),
                              !.dyn = IF Schema[Top.sub].crosses
                                      THEN Append(@, Schema[Top.sub].resource) ELSE @,
                              !.depth = @ + 1]
    /\ SetTop([Top EXCEPT !.phase = "next", !.entered = TRUE,
                          !.owns = ReadsScope(Top.sub) /\ ~ctx.needScope])

\* Mutant: needScope stays set.
WrongLeft(f) ==
    IF ~f.entered THEN ctx
    ELSE [ctx EXCEPT !.dyn = IF Schema[f.sub].crosses THEN Front(@) ELSE @, !.depth = @ - 1]

\* The deferred functions of run.
Left(f) ==
    IF ~f.entered THEN ctx
    ELSE [ctx EXCEPT !.needScope = @ /\ ~f.owns,
                     !.dyn = IF Schema[f.sub].crosses THEN Front(@) ELSE @,
                     !.depth = @ - 1]

-----------------------------------------------------------------------------
(* The loop over the evaluators *)

\* The evaluator that frame f is in, or comes to next.
Keyword(f) == Evaluators(f.sub)[f.next]

LoopEnds ==
    /\ At("next")
    /\ ShouldStop(ctx) \/ Top.next > Len(Evaluators(Top.sub))
    /\ Exit
    /\ UNCHANGED ctx

\* The next evaluator to run is one of keywords.
Starts(keywords) ==
    /\ At("next")
    /\ ~ShouldStop(ctx)
    /\ Top.next <= Len(Evaluators(Top.sub))
    /\ Keyword(Top) \in keywords

Skip == SetTop([Top EXCEPT !.next = @ + 1])
Loop(visits) == SetTop([Top EXCEPT !.phase = "loop", !.acc = Locals, !.todo = visits])

Assertion ==
    /\ Starts({"type"})
    /\ ctx' = IF Top.at \in Kw(Top.sub, "type") THEN AddError(ctx) ELSE ctx
    /\ Skip

Annotate ==
    /\ Starts({"title"})
    /\ ctx' = Record(ctx, Top, "title", EmptyScope)
    /\ Skip

\* Mutant: a hop that was refused is taken back.
RefDepthUnderflows ==
    /\ Starts(Refs)
    /\ ctx.refDepth + 1 > opts.maxRefDepth \/ RefTarget(Top.sub, Keyword(Top), ctx.dyn) = None
    /\ ctx' = AddError([ctx EXCEPT !.refDepth = @ - 1])
    /\ Skip

\* Mutant: a reference with no target is not handled.
NoTargetIsStuck ==
    /\ Starts(Refs)
    /\ ctx.refDepth + 1 > opts.maxRefDepth
    /\ ctx' = AddError(ctx)
    /\ Skip

RefFails ==
    /\ Starts(Refs)
    /\ ctx.refDepth + 1 > opts.maxRefDepth \/ RefTarget(Top.sub, Keyword(Top), ctx.dyn) = None
    /\ ctx' = AddError(ctx)
    /\ Skip

\* Mutant: no limit on the hops.
WrongRefEnters ==
    /\ Starts(Refs)
    /\ RefTarget(Top.sub, Keyword(Top), ctx.dyn) # None
    /\ ctx' = [ctx EXCEPT !.refDepth = @ + 1]
    /\ Loop(<< To(RefTarget(Top.sub, Keyword(Top), ctx.dyn), Top.at, "inplace") >>)

RefEnters ==
    /\ Starts(Refs)
    /\ ctx.refDepth + 1 <= opts.maxRefDepth
    /\ RefTarget(Top.sub, Keyword(Top), ctx.dyn) # None
    /\ ctx' = [ctx EXCEPT !.refDepth = @ + 1]
    /\ Loop(<< To(RefTarget(Top.sub, Keyword(Top), ctx.dyn), Top.at, "inplace") >>)

Overlong(v) == opts.maxKeyCount > 0 /\ Cardinality(Keys(v)) > opts.maxKeyCount

\* checkMaxKeyCount fails: the keyword is skipped, with an error the first
\* time at this location.
TooManyKeys ==
    /\ Starts(KeyCapped)
    /\ Overlong(Top.at)
    /\ ctx' = IF Top.at \in ctx.keyCountFired THEN ctx
              ELSE AddError([ctx EXCEPT !.keyCountFired = @ \cup {Top.at}])
    /\ Skip

Apply ==
    /\ Starts(Applicators)
    /\ Keyword(Top) \in KeyCapped => ~Overlong(Top.at)
    /\ Loop(Visits(Top.sub, Keyword(Top), Top.at, ctx))
    /\ UNCHANGED ctx

-----------------------------------------------------------------------------
(* Inside a keyword *)

\* A name that is missing.  Only required looks whether to stop first.
MissingName ==
    /\ At("loop")
    /\ Top.todo # <<>>
    /\ Head(Top.todo).mode = "error"
    /\ ctx' = IF Keyword(Top) = "required" /\ ShouldStop(ctx) THEN ctx ELSE AddError(ctx)
    /\ SetTop([Top EXCEPT !.todo = Tail(@)])

Visit ==
    /\ At("loop")
    /\ Top.todo # <<>>
    /\ Head(Top.todo).mode # "error"
    /\ ctx' = Prepared(ctx, Head(Top.todo).mode)
    /\ stack' = Append([stack EXCEPT ![Len(stack)].todo = Tail(@)], Frame(Head(Top.todo), ctx))

\* What the keyword does after its last visit.
AnyOfEnds(f, c) ==
    IF f.acc.passed = 0 THEN AddCausesError(c, f.acc.causes, f.acc.cost) ELSE c

OneOfEnds(f, c) ==
    CASE f.acc.passed = 0 -> AddCausesError(c, f.acc.causes, f.acc.cost)
      [] f.acc.passed = 1 -> AddBranchAnnotations(c, f.acc.kept)
      [] OTHER -> c

ContainsEnds(f, c) ==
    LET kw == Kw(f.sub, "contains")
        count == Cardinality(f.acc.matched)
        low == IF count < kw.min THEN AddError(c) ELSE c
        high == IF kw.max # None /\ count > kw.max THEN AddError(low) ELSE low
    IN IF IsArray(f.at) THEN
          IF count = 0 THEN high
          ELSE Record(high, f, "contains", [EmptyScope EXCEPT !.contained = f.acc.matched])
       ELSE c

Ended(f, k, c) ==
    CASE k \in Refs -> [c EXCEPT !.refDepth = @ - 1]
      [] k = "anyOf" -> AnyOfEnds(f, c)
      [] k = "oneOf" -> OneOfEnds(f, c)
      [] k = "contains" -> ContainsEnds(f, c)
      [] OTHER -> IF Evaluated(f.sub, k, f.at, c.scope) = EmptyScope THEN c
                  ELSE Record(c, f, k, Evaluated(f.sub, k, f.at, c.scope))

KeywordEnds ==
    /\ At("loop")
    /\ Top.todo = <<>>
    /\ ctx' = Ended(Top, Keyword(Top), ctx)
    /\ SetTop([Top EXCEPT !.phase = "next", !.next = @ + 1])

\* What the keyword of frame f does with a branch's result r.
Both(f, c) == [frame |-> f, ctx |-> c]

NotBranch(f, c, r) ==
    LET d == RefundErrors(c, r.cost)
    IN Both(f, IF r.errors.n = 0 THEN AddError(d) ELSE d)

\* Mutant: the annotations of a condition that failed are kept.
WrongIfBranch(f, c, r) ==
    LET kw == Kw(f.sub, "if")
        d == AddBranchAnnotations(RefundErrors(c, r.cost), r)
    IN Both([f EXCEPT !.todo = Optional(IF r.errors.n = 0 THEN kw.then ELSE kw.else, f.at)], d)

IfBranch(f, c, r) ==
    LET kw == Kw(f.sub, "if")
        d == RefundErrors(c, r.cost)
    IN IF r.errors.n = 0
       THEN Both([f EXCEPT !.todo = Optional(kw.then, f.at)], AddBranchAnnotations(d, r))
       ELSE Both([f EXCEPT !.todo = Optional(kw.else, f.at)], d)

\* Mutants: the charge of the causes that a first pass drops is not given
\* back; a pass ends the keyword though its scope is still to be completed;
\* the annotations of a failing branch are kept.
AnyOfKeepsCharge(f, c, r) ==
    IF r.errors.n = 0
    THEN Both([f EXCEPT !.acc = [Locals EXCEPT !.passed = 1]],
              AddBranchAnnotations(RefundErrors(c, r.cost), r))
    ELSE Both([f EXCEPT !.acc.causes = Join(@, r.errors), !.acc.cost = @ + r.cost], c)

AnyOfStopsAtPass(f, c, r) ==
    IF r.errors.n = 0
    THEN Both([f EXCEPT !.acc = [Locals EXCEPT !.passed = 1], !.todo = IF ~Public THEN <<>> ELSE @],
              AddBranchAnnotations(RefundErrors(c, r.cost + f.acc.cost), r))
    ELSE Both([f EXCEPT !.acc.causes = Join(@, r.errors), !.acc.cost = @ + r.cost], c)

AnyOfKeepsFailed(f, c, r) ==
    IF r.errors.n = 0
    THEN Both([f EXCEPT !.acc = [Locals EXCEPT !.passed = 1]],
              AddBranchAnnotations(RefundErrors(c, r.cost + f.acc.cost), r))
    ELSE Both([f EXCEPT !.acc.causes = Join(@, r.errors), !.acc.cost = @ + r.cost],
              AddBranchAnnotations(c, r))

AnyOfBranch(f, c, r) ==
    LET passes == r.errors.n = 0
        first == passes /\ f.acc.passed = 0
        d == IF passes \/ f.acc.passed > 0 THEN RefundErrors(c, r.cost) ELSE c
        e == IF first THEN RefundErrors(d, f.acc.cost) ELSE d
        acc == IF passes THEN [Locals EXCEPT !.passed = 1]
               ELSE IF f.acc.passed > 0 THEN f.acc
               ELSE [f.acc EXCEPT !.causes = Join(@, r.errors), !.cost = @ + r.cost]
    IN Both([f EXCEPT !.acc = acc, !.todo = IF passes /\ ~c.needScope /\ ~Public THEN <<>> ELSE @],
            IF passes THEN AddBranchAnnotations(e, r) ELSE e)

\* The second passing branch fails the keyword and ends it.
OneOfBranch(f, c, r) ==
    LET passes == r.errors.n = 0
        d == IF passes \/ f.acc.passed > 0 THEN RefundErrors(c, r.cost) ELSE c
    IN CASE passes /\ f.acc.passed = 0 ->
              Both([f EXCEPT !.acc = [Locals EXCEPT !.passed = 1,
                                                    !.kept = [annos |-> r.annos, scope |-> r.scope]]],
                   RefundErrors(d, f.acc.cost))
         [] passes /\ f.acc.passed = 1 ->
              Both([f EXCEPT !.acc.passed = 2, !.todo = <<>>], AddError(d))
         [] ~passes /\ f.acc.passed = 0 ->
              Both([f EXCEPT !.acc.causes = Join(@, r.errors), !.acc.cost = @ + r.cost], d)
         [] OTHER -> Both(f, d)

ContainsItem(f, c, r) ==
    Both([f EXCEPT !.acc.matched = IF r.errors.n = 0 THEN @ \cup {r.pos} ELSE @],
         RefundErrors(c, r.cost))

Absorb(f, k, c, r) ==
    CASE k = "not" -> NotBranch(f, c, r)
      [] k = "if" -> IfBranch(f, c, r)
      [] k = "anyOf" -> AnyOfBranch(f, c, r)
      [] k = "oneOf" -> OneOfBranch(f, c, r)
      [] OTHER -> ContainsItem(f, c, r)

-----------------------------------------------------------------------------
(* Returns, one per way of calling run *)

\* evaluate: a subschema that passed adds its annotations to the scope.
ReturnInPlace ==
    /\ At("exit")
    /\ Top.mode = "inplace"
    /\ LET c == Left(Top)
           scope == IF c.failCount = Top.saved.failCount
                    THEN Merge(Top.saved.scope, c.scope) ELSE Top.saved.scope
       IN ctx' = [c EXCEPT !.scope = scope]
    /\ stack' = Front(stack)

\* evaluateAt
ReturnChild ==
    /\ At("exit")
    /\ Top.mode = "child"
    /\ ctx' = [Left(Top) EXCEPT !.scope = Top.saved.scope, !.needScope = Top.saved.needScope,
                                !.refDepth = Top.saved.refDepth]
    /\ stack' = Front(stack)

\* Mutant: a failure inside a branch is one of its caller.
FailCountLeaks(f, c) ==
    [c EXCEPT !.errors = f.saved.errors, !.annos = f.saved.annos, !.scope = f.saved.scope,
              !.stopFired = f.saved.stopFired,
              !.refDepth = IF f.mode = "item" THEN f.saved.refDepth ELSE @]

\* evaluateBranch gives the caller its own buffers, scope and counts back.
Restored(f, c) ==
    [c EXCEPT !.errors = f.saved.errors, !.annos = f.saved.annos, !.scope = f.saved.scope,
              !.stopFired = f.saved.stopFired, !.failCount = f.saved.failCount,
              !.refDepth = IF f.mode = "item" THEN f.saved.refDepth ELSE @]

\* evaluateBranch, and what its caller does with the result.
ReturnBranch ==
    /\ At("exit")
    /\ Top.mode \in {"branch", "item"}
    /\ LET c == Left(Top)
           r == [errors |-> c.errors, annos |-> c.annos, scope |-> c.scope,
                 cost |-> c.errCost - Top.saved.errCost, pos |-> Top.pos]
           caller == stack[Len(stack) - 1]
           both == Absorb(caller, Keyword(caller), Restored(Top, c), r)
       IN /\ ctx' = both.ctx
          /\ stack' = [Front(stack) EXCEPT ![Len(stack) - 1] = both.frame]

Next ==
    \/ RunSkipped \/ RunOverLimit \/ RunBoolean \/ RunTooDeep \/ RunEnter
    \/ LoopEnds \/ Assertion \/ Annotate
    \/ RefFails \/ RefEnters \/ TooManyKeys \/ Apply
    \/ Visit \/ MissingName \/ KeywordEnds
    \/ ReturnInPlace \/ ReturnChild \/ ReturnBranch

\* A goroutine runs the walk to its end.
Spec == Init /\ [][Next]_vars /\ WF_vars(Next)

-----------------------------------------------------------------------------
(* Properties *)

ScopeType == [props : SUBSET ToSet(KeyOrder), prefix : Nat, all : BOOLEAN, contained : SUBSET Nat]
ErrorsType == [n : Nat, w : Nat]

ContextOK(c) ==
    /\ c.errors \in ErrorsType
    /\ c.scope \in ScopeType
    /\ {c.needScope, c.stopFired, c.overBudget} \subseteq BOOLEAN
    /\ {c.failCount, c.refDepth, c.depth, c.evals, c.errCost, c.runs} \subseteq Nat
    /\ c.keyCountFired \subseteq Value

FrameOK(f) ==
    /\ f.sub \in Sub /\ f.at \in Value
    /\ f.mode \in {"inplace", "child", "branch", "item"}
    /\ f.phase \in {"enter", "next", "loop", "exit"}
    /\ f.next \in 1 .. Len(Evaluators(f.sub)) + 1
    /\ \A t \in ToSet(f.todo) : (t.sub \in Sub \/ t.mode = "error") /\ t.at \in Value
    /\ DOMAIN f.acc = DOMAIN Locals
    /\ f.acc.causes \in ErrorsType /\ f.acc.cost \in Nat /\ f.acc.passed \in 0..2
    /\ ContextOK(f.saved)

TypeOK ==
    /\ call \in Validations
    /\ ContextOK(ctx)
    /\ \A f \in ToSet(stack) : FrameOK(f)

\* The weight of the errors that are held: in the buffer being filled, in the
\* buffers set aside while a branch runs, and as causes an anyOf or oneOf has
\* collected.
IsBranch(f) == f.mode \in {"branch", "item"}
Aside(f) ==
    (IF IsBranch(f) THEN f.saved.errors.w ELSE 0)
        + (IF f.phase = "loop" THEN f.acc.causes.w ELSE 0)
Held ==
    LET upTo[i \in 0..Len(stack)] == IF i = 0 THEN 0 ELSE upTo[i - 1] + Aside(stack[i])
    IN ctx.errors.w + upTo[Len(stack)]

\* The budget counts the evaluations made and the errors held, whatever is
\* dropped on the way: by the error cap, by a passing anyOf or oneOf, by not,
\* if and contains.  A refund that is missed or made twice shows here.
Ledger == ctx.errCost = Held /\ ctx.evals = ctx.runs + Held

\* "WithMaxEvaluations caps how many subschema evaluations one validation may
\* perform ... each error held also counts": unless the walk is being
\* abandoned, evaluations and errors held together are within the limit.
WithinBudget ==
    (opts.limit >= 0 /\ ~ctx.overBudget) => ctx.runs + Held <= opts.limit

\* Whatever schema graph and instance meet, cyclic references included, the
\* walk nests no deeper than WithMaxValidationDepth allows: with a negative
\* limit, not at all.
DepthBounded == Len(stack) <= 1 \/ Len(stack) <= opts.maxDepth + 2

\* "The $ref depth limit counts hops at one instance location": no location
\* ever has more than maxRefDepth references open at it (none at all with a
\* negative limit), though evaluateAt and contains reset the counter for every
\* child.
OpenRefs(v) ==
    {i \in DOMAIN stack :
        /\ stack[i].at = v /\ stack[i].phase = "loop"
        /\ Keyword(stack[i]) \in Refs}
HopsBounded == \A f \in ToSet(stack) : Cardinality(OpenRefs(f.at)) <= Larger(opts.maxRefDepth, 0)

\* When a run call is over, the walk is where the caller left it: depths,
\* scope flag, dynamic scope, and for a branch the caller's errors, failure
\* count and stop flag but for the error the keyword itself may now add.
RunRestores ==
    [][Len(stack') < Len(stack) =>
          LET saved == Top.saved IN
          /\ ctx'.depth = saved.depth /\ ctx'.refDepth = saved.refDepth
          /\ ctx'.needScope = saved.needScope /\ ctx'.dyn = saved.dyn
          /\ IsBranch(Top) =>
                /\ ctx'.errors.n \in {saved.errors.n, saved.errors.n + 1}
                /\ ctx'.failCount \in {saved.failCount, saved.failCount + 1}
                /\ ctx'.stopFired => saved.stopFired \/ ctx'.errors.n > saved.errors.n]_vars

\* Every validation ends: cycles in the schema graph are cut by the instance,
\* by the $ref limit or by the depth limit.
Terminates == <>Finished

\* "When an object has more keys than n, validation surfaces a ValidationError
\* with Keyword $maxKeyCount" (options.go): an overlong instance is not valid
\* under a schema with an object applicator of its own.
KeyCountSurfaces ==
    (Finished /\ ~ctx.overBudget /\ ~opts.stop /\ Overlong(instance)
        /\ \E k \in KeyCapped : Has(schema, k)) => ctx.errors.n > 0

-----------------------------------------------------------------------------
(* The inductive invariant of the call stack: what each frame saved, and what *)
(* its callee, or the walk if it is the top, must find in the context.        *)

ContextFields ==
    {"errors", "annos", "scope", "needScope", "stopFired", "failCount", "refDepth", "depth",
     "dyn", "keyCountFired", "evals", "errCost", "overBudget", "runs"}
FrameFields ==
    {"sub", "at", "mode", "pos", "phase", "next", "todo", "acc", "saved", "entered", "owns"}

Shape(c) ==
    /\ DOMAIN c = ContextFields
    /\ c.depth \in Nat /\ c.refDepth \in Nat /\ c.errors.n \in Nat
    /\ c.needScope \in BOOLEAN
    /\ c.dyn \in Seq(ToSet(c.dyn))

\* What the caller of f gave it.
GivenNeed(f) == f.mode # "child" /\ f.saved.needScope
GivenHops(f) == IF f.mode \in {"inplace", "branch"} THEN f.saved.refDepth ELSE 0

\* c is the context of frame f as far as f is responsible for it.
Owes(f, c) ==
    /\ c.depth = f.saved.depth + IF f.entered THEN 1 ELSE 0
    /\ c.refDepth = GivenHops(f) + IF f.phase = "loop" /\ Keyword(f) \in Refs THEN 1 ELSE 0
    /\ c.needScope <=> GivenNeed(f) \/ f.owns
    /\ f.owns => f.entered /\ ~GivenNeed(f)
    /\ c.dyn = IF f.entered /\ Schema[f.sub].crosses
               THEN Append(f.saved.dyn, Schema[f.sub].resource) ELSE f.saved.dyn

FrameInv(f) ==
    /\ DOMAIN f = FrameFields
    /\ Shape(f.saved)
    /\ {f.entered, f.owns} \subseteq BOOLEAN
    /\ f.phase = "enter" => ~f.entered
    /\ f.phase \in {"next", "loop"} => f.entered

WalkInv ==
    /\ opts.maxDepth \in Int
    /\ stack \in Seq(ToSet(stack))
    /\ Shape(ctx)
    /\ \A i \in 1..Len(stack) :
          /\ FrameInv(stack[i])
          /\ stack[i].saved.depth = i - 1
          /\ stack[i].entered => i - 1 <= opts.maxDepth
    /\ \A i \in 1..Len(stack) - 1 :
          stack[i].phase = "loop" /\ Owes(stack[i], stack[i + 1].saved)
    /\ stack # <<>> => Owes(Top, ctx)

-----------------------------------------------------------------------------
(* The inductive invariant of the accounts: what a frame saved tells how much *)
(* was set aside below it, and its callee, or the walk if it is the top, must *)
(* have set aside what it does on top of that.                                *)

Balance(c) == c.errCost - c.errors.w
Settles(f, c) == Balance(c) = Balance(f.saved) + Aside(f)

ContextInv(c) ==
    /\ ContextOK(c)
    /\ Balance(c) \in Nat
    /\ c.evals = c.runs + c.errCost

InLimits(c) ==
    /\ c.overBudget \/ ~OverLimit(c)
    /\ c.refDepth <= Larger(opts.maxRefDepth, 0)

\* What a keyword may visit at v: v itself, a part of it, or an error to add.
VisitsOf(v) ==
    [sub : Sub, at : {v}, mode : {"inplace", "branch"}, pos : {0}]
        \cup [sub : Sub, at : {w \in Value : Height[w] < Height[v]}, mode : {"child", "item"}, pos : Nat]
        \cup [sub : {None}, at : {v}, mode : {"error"}, pos : {0}]

\* The callee g of frame f is in place or in a part of the instance.
Nested(f, g) ==
    IF g.mode \in {"inplace", "branch"} THEN g.at = f.at ELSE Height[g.at] < Height[f.at]

\* Only an anyOf or oneOf that nothing has passed has causes, at their cost.
CausesInv(f) ==
    /\ f.next <= Len(Evaluators(f.sub))
    /\ f.acc.cost = f.acc.causes.w
    /\ f.acc.passed > 0 \/ Keyword(f) \notin {"anyOf", "oneOf"} => f.acc.causes.w = 0

AccountInv(f) ==
    /\ FrameOK(f) /\ ContextInv(f.saved)
    /\ f.pos \in Nat /\ f.acc.matched \subseteq Nat /\ f.acc.kept.scope \in ScopeType
    /\ f.todo \in Seq(VisitsOf(f.at))
    /\ f.phase = "loop" => CausesInv(f)

LedgerInv ==
    /\ call \in Validations
    /\ ContextInv(ctx) /\ InLimits(ctx)
    /\ \A i \in 1..Len(stack) : AccountInv(stack[i]) /\ InLimits(stack[i].saved)
    /\ \A i \in 1..Len(stack) - 1 :
          Settles(stack[i], stack[i + 1].saved) /\ Nested(stack[i], stack[i + 1])
    /\ stack = <<>> => Balance(ctx) = 0
    /\ stack # <<>> =>
          /\ Settles(Top, ctx)
          /\ stack[1].mode = "inplace"
          /\ Balance(stack[1].saved) = 0 /\ stack[1].saved.refDepth = 0

\* Along every validation the call stack and its contexts fit together, the
\* budget balances and the three limits hold.
LimitsHold ==
    /\ TypeOK /\ WalkInv /\ LedgerInv
    /\ Ledger /\ WithinBudget /\ DepthBounded /\ HopsBounded

=============================================================================
