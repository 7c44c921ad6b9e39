----------------------------- MODULE Limits_proofs -----------------------------
(***************************************************************************)
(* Proofs about Evaluator for any graph of subschemas, any instances and    *)
(* any options: the budget balances, and no location has more references    *)
(* open than its limit.                                                     *)
(***************************************************************************)
EXTENDS Evaluator_proofs, Recursion_proofs, FiniteSetTheorems

(* A context in the middle of a step: ContextInv, but the charges may yet have *)
(* to be settled with the caller's.                                            *)
Accounts(c) ==
    /\ DOMAIN c = ContextFields
    /\ c.errors \in ErrorsType
    /\ c.scope \in ScopeType
    /\ c.needScope \in BOOLEAN /\ c.stopFired \in BOOLEAN /\ c.overBudget \in BOOLEAN
    /\ c.failCount \in Nat /\ c.refDepth \in Nat /\ c.depth \in Nat /\ c.runs \in Nat
    /\ c.evals \in Int /\ c.errCost \in Int
    /\ c.keyCountFired \subseteq Value
    /\ c.evals = c.runs + c.errCost
    /\ c.overBudget \/ ~OverLimit(c)
    /\ c.refDepth <= Larger(opts.maxRefDepth, 0)

LEMMA OptionsTyped ==
  ASSUME call \in Validations
  PROVE  /\ opts \in OptionsType /\ schema \in Sub /\ instance \in Value
         /\ opts.limit \in Int /\ opts.maxErrors \in Int /\ opts.maxRefDepth \in Int
         /\ opts.stop \in BOOLEAN
BY ValidationAssumption DEF call, OptionsType

LEMMA AccountsOfContext ==
  ASSUME NEW c, ContextInv(c), InLimits(c), Shape(c)
  PROVE  Accounts(c) /\ Balance(c) \in Nat
BY DEF ContextInv, ContextOK, InLimits, Shape, Accounts

LEMMA ContextOfAccounts ==
  ASSUME NEW c, Accounts(c), Balance(c) \in Nat
  PROVE  ContextInv(c) /\ InLimits(c)
<1>1. c.errors.w \in Nat
  BY DEF Accounts, ErrorsType
<1>2. c.errCost = Balance(c) + c.errors.w
  BY <1>1 DEF Accounts, Balance
<1>3. c.errCost \in Nat /\ c.evals \in Nat
  BY <1>1, <1>2 DEF Accounts
<1>4. QED
  BY <1>3 DEF ContextInv, ContextOK, InLimits, Accounts

-----------------------------------------------------------------------------
(* What the operations on a context do to its accounts *)

LEMMA RefundAccounts ==
  ASSUME opts.limit \in Int, NEW c, Accounts(c), NEW cost \in Nat
  PROVE  /\ Accounts(RefundErrors(c, cost))
         /\ Balance(RefundErrors(c, cost)) = Balance(c) - cost
         /\ RefundErrors(c, cost).errors = c.errors
<1> DEFINE d == RefundErrors(c, cost)
<1>1. /\ DOMAIN d = ContextFields /\ d.errors = c.errors /\ d.scope = c.scope
      /\ d.needScope = c.needScope /\ d.stopFired = c.stopFired
      /\ d.overBudget = c.overBudget /\ d.failCount = c.failCount
      /\ d.refDepth = c.refDepth /\ d.depth = c.depth /\ d.runs = c.runs
      /\ d.keyCountFired = c.keyCountFired
      /\ d.evals = c.evals - cost /\ d.errCost = c.errCost - cost
  BY DEF RefundErrors, Accounts, ContextFields
<1> HIDE DEF d
<1>2. Accounts(d)
  BY <1>1 DEF Accounts, OverLimit
<1>3. Balance(d) = Balance(c) - cost
  BY <1>1 DEF Balance, Accounts, ErrorsType
<1>4. QED
  BY <1>1, <1>2, <1>3 DEF d

(* An error with causes whose charge is already in the accounts. *)
LEMMA ErrorAccounts ==
  ASSUME opts.limit \in Int, opts.stop \in BOOLEAN, NEW c, Accounts(c),
         NEW causes, causes.w \in Nat
  PROVE  /\ Accounts(AddCausesError(c, causes, causes.w))
         /\ Balance(AddCausesError(c, causes, causes.w)) = Balance(c) - causes.w
<1> DEFINE failed == [c EXCEPT !.failCount = @ + 1]
           held == [n |-> c.errors.n + 1, w |-> c.errors.w + causes.w + Charge]
           charged == [failed EXCEPT !.errors = held, !.stopFired = @ \/ opts.stop]
           e == ChargeErrors(charged, Charge)
<1>1. Accounts(failed) /\ Balance(failed) = Balance(c)
  BY DEF Accounts, ContextFields, OverLimit, Balance
<1>2. CASE AtCap(c)
  <2>1. AddCausesError(c, causes, causes.w) = RefundErrors(failed, causes.w)
    BY <1>2 DEF AddCausesError
  <2> HIDE DEF failed
  <2>2. QED
    BY <1>1, <2>1, RefundAccounts
<1>3. CASE ~AtCap(c)
  <2>1. AddCausesError(c, causes, causes.w) = e
    BY <1>3 DEF AddCausesError
  <2>2. c.errors.n \in Nat /\ c.errors.w \in Nat /\ Charge \in Nat
    BY ChargeAssumption DEF Accounts, ErrorsType
  <2>3. held \in ErrorsType /\ held.w = c.errors.w + causes.w + Charge
    BY <2>2 DEF ErrorsType
  <2> HIDE DEF held
  <2>4. /\ DOMAIN charged = ContextFields /\ charged.errors = held
        /\ charged.scope = failed.scope /\ charged.needScope = failed.needScope
        /\ charged.stopFired = (failed.stopFired \/ opts.stop)
        /\ charged.overBudget = failed.overBudget /\ charged.failCount = failed.failCount
        /\ charged.refDepth = failed.refDepth /\ charged.depth = failed.depth
        /\ charged.runs = failed.runs /\ charged.keyCountFired = failed.keyCountFired
        /\ charged.evals = failed.evals /\ charged.errCost = failed.errCost
    BY DEF Accounts, ContextFields
  <2>5. failed.errors = c.errors /\ failed.errCost = c.errCost
    BY DEF Accounts, ContextFields
  <2> HIDE DEF failed, charged
  <2>6. /\ DOMAIN e = ContextFields /\ e.errors = charged.errors
        /\ e.scope = charged.scope /\ e.needScope = charged.needScope
        /\ e.stopFired = charged.stopFired /\ e.failCount = charged.failCount
        /\ e.refDepth = charged.refDepth /\ e.depth = charged.depth
        /\ e.runs = charged.runs /\ e.keyCountFired = charged.keyCountFired
        /\ e.evals = charged.evals + Charge /\ e.errCost = charged.errCost + Charge
        /\ e.overBudget = (charged.overBudget \/ OverLimit(e))
    BY <2>4 DEF ChargeErrors, OverLimit, ContextFields
  <2> HIDE DEF e
  <2>7. OverLimit(e) \in BOOLEAN
    BY DEF OverLimit
  <2>8. Accounts(e)
    BY <1>1, <2>2, <2>3, <2>4, <2>6, <2>7 DEF Accounts
  <2>9. Balance(e) = Balance(c) - causes.w
    <3>1. c.errCost \in Int
      BY DEF Accounts
    <3>2. QED
      BY <2>2, <2>3, <2>4, <2>5, <2>6, <3>1 DEF Balance
  <2>10. QED
    BY <2>1, <2>8, <2>9
<1>4. QED
  BY <1>2, <1>3

LEMMA PlainErrorAccounts ==
  ASSUME opts.limit \in Int, opts.stop \in BOOLEAN, NEW c, Accounts(c)
  PROVE  Accounts(AddError(c)) /\ Balance(AddError(c)) = Balance(c)
<1>1. NoErrors.w = 0 /\ AddError(c) = AddCausesError(c, NoErrors, NoErrors.w)
  BY DEF AddError, NoErrors
<1>2. Balance(c) \in Int
  BY DEF Balance, Accounts, ErrorsType
<1> HIDE DEF NoErrors
<1>3. QED
  BY <1>1, <1>2, ErrorAccounts

LEMMA MergeTyped ==
  ASSUME NEW s \in ScopeType, NEW o \in ScopeType
  PROVE  Merge(s, o) \in ScopeType
BY DEF Merge, ScopeType, Larger

LEMMA EmptyTyped == EmptyScope \in ScopeType
BY DEF EmptyScope, ScopeType

(* Scopes and annotations have no part in the accounts. *)
LEMMA ScopeAccounts ==
  ASSUME NEW c, Accounts(c), NEW scope \in ScopeType, NEW annos,
         NEW d, \/ d = [c EXCEPT !.scope = scope]
                \/ d = [c EXCEPT !.scope = scope, !.annos = annos]
                \/ d = [c EXCEPT !.annos = annos, !.scope = scope]
  PROVE  Accounts(d) /\ Balance(d) = Balance(c)
BY DEF Accounts, Balance, ContextFields, OverLimit

LEMMA AnnotationAccounts ==
  ASSUME NEW c, Accounts(c)
  PROVE  /\ \A f, k, evaluated :
              evaluated \in ScopeType =>
                /\ Accounts(Record(c, f, k, evaluated))
                /\ Balance(Record(c, f, k, evaluated)) = Balance(c)
         /\ \A branch :
              branch.scope \in ScopeType =>
                /\ Accounts(AddBranchAnnotations(c, branch))
                /\ Balance(AddBranchAnnotations(c, branch)) = Balance(c)
<1>1. ASSUME NEW f, NEW k, NEW evaluated \in ScopeType
      PROVE  /\ Accounts(Record(c, f, k, evaluated))
             /\ Balance(Record(c, f, k, evaluated)) = Balance(c)
  <2> DEFINE scope == IF c.needScope THEN Merge(c.scope, evaluated) ELSE c.scope
             annos == IF Public THEN c.annos \cup {[sub |-> f.sub, at |-> f.at, kw |-> k]}
                      ELSE c.annos
  <2>1. Record(c, f, k, evaluated) = [c EXCEPT !.scope = scope, !.annos = annos]
    BY DEF Record, Accounts, ContextFields
  <2>2. scope \in ScopeType
    BY MergeTyped DEF Accounts
  <2> DEFINE d == Record(c, f, k, evaluated)
  <2> HIDE DEF scope, d
  <2>3. PICK a : d = [c EXCEPT !.scope = scope, !.annos = a]
    BY <2>1 DEF d
  <2>4. Accounts(d) /\ Balance(d) = Balance(c)
    BY <2>2, <2>3 DEF Accounts, Balance, ContextFields, OverLimit
  <2>5. QED
    BY <2>4 DEF d
<1>2. ASSUME NEW branch, branch.scope \in ScopeType
      PROVE  /\ Accounts(AddBranchAnnotations(c, branch))
             /\ Balance(AddBranchAnnotations(c, branch)) = Balance(c)
  <2> DEFINE scope == Merge(c.scope, branch.scope)
             annos == c.annos \cup branch.annos
  <2>1. AddBranchAnnotations(c, branch) = [c EXCEPT !.annos = annos, !.scope = scope]
    BY DEF AddBranchAnnotations, Accounts, ContextFields
  <2>2. scope \in ScopeType
    BY <1>2, MergeTyped DEF Accounts
  <2> HIDE DEF scope, annos
  <2>3. QED
    BY <2>1, <2>2, ScopeAccounts
<1>3. QED
  BY <1>1, <1>2

-----------------------------------------------------------------------------
(* What a keyword may visit, and what its scope may learn *)

LEMMA SequenceOf ==
  ASSUME NEW S, NEW n \in Nat, NEW t \in [1..n -> S]
  PROVE  t \in Seq(S)
BY SeqDef

Keywords ==
    { "$dynamicRef", "$recursiveRef", "$ref", "type",
      "patternProperties", "prefixItems", "properties",
      "additionalItems", "items", "additionalProperties",
      "allOf", "anyOf", "contains", "dependencies", "dependentRequired",
      "dependentSchemas", "if", "not", "oneOf", "propertyNames", "required",
      "unevaluatedItems", "unevaluatedProperties", "title" }

LEMMA KeywordOrderTyped ==
  /\ KeywordOrder \in Seq(Keywords)
  /\ Applicators \subseteq Keywords \ {"$dynamicRef", "$recursiveRef", "$ref", "type", "title"}
<1>1. KeywordOrder \in Seq(Keywords)
  BY DEF KeywordOrder, Keywords
<1>2. ToSet(KeywordOrder) \subseteq Keywords
  BY <1>1 DEF ToSet
<1>3. QED
  BY <1>1, <1>2 DEF Applicators, Refs

LEMMA EvaluatorsTyped ==
  ASSUME NEW s
  PROVE  /\ Evaluators(s) \in Seq(DOMAIN Schema[s].kws) /\ Len(Evaluators(s)) \in Nat
         /\ \A i \in 1..Len(Evaluators(s)) : Evaluators(s)[i] \in DOMAIN Schema[s].kws
<1>1. KeywordOrder \in Seq(Keywords)
  BY KeywordOrderTyped
<1>2. Those(KeywordOrder, DOMAIN Schema[s].kws) \in Seq(Keywords \cap DOMAIN Schema[s].kws)
  BY <1>1, ThoseElements
<1>3. Evaluators(s) \in Seq(DOMAIN Schema[s].kws)
  BY <1>2, SeqMonotonic DEF Evaluators
<1>4. QED
  BY <1>3

LEMMA SortedNames ==
  ASSUME NEW keys
  PROVE  /\ Sorted(keys) \in Seq(ToSet(KeyOrder) \cap keys)
         /\ Len(Sorted(keys)) \in Nat /\ DOMAIN Sorted(keys) = 1..Len(Sorted(keys))
         /\ \A i \in DOMAIN Sorted(keys) : Sorted(keys)[i] \in ToSet(KeyOrder) \cap keys
<1>1. Sorted(keys) \in Seq(ToSet(KeyOrder) \cap keys)
  BY ThoseElements, InstanceAssumption DEF Sorted
<1>2. QED
  BY <1>1

LEMMA HereVisit ==
  ASSUME NEW v, NEW s \in Sub, NEW mode \in {"inplace", "branch"}
  PROVE  To(s, v, mode) \in VisitsOf(v)
BY DEF To, VisitsOf

(* A member of an object, and the name of one, are parts of it. *)
LEMMA MemberVisit ==
  ASSUME NEW v \in Value, NEW n \in Keys(v), NEW s \in Sub
  PROVE  /\ To(s, Instance[v].members[n], "child") \in VisitsOf(v)
         /\ To(s, NameValue[n], "child") \in VisitsOf(v)
<1>1. Instance[v].kind = "object" /\ n \in DOMAIN Instance[v].members
  BY DEF Keys, IsObject
<1>2. /\ Instance[v].members[n] \in Value /\ Height[Instance[v].members[n]] < Height[v]
      /\ NameValue[n] \in Value /\ Height[NameValue[n]] < Height[v]
  BY <1>1, InstanceAssumption
<1>3. QED
  BY <1>2 DEF To, VisitsOf

LEMMA KeysAreNames ==
  ASSUME NEW v \in Value
  PROVE  Keys(v) \subseteq ToSet(KeyOrder)
BY InstanceAssumption DEF Keys, IsObject

LEMMA EachTyped ==
  ASSUME NEW v, NEW subs \in Seq(Sub), NEW mode \in {"inplace", "branch"}
  PROVE  Each(subs, v, mode) \in Seq(VisitsOf(v))
<1>1. Len(subs) \in Nat /\ DOMAIN subs = 1..Len(subs) /\ \A i \in DOMAIN subs : subs[i] \in Sub
  OBVIOUS
<1>2. Each(subs, v, mode) \in [1..Len(subs) -> VisitsOf(v)]
  BY <1>1, HereVisit DEF Each
<1>3. QED
  BY <1>1, <1>2, SequenceOf

LEMMA MissingTyped ==
  ASSUME NEW v, NEW names, names \in Seq(ToSet(names))
  PROVE  Missing(names, v) \in Seq(VisitsOf(v))
<1> DEFINE absent == Those(names, ToSet(names) \ Keys(v))
<1>1. absent \in Seq(ToSet(names) \cap (ToSet(names) \ Keys(v)))
  BY ThoseElements
<1>2. Len(absent) \in Nat /\ DOMAIN absent = 1..Len(absent)
  BY <1>1
<1>3. Missing(names, v) = IF IsObject(v) THEN [i \in DOMAIN absent |-> To(None, v, "error")]
                          ELSE <<>>
  BY DEF Missing
<1> HIDE DEF absent
<1>4. To(None, v, "error") \in VisitsOf(v)
  BY DEF To, VisitsOf
<1>5. [i \in DOMAIN absent |-> To(None, v, "error")] \in Seq(VisitsOf(v))
  BY <1>2, <1>4, SequenceOf
<1>6. QED
  BY <1>3, <1>5

(* The items at indices, of which there is one to each. *)
LEMMA ItemsTyped ==
  ASSUME NEW v \in Value, NEW indices, indices \subseteq DOMAIN Items(v)
  PROVE  LET at == Those([i \in DOMAIN Items(v) |-> i], indices) IN
         /\ Len(at) \in Nat /\ DOMAIN at = 1..Len(at)
         /\ \A i \in DOMAIN at :
              /\ at[i] \in indices
              /\ \A s \in Sub, mode \in {"child", "item"} :
                   [To(s, Items(v)[at[i]], mode) EXCEPT !.pos = at[i]] \in VisitsOf(v)
<1> DEFINE all == [i \in DOMAIN Items(v) |-> i]
           at == Those(all, indices)
<1>1. /\ Len(Items(v)) \in Nat /\ DOMAIN Items(v) = 1..Len(Items(v))
      /\ \A i \in DOMAIN Items(v) : Items(v)[i] \in Value /\ Height[Items(v)[i]] < Height[v]
  BY InstanceAssumption DEF Items, IsArray
<1>2. all \in Seq(DOMAIN Items(v))
  BY <1>1, SequenceOf
<1>3. at \in Seq(DOMAIN Items(v) \cap indices)
  BY <1>2, ThoseElements
<1> HIDE DEF all, at
<1>4. Len(at) \in Nat /\ DOMAIN at = 1..Len(at) /\ \A i \in DOMAIN at : at[i] \in indices
  BY <1>3
<1>5. ASSUME NEW i \in DOMAIN at, NEW s \in Sub, NEW mode \in {"child", "item"}
      PROVE  [To(s, Items(v)[at[i]], mode) EXCEPT !.pos = at[i]] \in VisitsOf(v)
  <2>1. PICK j \in DOMAIN Items(v) : j = at[i]
    BY <1>4
  <2>2. j \in Nat /\ Items(v)[j] \in Value /\ Height[Items(v)[j]] < Height[v]
    BY <1>1
  <2>3. [To(s, Items(v)[j], mode) EXCEPT !.pos = j]
          = [sub |-> s, at |-> Items(v)[j], mode |-> mode, pos |-> j]
    BY DEF To
  <2>4. QED
    BY <2>1, <2>2, <2>3 DEF VisitsOf
<1>6. QED
  BY <1>4, <1>5 DEF at, all

(* What each of some keys adds, one after the other. *)
LEMMA FlatTyped ==
  ASSUME NEW S, NEW n \in Nat, NEW t, t \in [1..n -> Seq(S)]
  PROVE  FlattenSeq(t) \in Seq(S)
<1>1. t \in Seq(Seq(S))
  BY SequenceOf
<1>2. QED
  BY <1>1, FlattenElements

(* A keyword visits the value it is at, or parts of it. *)
LEMMA VisitsTyped ==
  ASSUME NEW s \in Sub, NEW k \in DOMAIN Schema[s].kws, k \in Applicators, NEW v \in Value, NEW c
  PROVE  Visits(s, k, v, c) \in Seq(VisitsOf(v))
<1> DEFINE kw == Kw(s, k)
           W == VisitsOf(v)
           props == PropsOf(s, k, v, c.scope)
           items == ItemsOf(s, k, v, c.scope)
<1>1. KeywordOK(k, kw) /\ k \in Keywords /\ k \notin Refs \cup {"type", "title"}
  BY SchemaAssumption, KeywordOrderTyped DEF Kw, Applicators
<1>2. CASE k \in {"allOf", "anyOf", "oneOf"}
  <2>1. kw \in Seq(Sub)
    BY <1>1, <1>2 DEF KeywordOK
  <2>2. Visits(s, k, v, c) = Each(kw, v, IF k = "allOf" THEN "inplace" ELSE "branch")
    BY <1>2 DEF Visits
  <2>3. QED
    BY <2>1, <2>2, EachTyped
<1>3. CASE k \in {"not", "if"}
  <2>1. Visits(s, k, v, c) = << To(IF k = "not" THEN kw ELSE kw.cond, v, "branch") >>
    BY <1>3 DEF Visits
  <2>2. (IF k = "not" THEN kw ELSE kw.cond) \in Sub
    BY <1>1, <1>3 DEF KeywordOK
  <2> HIDE DEF kw
  <2> DEFINE to == To(IF k = "not" THEN kw ELSE kw.cond, v, "branch")
  <2>3. to \in W
    BY <2>2, HereVisit
  <2> HIDE DEF W, to
  <2>4. << to >> \in Seq(W)
    BY <2>3
  <2>5. QED
    BY <2>1, <2>4 DEF W, to
<1>4. CASE k = "dependentSchemas"
  <2> DEFINE names == Sorted(DOMAIN kw \cap Keys(v))
             t == [i \in DOMAIN names |-> << To(kw[names[i]], v, "inplace") >>]
  <2>1. Visits(s, k, v, c) = FlattenSeq(t)
    BY <1>4 DEF Visits, ForEachKey
  <2>2. Len(names) \in Nat /\ DOMAIN names = 1..Len(names)
        /\ \A i \in DOMAIN names : names[i] \in DOMAIN kw
    BY SortedNames
  <2>3. kw \in [DOMAIN kw -> Sub]
    BY <1>1, <1>4 DEF KeywordOK
  <2> HIDE DEF names, kw
  <2>4. \A i \in DOMAIN names : To(kw[names[i]], v, "inplace") \in W
    BY <2>2, <2>3, HereVisit
  <2> HIDE DEF W
  <2>5. t \in [1..Len(names) -> Seq(W)]
    BY <2>2, <2>4
  <2> HIDE DEF t
  <2>6. FlattenSeq(t) \in Seq(W)
    BY <2>2, <2>5, FlatTyped
  <2>7. QED
    BY <2>1, <2>6 DEF W
<1>5. CASE k = "dependencies"
  <2> DEFINE names == Sorted((DOMAIN kw.schemas \cup DOMAIN kw.required) \cap Keys(v))
             step(n) == IF n \in DOMAIN kw.schemas THEN << To(kw.schemas[n], v, "inplace") >>
                        ELSE Missing(kw.required[n], v)
             t == [i \in DOMAIN names |-> step(names[i])]
  <2>1. Visits(s, k, v, c) = FlattenSeq(t)
    BY <1>5 DEF Visits, ForEachKey
  <2>2. Len(names) \in Nat /\ DOMAIN names = 1..Len(names)
        /\ \A i \in DOMAIN names : names[i] \in DOMAIN kw.schemas \cup DOMAIN kw.required
    BY SortedNames
  <2>3. /\ kw.schemas \in [DOMAIN kw.schemas -> Sub]
        /\ \A n \in DOMAIN kw.required : kw.required[n] \in Seq(ToSet(kw.required[n]))
    BY <1>1, <1>5 DEF KeywordOK
  <2> HIDE DEF names, kw
  <2>4. \A n \in DOMAIN kw.schemas : To(kw.schemas[n], v, "inplace") \in W
    BY <2>3, HereVisit
  <2>5. \A n \in DOMAIN kw.required : Missing(kw.required[n], v) \in Seq(W)
    BY <2>3, MissingTyped
  <2> HIDE DEF W
  <2>6. \A n \in DOMAIN kw.schemas \cup DOMAIN kw.required : step(n) \in Seq(W)
    BY <2>4, <2>5
  <2> HIDE DEF step
  <2>7. t \in [1..Len(names) -> Seq(W)]
    BY <2>2, <2>6
  <2> HIDE DEF t
  <2>8. FlattenSeq(t) \in Seq(W)
    BY <2>2, <2>7, FlatTyped
  <2>9. QED
    BY <2>1, <2>8 DEF W
<1>6. CASE k = "dependentRequired"
  <2> DEFINE names == Sorted(DOMAIN kw \cap Keys(v))
             t == [i \in DOMAIN names |-> Missing(kw[names[i]], v)]
  <2>1. Visits(s, k, v, c) = FlattenSeq(t)
    BY <1>6 DEF Visits, ForEachKey
  <2>2. Len(names) \in Nat /\ DOMAIN names = 1..Len(names)
        /\ \A i \in DOMAIN names : names[i] \in DOMAIN kw
    BY SortedNames
  <2>3. \A n \in DOMAIN kw : kw[n] \in Seq(ToSet(kw[n]))
    BY <1>1, <1>6 DEF KeywordOK
  <2> HIDE DEF names, kw
  <2>4. \A n \in DOMAIN kw : Missing(kw[n], v) \in Seq(W)
    BY <2>3, MissingTyped
  <2> HIDE DEF W
  <2>5. t \in [1..Len(names) -> Seq(W)]
    BY <2>2, <2>4
  <2> HIDE DEF t
  <2>6. FlattenSeq(t) \in Seq(W)
    BY <2>2, <2>5, FlatTyped
  <2>7. QED
    BY <2>1, <2>6 DEF W
<1>7. CASE k = "required"
  <2>1. Visits(s, k, v, c) = Missing(kw, v) /\ kw \in Seq(ToSet(kw))
    BY <1>1, <1>7 DEF Visits, KeywordOK
  <2>2. QED
    BY <2>1, MissingTyped
<1>8. CASE k \in {"properties", "additionalProperties", "unevaluatedProperties"}
  <2> DEFINE names == Sorted(props)
             sub(n) == IF k = "properties" THEN kw[n] ELSE kw
             t == [i \in DOMAIN names |-> To(sub(names[i]), Instance[v].members[names[i]], "child")]
  <2>1. Visits(s, k, v, c) = t
    <3>1. CASE k = "properties"
      BY <3>1 DEF Visits, Child
    <3>2. CASE k = "additionalProperties"
      BY <3>2 DEF Visits, Child
    <3>3. CASE k = "unevaluatedProperties"
      BY <3>3 DEF Visits, Child
    <3>4. QED
      BY <1>8, <3>1, <3>2, <3>3
  <2>2. props \subseteq Keys(v) /\ (k = "properties" => props \subseteq DOMAIN kw)
    BY <1>8 DEF PropsOf
  <2>3. Len(names) \in Nat /\ DOMAIN names = 1..Len(names)
        /\ \A i \in DOMAIN names : names[i] \in props
    BY SortedNames
  <2>4. IF k = "properties" THEN kw \in [DOMAIN kw -> Sub] ELSE kw \in Sub
    BY <1>1, <1>8 DEF KeywordOK
  <2> HIDE DEF names, kw, props
  <2>5. \A i \in DOMAIN names : names[i] \in Keys(v) /\ sub(names[i]) \in Sub
    BY <2>2, <2>3, <2>4
  <2> HIDE DEF sub
  <2>6. \A i \in DOMAIN names : To(sub(names[i]), Instance[v].members[names[i]], "child") \in W
    BY <2>5, MemberVisit
  <2> HIDE DEF W
  <2>7. t \in [1..Len(names) -> W]
    BY <2>3, <2>6
  <2> HIDE DEF t
  <2>8. t \in Seq(W)
    BY <2>3, <2>7, SequenceOf
  <2>9. QED
    BY <2>1, <2>8 DEF W
<1>9. CASE k = "patternProperties"
  <2> DEFINE names == Sorted(Keys(v))
             matching(n) == Those(kw, {p \in ToSet(kw) : n \in p.matches})
             step(n) == [j \in DOMAIN matching(n) |->
                           To(matching(n)[j].sub, Instance[v].members[n], "child")]
             t == [i \in DOMAIN names |-> step(names[i])]
  <2>1. Visits(s, k, v, c) = FlattenSeq(t)
    BY <1>9 DEF Visits, PatternVisits
  <2>2. Len(names) \in Nat /\ DOMAIN names = 1..Len(names)
        /\ \A i \in DOMAIN names : names[i] \in Keys(v)
    BY SortedNames
  <2>3. kw \in Seq(ToSet(kw)) /\ \A p \in ToSet(kw) : p.sub \in Sub
    BY <1>1, <1>9 DEF KeywordOK
  <2> HIDE DEF names, kw
  <2>4. ASSUME NEW n \in Keys(v)
        PROVE  step(n) \in Seq(W)
    <3> DEFINE m == matching(n)
    <3>1. m \in Seq(ToSet(kw) \cap {p \in ToSet(kw) : n \in p.matches})
      BY <2>3, ThoseElements
    <3> HIDE DEF matching
    <3>2. Len(m) \in Nat /\ DOMAIN m = 1..Len(m) /\ \A j \in DOMAIN m : m[j].sub \in Sub
      BY <2>3, <3>1
    <3>3. \A j \in DOMAIN m : To(m[j].sub, Instance[v].members[n], "child") \in W
      BY <3>2, MemberVisit
    <3> HIDE DEF W
    <3>4. step(n) \in [1..Len(m) -> W]
      BY <3>2, <3>3
    <3>5. QED
      BY <3>2, <3>4, SequenceOf
  <2> HIDE DEF step, W
  <2>5. t \in [1..Len(names) -> Seq(W)]
    BY <2>2, <2>4
  <2> HIDE DEF t
  <2>6. FlattenSeq(t) \in Seq(W)
    BY <2>2, <2>5, FlatTyped
  <2>7. QED
    BY <2>1, <2>6 DEF W
<1>10. CASE k = "propertyNames"
  <2> DEFINE names == Sorted(Keys(v))
             t == [i \in DOMAIN names |-> To(kw, NameValue[names[i]], "child")]
  <2>1. Visits(s, k, v, c) = t
    BY <1>10 DEF Visits
  <2>2. Len(names) \in Nat /\ DOMAIN names = 1..Len(names)
        /\ \A i \in DOMAIN names : names[i] \in Keys(v)
    BY SortedNames
  <2>3. kw \in Sub
    BY <1>1, <1>10 DEF KeywordOK
  <2> HIDE DEF names, kw
  <2>4. \A i \in DOMAIN names : To(kw, NameValue[names[i]], "child") \in W
    BY <2>2, <2>3, MemberVisit
  <2> HIDE DEF W
  <2>5. t \in [1..Len(names) -> W]
    BY <2>2, <2>4
  <2> HIDE DEF t
  <2>6. t \in Seq(W)
    BY <2>2, <2>5, SequenceOf
  <2>7. QED
    BY <2>1, <2>6 DEF W
<1>11. CASE k \in {"contains", "prefixItems", "items", "additionalItems", "unevaluatedItems"}
  <2> DEFINE indices == IF k = "contains" THEN DOMAIN Items(v) ELSE items
             mode == IF k = "contains" THEN "item" ELSE "child"
             sub(i) == CASE k = "contains" -> kw.sub
                         [] k = "prefixItems" -> kw[i]
                         [] k = "items" -> IF kw.isPrefix THEN kw.subs[i] ELSE kw.sub
                         [] OTHER -> kw
             at == Those([i \in DOMAIN Items(v) |-> i], indices)
             t == [i \in DOMAIN at |-> [To(sub(at[i]), Items(v)[at[i]], mode) EXCEPT !.pos = at[i]]]
  <2>1. Visits(s, k, v, c) = t
    <3>1. CASE k = "contains"
      BY <3>1 DEF Visits, Item
    <3>2. CASE k = "prefixItems"
      BY <3>2 DEF Visits, Item
    <3>3. CASE k = "items"
      BY <3>3 DEF Visits, Item
    <3>4. CASE k = "additionalItems"
      BY <3>4 DEF Visits, Item
    <3>5. CASE k = "unevaluatedItems"
      BY <3>5 DEF Visits, Item
    <3>6. QED
      BY <1>11, <3>1, <3>2, <3>3, <3>4, <3>5
  <2>2. DOMAIN Items(v) \subseteq Nat \ {0}
    BY InstanceAssumption DEF Items, IsArray
  <2>3. indices \subseteq DOMAIN Items(v)
    BY <1>11 DEF ItemsOf, UpTo, Past
  <2>4. \A i \in indices : sub(i) \in Sub
    <3>1. CASE k = "contains"
      BY <1>1, <3>1 DEF KeywordOK
    <3>2. CASE k = "prefixItems"
      <4>1. kw \in Seq(Sub) /\ indices = {i \in DOMAIN Items(v) : i <= Len(kw)}
        BY <1>1, <3>2 DEF KeywordOK, ItemsOf, UpTo
      <4>2. \A i \in indices : i \in 1..Len(kw)
        BY <2>2, <4>1
      <4>3. QED
        BY <3>2, <4>1, <4>2
    <3>3. CASE k = "items"
      <4>1. CASE kw.isPrefix
        <5>1. kw.subs \in Seq(Sub) /\ indices = {i \in DOMAIN Items(v) : i <= Len(kw.subs)}
          BY <1>1, <3>3, <4>1 DEF KeywordOK, ItemsOf, UpTo
        <5>2. \A i \in indices : i \in 1..Len(kw.subs)
          BY <2>2, <5>1
        <5>3. QED
          BY <3>3, <4>1, <5>1, <5>2
      <4>2. CASE ~kw.isPrefix
        BY <1>1, <3>3, <4>2 DEF KeywordOK
      <4>3. QED
        BY <4>1, <4>2
    <3>4. CASE k \in {"additionalItems", "unevaluatedItems"}
      BY <1>1, <3>4 DEF KeywordOK
    <3>5. QED
      BY <1>11, <3>1, <3>2, <3>3, <3>4
  <2>5. mode \in {"child", "item"}
    OBVIOUS
  <2> HIDE DEF indices, mode, sub
  <2>6. /\ Len(at) \in Nat /\ DOMAIN at = 1..Len(at)
        /\ \A i \in DOMAIN at :
             /\ at[i] \in indices
             /\ \A q \in Sub, m \in {"child", "item"} :
                  [To(q, Items(v)[at[i]], m) EXCEPT !.pos = at[i]] \in W
    BY <2>3, ItemsTyped
  <2> HIDE DEF at, W
  <2>7. t \in [1..Len(at) -> W]
    BY <2>4, <2>5, <2>6
  <2> HIDE DEF t
  <2>8. t \in Seq(W)
    BY <2>6, <2>7, SequenceOf
  <2>9. QED
    BY <2>1, <2>8 DEF W
<1>12. QED
  BY <1>1, <1>2, <1>3, <1>4, <1>5, <1>6, <1>7, <1>8, <1>9, <1>10, <1>11 DEF Keywords, Refs

-----------------------------------------------------------------------------
(* What a scope learns, and where a reference leads *)

LEMMA EvaluatedTyped ==
  ASSUME NEW s, NEW k, NEW v \in Value, NEW scope
  PROVE  Evaluated(s, k, v, scope) \in ScopeType
<1> DEFINE props == PropsOf(s, k, v, scope)
           items == ItemsOf(s, k, v, scope)
           prefix == k = "prefixItems" \/ (k = "items" /\ Kw(s, k).isPrefix)
<1>1. props \subseteq ToSet(KeyOrder)
  <2>1. props \subseteq Keys(v)
    <3>1. CASE k = "properties"
      BY <3>1 DEF PropsOf
    <3>2. CASE k = "patternProperties"
      BY <3>2 DEF PropsOf
    <3>3. CASE k \in {"additionalProperties", "unevaluatedProperties"}
      BY <3>3 DEF PropsOf
    <3>4. CASE k \notin {"properties", "patternProperties",
                         "additionalProperties", "unevaluatedProperties"}
      BY <3>4 DEF PropsOf
    <3>5. QED
      BY <3>1, <3>2, <3>3, <3>4
  <2> HIDE DEF props
  <2>2. QED
    BY <2>1, KeysAreNames
<1>2. Cardinality(items) \in Nat
  <2>1. PICK n \in Nat : DOMAIN Items(v) = 1..n
    BY InstanceAssumption DEF Items, IsArray
  <2>2. items \subseteq 1..n
    BY <2>1 DEF ItemsOf, UpTo, Past
  <2> HIDE DEF items
  <2>3. IsFiniteSet(1..n)
    BY FS_Interval
  <2>4. QED
    BY <2>2, <2>3, FS_Subset, FS_CardinalityType
<1>3. Evaluated(s, k, v, scope) =
        [EmptyScope EXCEPT !.props = props, !.prefix = IF prefix THEN Cardinality(items) ELSE 0,
                           !.all = ~prefix /\ items # {}]
  BY DEF Evaluated
<1> DEFINE length == IF prefix THEN Cardinality(items) ELSE 0
           all == ~prefix /\ items # {}
<1>4. length \in Nat /\ all \in BOOLEAN
  BY <1>2
<1>5. Evaluated(s, k, v, scope) =
        [props |-> props, prefix |-> length, all |-> all, contained |-> {}]
  BY <1>3 DEF EmptyScope
<1> HIDE DEF props, length, all
<1>6. QED
  BY <1>1, <1>4, <1>5 DEF ScopeType

LEMMA FirstInScopeTyped ==
  ASSUME NEW dyn, dyn \in Seq(ToSet(dyn)), NEW targets, targets \in [DOMAIN targets -> Sub]
  PROVE  FirstInScope(dyn, targets) \in Sub \cup {None}
<1> DEFINE found == Those(dyn, DOMAIN targets)
<1>1. found \in Seq(ToSet(dyn) \cap DOMAIN targets)
  BY ThoseElements
<1>2. FirstInScope(dyn, targets) = IF found = <<>> THEN None ELSE targets[found[1]]
  BY DEF FirstInScope
<1> HIDE DEF found
<1>3. CASE found # <<>>
  <2>1. found[1] \in DOMAIN targets
    BY <1>1, <1>3
  <2>2. QED
    BY <1>2, <1>3, <2>1
<1>4. QED
  BY <1>2, <1>3

(* A reference leads to a subschema, if anywhere. *)
LEMMA RefTargetTyped ==
  ASSUME NEW s \in Sub, NEW k \in DOMAIN Schema[s].kws, k \in Refs,
         NEW dyn, dyn \in Seq(ToSet(dyn))
  PROVE  RefTarget(s, k, dyn) \in Sub \cup {None}
<1> DEFINE kw == Kw(s, k)
<1>1. kw.target \in Sub \cup {None}
  BY SchemaAssumption DEF Kw, KeywordOK, Refs
<1>2. FindDynamic(kw, dyn) \in Sub \cup {None}
  <2> DEFINE named == {q \in DOMAIN Dynamic : kw.name \in DOMAIN Dynamic[q]}
             targets == [r \in named |-> Dynamic[r][kw.name]]
  <2> HIDE DEF kw
  <2>1. \A r \in named : Dynamic[r] \in [DOMAIN Dynamic[r] -> Sub] /\ kw.name \in DOMAIN Dynamic[r]
    BY SchemaAssumption
  <2>2. targets \in [named -> Sub] /\ DOMAIN targets = named
    BY <2>1
  <2>3. FindDynamic(kw, dyn) = IF kw.name = None THEN None ELSE FirstInScope(dyn, targets)
    BY DEF FindDynamic
  <2> HIDE DEF targets, named
  <2>4. QED
    BY <2>2, <2>3, FirstInScopeTyped
<1>3. FindRecursive(kw, dyn) \in Sub \cup {None}
  BY SchemaAssumption, FirstInScopeTyped DEF FindRecursive
<1> HIDE DEF kw
<1>4. QED
  BY <1>1, <1>2, <1>3 DEF RefTarget, kw

-----------------------------------------------------------------------------
(* The three ways in which a step changes the call stack, again *)

LEMMA TopAccounts ==
  ASSUME WalkInv, LedgerInv, stack # <<>>
  PROVE  /\ opts.limit \in Int /\ opts.stop \in BOOLEAN /\ opts.maxErrors \in Int
         /\ Accounts(ctx) /\ Balance(ctx) \in Nat
         /\ FrameInv(Top) /\ AccountInv(Top) /\ InLimits(Top.saved) /\ Settles(Top, ctx)
         /\ Accounts(Top.saved) /\ Balance(Top.saved) \in Nat
         /\ Aside(Top) \in Nat /\ Top.saved.errors.w \in Nat /\ Top.acc.causes.w \in Nat
<1>1. opts.limit \in Int /\ opts.stop \in BOOLEAN /\ opts.maxErrors \in Int
  BY OptionsTyped DEF LedgerInv
<1>2. Len(stack) \in 1..Len(stack) /\ FrameInv(Top)
  BY TopIsFrame
<1>3. Shape(ctx) /\ Shape(Top.saved)
  BY <1>2 DEF WalkInv, FrameInv
<1>4. AccountInv(Top) /\ InLimits(Top.saved) /\ Settles(Top, ctx)
  BY <1>2 DEF LedgerInv, Top
<1>5. ContextInv(ctx) /\ InLimits(ctx) /\ ContextInv(Top.saved)
  BY <1>4 DEF LedgerInv, AccountInv
<1>6. Accounts(ctx) /\ Balance(ctx) \in Nat /\ Accounts(Top.saved) /\ Balance(Top.saved) \in Nat
  BY <1>3, <1>4, <1>5, AccountsOfContext
<1>7. Top.saved.errors.w \in Nat /\ Top.acc.causes.w \in Nat
  BY <1>4, <1>6 DEF AccountInv, FrameOK, Accounts, ErrorsType
<1>8. QED
  BY <1>1, <1>2, <1>4, <1>6, <1>7 DEF Aside

LEMMA AsideTyped ==
  ASSUME NEW f, AccountInv(f)
  PROVE  Aside(f) \in Nat
<1>1. f.saved.errors.w \in Nat
  BY DEF AccountInv, ContextInv, ContextOK, ErrorsType
<1>2. f.acc.causes.w \in Nat
  BY DEF AccountInv, FrameOK, ErrorsType
<1>3. QED
  BY <1>1, <1>2 DEF Aside

(* What a context in order is after the step that leads to it. *)
LEMMA SettledContext ==
  ASSUME opts' = opts, Accounts(ctx'), NEW f, AccountInv(f), Settles(f, ctx')
  PROVE  ContextInv(ctx') /\ InLimits(ctx)'
<1>1. Aside(f) \in Nat /\ Balance(f.saved) \in Nat
  BY AsideTyped DEF AccountInv, ContextInv
<1>2. Balance(ctx') \in Nat
  BY <1>1 DEF Settles
<1>3. ContextInv(ctx') /\ InLimits(ctx')
  BY <1>2, ContextOfAccounts
<1>4. QED
  BY <1>3 DEF InLimits, OverLimit

LEMMA TopLedger ==
  ASSUME WalkInv, LedgerInv, stack # <<>>, UNCHANGED call, NEW f, SetTop(f), AccountInv(f),
         f.saved = Top.saved, f.at = Top.at, f.mode = Top.mode, Accounts(ctx'), Settles(f, ctx')
  PROVE  LedgerInv'
<1> DEFINE n == Len(stack)
<1>1. UNCHANGED <<opts, call>> /\ n \in Nat \ {0} /\ n \in 1..n
  BY TopIsFrame DEF call
<1>2. /\ stack' \in Seq(ToSet(stack')) /\ Len(stack') = n
      /\ stack'[n] = f /\ \A j \in 1..n : j # n => stack'[j] = stack[j]
  BY TopShape
<1>3. ContextInv(ctx') /\ InLimits(ctx)'
  BY <1>1, SettledContext
<1>4. stack[n].saved = f.saved /\ stack[n].at = f.at /\ stack[n].mode = f.mode
  BY DEF Top
<1> HIDE DEF n
<1>5. \A i \in 1..n : /\ stack'[i].saved = stack[i].saved
                      /\ stack'[i].at = stack[i].at /\ stack'[i].mode = stack[i].mode
  BY <1>2, <1>4
<1>6. \A i \in 1..n : AccountInv(stack[i]) /\ InLimits(stack[i].saved)
  BY DEF LedgerInv, n
<1>7. ASSUME NEW i \in 1..n
      PROVE  AccountInv(stack'[i]) /\ InLimits(stack[i].saved)'
  <2>1. AccountInv(stack'[i])
    BY <1>2, <1>6
  <2>2. InLimits(stack[i].saved)'
    BY <1>1, <1>5, <1>6 DEF InLimits, OverLimit
  <2>3. QED
    BY <2>1, <2>2
<1>8. ASSUME NEW i \in 1..n - 1
      PROVE  Settles(stack'[i], stack'[i + 1].saved) /\ Nested(stack'[i], stack'[i + 1])
  <2>1. i \in 1..n /\ i # n /\ i + 1 \in 1..n
    BY <1>1
  <2>2. Settles(stack[i], stack[i + 1].saved) /\ Nested(stack[i], stack[i + 1])
    BY DEF LedgerInv, n
  <2>3. stack'[i] = stack[i]
    BY <1>2, <2>1
  <2>4. QED
    BY <1>5, <2>1, <2>2, <2>3 DEF Nested
<1>9. stack' # <<>> /\ Top' = f
  BY <1>1, <1>2 DEF Top
<1>10. /\ stack'[1].mode = "inplace" /\ Balance(stack'[1].saved) = 0
       /\ stack'[1].saved.refDepth = 0
  <2>1. 1 \in 1..n
    BY <1>1
  <2>2. QED
    BY <1>5, <2>1 DEF LedgerInv
<1>11. call' \in Validations
  BY <1>1 DEF LedgerInv
<1>12. QED
  BY <1>2, <1>3, <1>7, <1>8, <1>9, <1>10, <1>11 DEF LedgerInv

LEMMA PushLedger ==
  ASSUME WalkInv, LedgerInv, stack # <<>>, UNCHANGED call,
         NEW f, AccountInv(f), f.saved = Top.saved, f.at = Top.at, f.mode = Top.mode,
         Settles(f, ctx),
         NEW g, AccountInv(g), g.saved = ctx, Nested(f, g),
         stack' = Append([stack EXCEPT ![Len(stack)] = f], g),
         Accounts(ctx'), Settles(g, ctx')
  PROVE  LedgerInv'
<1> DEFINE n == Len(stack)
<1>1. UNCHANGED <<opts, call>> /\ n \in Nat \ {0} /\ n \in 1..n
  BY TopIsFrame DEF call
<1>2. /\ stack' \in Seq(ToSet(stack')) /\ Len(stack') = n + 1 /\ stack'[n + 1] = g
      /\ stack'[n] = f /\ \A j \in 1..n : j # n => stack'[j] = stack[j]
  BY PushShape
<1>3. ContextInv(ctx') /\ InLimits(ctx)'
  BY <1>1, SettledContext
<1>4. stack[n].saved = f.saved /\ stack[n].at = f.at /\ stack[n].mode = f.mode
  BY DEF Top
<1> HIDE DEF n
<1>5. \A i \in 1..n : /\ stack'[i].saved = stack[i].saved
                      /\ stack'[i].at = stack[i].at /\ stack'[i].mode = stack[i].mode
  BY <1>2, <1>4
<1>6. \A i \in 1..n : AccountInv(stack[i]) /\ InLimits(stack[i].saved)
  BY DEF LedgerInv, n
<1>7. ASSUME NEW i \in 1..n + 1
      PROVE  AccountInv(stack'[i]) /\ InLimits(stack[i].saved)'
  <2>1. CASE i = n + 1
    <3>1. InLimits(ctx)
      BY DEF LedgerInv
    <3>2. stack'[i].saved = ctx
      BY <1>2, <2>1
    <3>3. InLimits(stack[i].saved)'
      BY <1>1, <3>1, <3>2 DEF InLimits, OverLimit
    <3>4. QED
      BY <1>2, <2>1, <3>3
  <2>2. CASE i # n + 1
    <3>1. i \in 1..n
      BY <1>1, <2>2
    <3>2. AccountInv(stack'[i])
      BY <1>2, <1>6, <3>1
    <3>3. InLimits(stack[i].saved)'
      BY <1>1, <1>5, <1>6, <3>1 DEF InLimits, OverLimit
    <3>4. QED
      BY <3>2, <3>3
  <2>3. QED
    BY <2>1, <2>2
<1>8. ASSUME NEW i \in 1..n
      PROVE  Settles(stack'[i], stack'[i + 1].saved) /\ Nested(stack'[i], stack'[i + 1])
  <2>1. CASE i = n
    BY <1>2, <2>1
  <2>2. CASE i # n
    <3>1. i \in 1..n - 1 /\ i + 1 \in 1..n
      BY <1>1, <2>2
    <3>2. Settles(stack[i], stack[i + 1].saved) /\ Nested(stack[i], stack[i + 1])
      BY <3>1 DEF LedgerInv, n
    <3>3. stack'[i] = stack[i]
      BY <1>2, <2>2
    <3>4. QED
      BY <1>5, <3>1, <3>2, <3>3 DEF Nested
  <2>3. QED
    BY <2>1, <2>2
<1>9. stack' # <<>> /\ Top' = g /\ n + 1 - 1 = n
  BY <1>1, <1>2 DEF Top
<1>10. /\ stack'[1].mode = "inplace" /\ Balance(stack'[1].saved) = 0
       /\ stack'[1].saved.refDepth = 0
  <2>1. 1 \in 1..n
    BY <1>1
  <2>2. QED
    BY <1>5, <2>1 DEF LedgerInv
<1>11. call' \in Validations
  BY <1>1 DEF LedgerInv
<1>12. \A i \in 1..Len(stack') : AccountInv(stack'[i]) /\ InLimits(stack[i].saved)'
  BY <1>2, <1>7
<1>13. \A i \in 1..Len(stack') - 1 :
         Settles(stack'[i], stack'[i + 1].saved) /\ Nested(stack'[i], stack'[i + 1])
  <2>1. Len(stack') - 1 = n
    <3>1. PICK m \in Nat : m = n
      BY <1>1
    <3>2. Len(stack') = m + 1
      BY <1>2, <3>1
    <3>3. m + 1 - 1 = m
      OBVIOUS
    <3>4. QED
      BY ONLY <3>1, <3>2, <3>3
  <2>2. \A i \in 1..n :
          Settles(stack'[i], stack'[i + 1].saved) /\ Nested(stack'[i], stack'[i + 1])
    BY <1>8
  <2>3. QED
    BY ONLY <2>1, <2>2
<1>14. QED
  BY <1>3, <1>9, <1>10, <1>11, <1>12, <1>13 DEF LedgerInv

LEMMA PopLedger ==
  ASSUME WalkInv, LedgerInv, stack # <<>>, UNCHANGED call, NEW f,
         \/ stack' = Front(stack) /\ (Len(stack) > 1 => f = stack[Len(stack) - 1])
         \/ Len(stack) > 1 /\ stack' = [Front(stack) EXCEPT ![Len(stack) - 1] = f],
         Accounts(ctx'),
         Len(stack) > 1 =>
            LET caller == stack[Len(stack) - 1] IN
            /\ AccountInv(f) /\ Settles(f, ctx')
            /\ f.saved = caller.saved /\ f.at = caller.at /\ f.mode = caller.mode,
         Len(stack) = 1 => Balance(ctx') = 0
  PROVE  LedgerInv'
<1> DEFINE n == Len(stack) - 1
<1>1. /\ stack' \in Seq(ToSet(stack')) /\ Len(stack') = n
      /\ Len(stack) = 1 => stack' = <<>>
      /\ Len(stack) > 1 => stack'[n] = f /\ \A j \in 1..n : j # n => stack'[j] = stack[j]
  BY PopShape
<1>2. UNCHANGED <<opts, call>> /\ n \in Nat /\ Len(stack) = n + 1
  BY TopIsFrame DEF call
<1>3. Len(stack) > 1 =>
        /\ AccountInv(f) /\ Settles(f, ctx') /\ f.saved = stack[n].saved
        /\ f.at = stack[n].at /\ f.mode = stack[n].mode
  OBVIOUS
<1>4. call' \in Validations
  BY <1>2 DEF LedgerInv
<1> HIDE DEF n
<1>5. CASE n = 0
  <2>1. stack' = <<>> /\ Len(stack') = 0 /\ Balance(ctx') = 0
    BY <1>1, <1>2, <1>5
  <2>2. ContextInv(ctx') /\ InLimits(ctx')
    BY <2>1, ContextOfAccounts
  <2>3. InLimits(ctx)'
    BY <1>2, <2>2 DEF InLimits, OverLimit
  <2>4. QED
    BY <1>4, <2>1, <2>2, <2>3 DEF LedgerInv
<1>6. CASE n > 0
  <2>1. n \in 1..n /\ Len(stack) > 1
    BY <1>2, <1>6
  <2>2. /\ AccountInv(f) /\ Settles(f, ctx') /\ f.saved = stack[n].saved
        /\ f.at = stack[n].at /\ f.mode = stack[n].mode
        /\ stack'[n] = f /\ \A j \in 1..n : j # n => stack'[j] = stack[j]
    BY <1>1, <1>3, <2>1
  <2>3. ContextInv(ctx') /\ InLimits(ctx)'
    BY <1>2, <2>2, SettledContext
  <2>4. \A i \in 1..n : /\ stack'[i].saved = stack[i].saved
                        /\ stack'[i].at = stack[i].at /\ stack'[i].mode = stack[i].mode
    BY <2>2
  <2>5. \A i \in 1..n : i \in 1..Len(stack)
    BY <1>2
  <2>6. \A i \in 1..n : AccountInv(stack[i]) /\ InLimits(stack[i].saved)
    BY <2>5 DEF LedgerInv
  <2>7. ASSUME NEW i \in 1..n
        PROVE  AccountInv(stack'[i]) /\ InLimits(stack[i].saved)'
    <3>1. AccountInv(stack'[i])
      BY <2>2, <2>6
    <3>2. InLimits(stack[i].saved)'
      BY <1>2, <2>4, <2>6 DEF InLimits, OverLimit
    <3>3. QED
      BY <3>1, <3>2
  <2>8. ASSUME NEW i \in 1..n - 1
        PROVE  Settles(stack'[i], stack'[i + 1].saved) /\ Nested(stack'[i], stack'[i + 1])
    <3>1. i \in 1..n /\ i # n /\ i + 1 \in 1..n /\ i \in 1..Len(stack) - 1
      BY <1>2
    <3>2. Settles(stack[i], stack[i + 1].saved) /\ Nested(stack[i], stack[i + 1])
      BY <3>1 DEF LedgerInv
    <3>3. stack'[i] = stack[i]
      BY <2>2, <3>1
    <3>4. QED
      BY <2>4, <3>1, <3>2, <3>3 DEF Nested
  <2>9. stack' # <<>> /\ Top' = f
    <3>1. stack' # <<>>
      BY <1>1, <1>2, <1>6
    <3>2. QED
      BY <1>1, <2>2, <3>1 DEF Top
  <2>10. /\ stack'[1].mode = "inplace" /\ Balance(stack'[1].saved) = 0
         /\ stack'[1].saved.refDepth = 0
    <3>1. 1 \in 1..n
      BY <1>2, <1>6
    <3>2. QED
      BY <2>4, <3>1 DEF LedgerInv
  <2>11. \A i \in 1..Len(stack') : AccountInv(stack'[i]) /\ InLimits(stack[i].saved)'
    BY <1>1, <2>7
  <2>12. \A i \in 1..Len(stack') - 1 :
           Settles(stack'[i], stack'[i + 1].saved) /\ Nested(stack'[i], stack'[i + 1])
    BY <1>1, <2>8
  <2>13. QED
    BY <1>4, <2>2, <2>3, <2>9, <2>10, <2>11, <2>12 DEF LedgerInv
<1>7. QED
  BY <1>2, <1>5, <1>6

-----------------------------------------------------------------------------
(* Steps of the walk, and the accounts *)

(* The top frame moves on and has nothing more or less set aside. *)
LEMMA MoveLedger ==
  ASSUME WalkInv, LedgerInv, stack # <<>>, UNCHANGED call, NEW f, SetTop(f), AccountInv(f),
         f.saved = Top.saved, f.at = Top.at, f.mode = Top.mode, Aside(f) = Aside(Top),
         Accounts(ctx'), Balance(ctx') = Balance(ctx)
  PROVE  LedgerInv'
<1>1. Settles(f, ctx')
  BY TopAccounts DEF Settles
<1>2. QED
  BY <1>1, TopLedger

LEMMA ExitLedger ==
  ASSUME WalkInv, LedgerInv, NEW p \in {"enter", "next"}, At(p), Exit,
         Accounts(ctx'), Balance(ctx') = Balance(ctx)
  PROVE  LedgerInv'
<1> DEFINE f == [Top EXCEPT !.phase = "exit"]
<1>1. stack # <<>> /\ UNCHANGED call /\ Top.phase = p
  BY DEF At
<1>2. FrameInv(Top) /\ AccountInv(Top)
  BY <1>1, TopAccounts
<1>3. /\ f.phase = "exit" /\ f.sub = Top.sub /\ f.at = Top.at /\ f.mode = Top.mode
      /\ f.pos = Top.pos /\ f.next = Top.next /\ f.todo = Top.todo /\ f.acc = Top.acc
      /\ f.saved = Top.saved
  BY <1>2 DEF FrameInv, FrameFields
<1>4. SetTop(f)
  BY DEF Exit
<1> HIDE DEF f
<1>5. AccountInv(f)
  BY <1>2, <1>3 DEF AccountInv, FrameOK
<1>6. Aside(f) = Aside(Top)
  BY <1>1, <1>3 DEF Aside, IsBranch
<1>7. QED
  BY <1>1, <1>3, <1>4, <1>5, <1>6, MoveLedger

LEMMA SkipLedger ==
  ASSUME WalkInv, LedgerInv, NEW keywords, Starts(keywords), Skip,
         Accounts(ctx'), Balance(ctx') = Balance(ctx)
  PROVE  LedgerInv'
<1> DEFINE f == [Top EXCEPT !.next = @ + 1]
<1>1. /\ stack # <<>> /\ UNCHANGED call /\ Top.phase = "next"
      /\ Top.next <= Len(Evaluators(Top.sub))
  BY DEF Starts, At
<1>2. FrameInv(Top) /\ AccountInv(Top)
  BY <1>1, TopAccounts
<1>3. /\ f.phase = "next" /\ f.sub = Top.sub /\ f.at = Top.at /\ f.mode = Top.mode
      /\ f.pos = Top.pos /\ f.next = Top.next + 1 /\ f.todo = Top.todo /\ f.acc = Top.acc
      /\ f.saved = Top.saved
  BY <1>1, <1>2 DEF FrameInv, FrameFields
<1>4. SetTop(f)
  BY DEF Skip
<1> HIDE DEF f
<1>5. f.next \in 1..Len(Evaluators(f.sub)) + 1
  <2>1. Len(Evaluators(Top.sub)) \in Nat /\ Top.next \in 1..Len(Evaluators(Top.sub)) + 1
    BY <1>2, EvaluatorsTyped DEF AccountInv, FrameOK
  <2>2. QED
    BY <1>1, <1>3, <2>1
<1>6. AccountInv(f)
  BY <1>2, <1>3, <1>5 DEF AccountInv, FrameOK
<1>7. Aside(f) = Aside(Top)
  BY <1>1, <1>3 DEF Aside, IsBranch
<1>8. QED
  BY <1>1, <1>3, <1>4, <1>6, <1>7, MoveLedger

LEMMA CountedAccounts ==
  ASSUME Accounts(ctx)
  PROVE  /\ \/ ~OverLimit(Counted)
            \/ ctx.overBudget
            => Accounts(Counted) /\ Balance(Counted) = Balance(ctx)
         /\ Accounts([Counted EXCEPT !.overBudget = TRUE])
         /\ Balance([Counted EXCEPT !.overBudget = TRUE]) = Balance(ctx)
<1> DEFINE d == Counted
           e == [Counted EXCEPT !.overBudget = TRUE]
<1>1. /\ DOMAIN d = ContextFields /\ d.errors = ctx.errors /\ d.scope = ctx.scope
      /\ d.needScope = ctx.needScope /\ d.stopFired = ctx.stopFired
      /\ d.overBudget = ctx.overBudget /\ d.failCount = ctx.failCount
      /\ d.refDepth = ctx.refDepth /\ d.depth = ctx.depth /\ d.runs = ctx.runs + 1
      /\ d.keyCountFired = ctx.keyCountFired
      /\ d.evals = ctx.evals + 1 /\ d.errCost = ctx.errCost
  BY DEF Counted, Accounts, ContextFields
<1>2. /\ DOMAIN e = ContextFields /\ e.errors = ctx.errors /\ e.scope = ctx.scope
      /\ e.needScope = ctx.needScope /\ e.stopFired = ctx.stopFired
      /\ e.overBudget /\ e.overBudget \in BOOLEAN /\ e.failCount = ctx.failCount
      /\ e.refDepth = ctx.refDepth /\ e.depth = ctx.depth /\ e.runs = ctx.runs + 1
      /\ e.keyCountFired = ctx.keyCountFired
      /\ e.evals = ctx.evals + 1 /\ e.errCost = ctx.errCost
  BY DEF Counted, Accounts, ContextFields
<1> HIDE DEF d, e
<1>3. Accounts(e) /\ Balance(e) = Balance(ctx)
  <2>1. Balance(e) = Balance(ctx)
    BY <1>2 DEF Balance
  <2>2. e.evals = e.runs + e.errCost /\ e.evals \in Int /\ e.errCost \in Int /\ e.runs \in Nat
    BY <1>2 DEF Accounts
  <2>3. QED
    BY <1>2, <2>1, <2>2 DEF Accounts
<1>4. ~OverLimit(d) \/ ctx.overBudget => Accounts(d) /\ Balance(d) = Balance(ctx)
  BY <1>1 DEF Accounts, Balance
<1>5. QED
  BY <1>3, <1>4 DEF d, e

LEMMA RunLedger ==
  ASSUME WalkInv, LedgerInv, RunSkipped \/ RunOverLimit \/ RunBoolean \/ RunTooDeep
  PROVE  LedgerInv'
<1>1. At("enter") /\ Exit /\ stack # <<>>
  BY DEF RunSkipped, RunOverLimit, RunBoolean, RunTooDeep, Runs, At
<1>2. opts.limit \in Int /\ opts.stop \in BOOLEAN /\ Accounts(ctx)
  BY <1>1, TopAccounts
<1>3. Runs => /\ Accounts(Counted) /\ Balance(Counted) = Balance(ctx)
              /\ Accounts(AddError(Counted)) /\ Balance(AddError(Counted)) = Balance(ctx)
  BY <1>2, CountedAccounts, PlainErrorAccounts DEF Runs
<1>4. Accounts(ctx') /\ Balance(ctx') = Balance(ctx)
  <2>1. CASE RunSkipped
    BY <1>2, <2>1 DEF RunSkipped
  <2>2. CASE RunOverLimit
    BY <1>2, <2>2, CountedAccounts DEF RunOverLimit
  <2>3. CASE RunBoolean
    BY <1>3, <2>3 DEF RunBoolean
  <2>4. CASE RunTooDeep
    BY <1>3, <2>4 DEF RunTooDeep
  <2>5. QED
    BY <2>1, <2>2, <2>3, <2>4
<1>5. QED
  BY <1>1, <1>4, ExitLedger

LEMMA KeywordLedger ==
  ASSUME WalkInv, LedgerInv, LoopEnds \/ Assertion \/ Annotate \/ RefFails \/ TooManyKeys
  PROVE  LedgerInv'
<1>1. stack # <<>>
  BY DEF LoopEnds, Assertion, Annotate, RefFails, TooManyKeys, Starts, At
<1>2. opts.limit \in Int /\ opts.stop \in BOOLEAN /\ Accounts(ctx) /\ AccountInv(Top)
  BY <1>1, TopAccounts
<1>3. Accounts(AddError(ctx)) /\ Balance(AddError(ctx)) = Balance(ctx)
  BY <1>2, PlainErrorAccounts
<1>4. CASE LoopEnds
  BY <1>2, <1>4, ExitLedger DEF LoopEnds
<1>5. CASE Assertion
  <2>1. Accounts(ctx') /\ Balance(ctx') = Balance(ctx)
    BY <1>2, <1>3, <1>5 DEF Assertion
  <2>2. QED
    BY <1>5, <2>1, SkipLedger DEF Assertion
<1>6. CASE Annotate
  <2>1. Accounts(ctx') /\ Balance(ctx') = Balance(ctx)
    BY <1>2, <1>6, EmptyTyped, AnnotationAccounts DEF Annotate
  <2>2. QED
    BY <1>6, <2>1, SkipLedger DEF Annotate
<1>7. CASE RefFails
  <2>1. Accounts(ctx') /\ Balance(ctx') = Balance(ctx)
    BY <1>3, <1>7 DEF RefFails
  <2>2. QED
    BY <1>7, <2>1, SkipLedger DEF RefFails
<1>8. CASE TooManyKeys
  <2> DEFINE c == [ctx EXCEPT !.keyCountFired = @ \cup {Top.at}]
  <2>1. Top.at \in Value
    BY <1>2 DEF AccountInv, FrameOK
  <2>2. Accounts(c) /\ Balance(c) = Balance(ctx)
    BY <1>2, <2>1 DEF Accounts, Balance, ContextFields, OverLimit
  <2>3. ctx' = ctx \/ ctx' = AddError(c)
    BY <1>8 DEF TooManyKeys
  <2> HIDE DEF c
  <2>4. Accounts(AddError(c)) /\ Balance(AddError(c)) = Balance(ctx)
    BY <1>2, <2>2, PlainErrorAccounts
  <2>5. Accounts(ctx') /\ Balance(ctx') = Balance(ctx)
    BY <1>2, <2>3, <2>4
  <2>6. QED
    BY <1>8, <2>5, SkipLedger DEF TooManyKeys
<1>9. QED
  BY <1>4, <1>5, <1>6, <1>7, <1>8

LEMMA EnterLedger ==
  ASSUME WalkInv, LedgerInv, RunEnter
  PROVE  LedgerInv'
<1> DEFINE f == [Top EXCEPT !.phase = "next", !.entered = TRUE,
                            !.owns = ReadsScope(Top.sub) /\ ~ctx.needScope]
           c == [Counted EXCEPT !.needScope = @ \/ ReadsScope(Top.sub),
                                !.dyn = IF Schema[Top.sub].crosses
                                        THEN Append(@, Schema[Top.sub].resource) ELSE @,
                                !.depth = @ + 1]
<1>1. /\ stack # <<>> /\ UNCHANGED call /\ Top.phase = "enter" /\ Runs
      /\ SetTop(f) /\ ctx' = c
  BY DEF RunEnter, Runs, At
<1>2. FrameInv(Top) /\ AccountInv(Top) /\ Accounts(ctx)
  BY <1>1, TopAccounts
<1>3. /\ f.phase = "next" /\ f.sub = Top.sub /\ f.at = Top.at /\ f.mode = Top.mode
      /\ f.pos = Top.pos /\ f.next = Top.next /\ f.todo = Top.todo /\ f.acc = Top.acc
      /\ f.saved = Top.saved
  BY <1>2 DEF FrameInv, FrameFields
<1> DEFINE d == Counted
<1>4. Accounts(d) /\ Balance(d) = Balance(ctx)
  BY <1>1, <1>2, CountedAccounts DEF Runs
<1> HIDE DEF d
<1>5. /\ DOMAIN c = ContextFields /\ c.errors = d.errors /\ c.scope = d.scope
      /\ c.needScope = (d.needScope \/ ReadsScope(Top.sub)) /\ c.stopFired = d.stopFired
      /\ c.overBudget = d.overBudget /\ c.failCount = d.failCount
      /\ c.refDepth = d.refDepth /\ c.depth = d.depth + 1 /\ c.runs = d.runs
      /\ c.keyCountFired = d.keyCountFired
      /\ c.evals = d.evals /\ c.errCost = d.errCost
  BY <1>4 DEF d, Accounts, ContextFields
<1>6. ReadsScope(Top.sub) \in BOOLEAN
  BY DEF ReadsScope, Has
<1> HIDE DEF c, f
<1>7. Accounts(c) /\ Balance(c) = Balance(ctx)
  BY <1>4, <1>5, <1>6 DEF Accounts, Balance, OverLimit
<1>8. AccountInv(f)
  BY <1>2, <1>3 DEF AccountInv, FrameOK
<1>9. Aside(f) = Aside(Top)
  BY <1>1, <1>3 DEF Aside, IsBranch
<1>10. QED
  BY <1>1, <1>3, <1>7, <1>8, <1>9, MoveLedger

LEMMA TodoTyped ==
  ASSUME NEW v \in Value, NEW t \in Seq(VisitsOf(v))
  PROVE  \A to \in ToSet(t) : (to.sub \in Sub \/ to.mode = "error") /\ to.at \in Value
<1>1. ToSet(t) \subseteq VisitsOf(v)
  BY DEF ToSet
<1>2. \A to \in VisitsOf(v) : (to.sub \in Sub \/ to.mode = "error") /\ to.at \in Value
  BY DEF VisitsOf
<1>3. QED
  BY <1>1, <1>2

LEMMA LocalsTyped ==
  /\ Locals.causes = NoErrors /\ Locals.causes \in ErrorsType /\ Locals.causes.w = 0
  /\ Locals.cost = 0 /\ Locals.passed = 0
  /\ Locals.matched = {} /\ Locals.kept.scope \in ScopeType
BY EmptyTyped DEF Locals, NoErrors, NoBranch, ErrorsType

LEMMA LoopLedger ==
  ASSUME WalkInv, LedgerInv, RefEnters \/ Apply
  PROVE  LedgerInv'
<1> DEFINE k == Keyword(Top)
<1>1. /\ stack # <<>> /\ UNCHANGED call /\ Top.phase = "next"
      /\ Top.next <= Len(Evaluators(Top.sub))
  BY DEF RefEnters, Apply, Starts, At
<1>2. FrameInv(Top) /\ AccountInv(Top) /\ Accounts(ctx) /\ opts.limit \in Int
  BY <1>1, TopAccounts
<1>3. Top.sub \in Sub /\ Top.at \in Value
  BY <1>2 DEF AccountInv, FrameOK
<1>4. k \in DOMAIN Schema[Top.sub].kws
  <2>1. Top.next \in 1..Len(Evaluators(Top.sub))
    <3>1. Len(Evaluators(Top.sub)) \in Nat /\ Top.next \in 1..Len(Evaluators(Top.sub)) + 1
      BY <1>2, EvaluatorsTyped DEF AccountInv, FrameOK
    <3>2. QED
      BY <1>1, <3>1
  <2>2. QED
    BY <2>1, EvaluatorsTyped DEF Keyword
<1>5. PICK visits \in Seq(VisitsOf(Top.at)) : Loop(visits)
  <2>1. CASE RefEnters
    <3> DEFINE target == RefTarget(Top.sub, k, ctx.dyn)
    <3>1. k \in Refs /\ target # None /\ Loop(<< To(target, Top.at, "inplace") >>)
      BY <2>1 DEF RefEnters, Starts
    <3>2. ctx.dyn \in Seq(ToSet(ctx.dyn))
      BY DEF WalkInv, Shape
    <3> HIDE DEF k
    <3>3. target \in Sub
      BY <1>3, <1>4, <3>1, <3>2, RefTargetTyped
    <3> DEFINE to == To(target, Top.at, "inplace")
               W == VisitsOf(Top.at)
    <3> HIDE DEF target
    <3>4. to \in W
      BY <3>3, HereVisit
    <3>5. Loop(<< to >>)
      BY <3>1 DEF target
    <3> HIDE DEF to, W
    <3>6. << to >> \in Seq(W)
      BY <3>4
    <3>7. QED
      BY <3>5, <3>6 DEF W
  <2>2. CASE Apply
    <3>1. k \in Applicators /\ Loop(Visits(Top.sub, k, Top.at, ctx))
      BY <2>2 DEF Apply, Starts
    <3> HIDE DEF k
    <3>2. Visits(Top.sub, k, Top.at, ctx) \in Seq(VisitsOf(Top.at))
      BY <1>3, <1>4, <3>1, VisitsTyped
    <3>3. QED
      BY <3>1, <3>2
  <2>3. QED
    BY <2>1, <2>2
<1> DEFINE f == [Top EXCEPT !.phase = "loop", !.acc = Locals, !.todo = visits]
<1>6. SetTop(f)
  BY <1>5 DEF Loop
<1>7. /\ f.phase = "loop" /\ f.sub = Top.sub /\ f.at = Top.at /\ f.mode = Top.mode
      /\ f.pos = Top.pos /\ f.next = Top.next /\ f.todo = visits /\ f.acc = Locals
      /\ f.saved = Top.saved
  BY <1>2 DEF FrameInv, FrameFields
<1> HIDE DEF f
<1>8. \A to \in ToSet(visits) : (to.sub \in Sub \/ to.mode = "error") /\ to.at \in Value
  BY <1>3, TodoTyped
<1>9. FrameOK(f)
  BY <1>2, <1>7, <1>8, LocalsTyped DEF AccountInv, FrameOK
<1>10. CausesInv(f)
  BY <1>1, <1>7, LocalsTyped DEF CausesInv
<1>11. AccountInv(f)
  BY <1>2, <1>7, <1>9, <1>10, LocalsTyped DEF AccountInv
<1>12. Aside(f) = Aside(Top)
  BY <1>1, <1>7, LocalsTyped, TopAccounts DEF Aside, IsBranch
<1>13. Accounts(ctx') /\ Balance(ctx') = Balance(ctx)
  <2>1. CASE RefEnters
    <3>1. ctx' = [ctx EXCEPT !.refDepth = @ + 1] /\ ctx.refDepth + 1 <= opts.maxRefDepth
      BY <2>1 DEF RefEnters
    <3>2. opts.maxRefDepth \in Int
      BY OptionsTyped DEF LedgerInv
    <3>3. ctx.refDepth + 1 <= Larger(opts.maxRefDepth, 0) /\ ctx.refDepth + 1 \in Nat
      BY <1>2, <3>1, <3>2 DEF Larger, Accounts
    <3> DEFINE hops == ctx.refDepth + 1
    <3>4. ctx' = [ctx EXCEPT !.refDepth = hops]
      BY <3>1
    <3> HIDE DEF hops
    <3>5. hops <= Larger(opts.maxRefDepth, 0) /\ hops \in Nat
      BY <3>3 DEF hops
    <3>6. QED
      BY <1>2, <3>4, <3>5 DEF Accounts, Balance, ContextFields, OverLimit
  <2>2. CASE Apply
    BY <1>2, <2>2 DEF Apply
  <2>3. QED
    BY <2>1, <2>2
<1>14. QED
  BY <1>1, <1>6, <1>7, <1>11, <1>12, <1>13, MoveLedger

(* The head of what is left to visit, and the rest. *)
LEMMA TodoRest ==
  ASSUME NEW S, NEW t \in Seq(S), t # <<>>
  PROVE  Head(t) \in S /\ Tail(t) \in Seq(S)
OBVIOUS

(* The top frame with one visit less to make. *)
LEMMA TodoTail ==
  ASSUME WalkInv, LedgerInv, stack # <<>>, Top.phase = "loop", Top.todo # <<>>
  PROVE  LET f == [Top EXCEPT !.todo = Tail(@)] IN
         /\ AccountInv(f) /\ Aside(f) = Aside(Top)
         /\ f.saved = Top.saved /\ f.at = Top.at /\ f.mode = Top.mode
<1> DEFINE f == [Top EXCEPT !.todo = Tail(@)]
<1>1. FrameInv(Top) /\ AccountInv(Top)
  BY TopAccounts
<1>2. /\ f.phase = Top.phase /\ f.sub = Top.sub /\ f.at = Top.at /\ f.mode = Top.mode
      /\ f.pos = Top.pos /\ f.next = Top.next /\ f.todo = Tail(Top.todo) /\ f.acc = Top.acc
      /\ f.saved = Top.saved
  BY <1>1 DEF FrameInv, FrameFields
<1> HIDE DEF f
<1>3. Top.at \in Value /\ Top.todo \in Seq(VisitsOf(Top.at))
  BY <1>1 DEF AccountInv, FrameOK
<1>4. Tail(Top.todo) \in Seq(VisitsOf(Top.at))
  BY <1>3, TodoRest
<1>5. \A to \in ToSet(f.todo) : (to.sub \in Sub \/ to.mode = "error") /\ to.at \in Value
  BY <1>2, <1>3, <1>4, TodoTyped
<1>6. FrameOK(f)
  BY <1>1, <1>2, <1>5 DEF AccountInv, FrameOK
<1>7. CausesInv(f)
  BY <1>1, <1>2 DEF AccountInv, CausesInv, Keyword
<1>8. AccountInv(f)
  BY <1>1, <1>2, <1>4, <1>6, <1>7 DEF AccountInv
<1>9. Aside(f) = Aside(Top)
  BY <1>2 DEF Aside, IsBranch
<1>10. QED
  BY <1>2, <1>8, <1>9 DEF f

LEMMA MissingLedger ==
  ASSUME WalkInv, LedgerInv, MissingName
  PROVE  LedgerInv'
<1> DEFINE f == [Top EXCEPT !.todo = Tail(@)]
<1>1. /\ stack # <<>> /\ UNCHANGED call /\ Top.phase = "loop" /\ Top.todo # <<>> /\ SetTop(f)
      /\ ctx' \in {ctx, AddError(ctx)}
  BY DEF MissingName, At
<1>2. /\ AccountInv(f) /\ Aside(f) = Aside(Top)
      /\ f.saved = Top.saved /\ f.at = Top.at /\ f.mode = Top.mode
  BY <1>1, TodoTail
<1> HIDE DEF f
<1>3. Accounts(ctx') /\ Balance(ctx') = Balance(ctx)
  BY <1>1, TopAccounts, PlainErrorAccounts
<1>4. QED
  BY <1>1, <1>2, <1>3, MoveLedger

(* What a branch sets aside is what its buffer is empty of. *)
LEMMA PreparedAccounts ==
  ASSUME opts.maxRefDepth \in Int, NEW c, Accounts(c),
         NEW mode \in {"inplace", "child", "branch", "item"}
  PROVE  /\ Accounts(Prepared(c, mode))
         /\ Balance(Prepared(c, mode)) =
              Balance(c) + IF mode \in {"branch", "item"} THEN c.errors.w ELSE 0
<1>1. 0 <= Larger(opts.maxRefDepth, 0) /\ NoErrors \in ErrorsType /\ NoErrors.w = 0
  BY DEF Larger, NoErrors, ErrorsType
<1> DEFINE d == Prepared(c, mode)
           hops == IF mode \in {"child", "item"} THEN 0 ELSE c.refDepth
           held == IF mode \in {"branch", "item"} THEN NoErrors ELSE c.errors
           fired == IF mode \in {"branch", "item"} THEN FALSE ELSE c.stopFired
           need == IF mode = "child" THEN FALSE ELSE c.needScope
<1>2. /\ hops \in Nat /\ hops <= Larger(opts.maxRefDepth, 0) /\ held \in ErrorsType
      /\ fired \in BOOLEAN /\ need \in BOOLEAN
  BY <1>1 DEF Accounts
<1>3. /\ DOMAIN d = ContextFields /\ d.scope = EmptyScope
      /\ d.errors = held /\ d.stopFired = fired /\ d.needScope = need /\ d.refDepth = hops
      /\ d.failCount = c.failCount /\ d.depth = c.depth /\ d.runs = c.runs
      /\ d.keyCountFired = c.keyCountFired /\ d.evals = c.evals /\ d.errCost = c.errCost
      /\ d.overBudget = c.overBudget
  <2>1. CASE mode = "inplace"
    BY <2>1 DEF Prepared, Accounts, ContextFields
  <2>2. CASE mode = "child"
    BY <2>2 DEF Prepared, Accounts, ContextFields
  <2>3. CASE mode = "branch"
    BY <2>3 DEF Prepared, Accounts, ContextFields
  <2>4. CASE mode = "item"
    BY <2>4 DEF Prepared, Accounts, ContextFields
  <2>5. QED
    BY <2>1, <2>2, <2>3, <2>4
<1>4. held.w = IF mode \in {"branch", "item"} THEN 0 ELSE c.errors.w
  BY <1>1
<1> HIDE DEF d, hops, held, fired, need
<1>5. Accounts(d)
  BY <1>2, <1>3, EmptyTyped DEF Accounts, OverLimit
<1>6. Balance(d) = Balance(c) + IF mode \in {"branch", "item"} THEN c.errors.w ELSE 0
  BY <1>3, <1>4 DEF Balance, Accounts, ErrorsType
<1>7. QED
  BY <1>5, <1>6 DEF d

LEMMA VisitLedger ==
  ASSUME WalkInv, LedgerInv, Visit
  PROVE  LedgerInv'
<1> DEFINE to == Head(Top.todo)
           f == [Top EXCEPT !.todo = Tail(@)]
           g == Frame(to, ctx)
<1>1. /\ stack # <<>> /\ UNCHANGED call /\ Top.phase = "loop" /\ Top.todo # <<>>
      /\ to.mode # "error" /\ ctx' = Prepared(ctx, to.mode)
      /\ stack' = Append([stack EXCEPT ![Len(stack)].todo = Tail(@)], g)
  BY DEF Visit, At
<1>2. /\ AccountInv(Top) /\ Accounts(ctx) /\ Balance(ctx) \in Nat /\ Settles(Top, ctx)
      /\ Balance(Top.saved) \in Nat
  BY <1>1, TopAccounts
<1>3. [stack EXCEPT ![Len(stack)].todo = Tail(@)] = [stack EXCEPT ![Len(stack)] = f]
  BY DEF Top
<1>4. stack' = Append([stack EXCEPT ![Len(stack)] = f], g)
  BY <1>1, <1>3
<1>5. /\ AccountInv(f) /\ Aside(f) = Aside(Top)
      /\ f.saved = Top.saved /\ f.at = Top.at /\ f.mode = Top.mode
  BY <1>1, TodoTail
<1>6. Settles(f, ctx)
  BY <1>2, <1>5 DEF Settles
<1>7. Top.at \in Value /\ to \in VisitsOf(Top.at)
  BY <1>1, <1>2, TodoRest DEF AccountInv, FrameOK
<1> HIDE DEF to, f
<1>8. /\ to.sub \in Sub /\ to.at \in Value /\ to.pos \in Nat
      /\ to.mode \in {"inplace", "child", "branch", "item"}
      /\ to.mode \in {"inplace", "branch"} => to.at = Top.at
      /\ to.mode \in {"child", "item"} => Height[to.at] < Height[Top.at]
  BY <1>1, <1>7 DEF VisitsOf
<1>9. /\ g.sub = to.sub /\ g.at = to.at /\ g.mode = to.mode /\ g.pos = to.pos
      /\ g.phase = "enter" /\ g.next = 1 /\ g.todo = <<>> /\ g.acc = Locals /\ g.saved = ctx
  BY DEF Frame
<1> HIDE DEF g
<1>10. Nested(f, g)
  BY <1>5, <1>8, <1>9 DEF Nested
<1>11. AccountInv(g)
  <2>1. 1 \in 1..Len(Evaluators(g.sub)) + 1
    <3>1. Len(Evaluators(g.sub)) \in Nat
      BY EvaluatorsTyped
    <3>2. QED
      BY <3>1
  <2>2. <<>> \in Seq(VisitsOf(g.at))
    OBVIOUS
  <2>3. ToSet(<<>>) = {}
    BY DEF ToSet
  <2>4. ContextInv(ctx)
    BY DEF LedgerInv
  <2>5. FrameOK(g)
    BY <1>8, <1>9, <2>1, <2>3, <2>4, LocalsTyped DEF FrameOK, ContextInv
  <2>6. QED
    BY <1>8, <1>9, <2>2, <2>4, <2>5, LocalsTyped DEF AccountInv
<1>12. opts.maxRefDepth \in Int
  BY OptionsTyped DEF LedgerInv
<1>13. /\ Accounts(ctx')
       /\ Balance(ctx') =
            Balance(ctx) + IF to.mode \in {"branch", "item"} THEN ctx.errors.w ELSE 0
  BY <1>1, <1>2, <1>8, <1>12, PreparedAccounts
<1>14. Settles(g, ctx')
  <2>1. Aside(g) = IF to.mode \in {"branch", "item"} THEN ctx.errors.w ELSE 0
    <3>1. ctx.errors.w \in Nat
      BY <1>2 DEF Accounts, ErrorsType
    <3>2. QED
      BY <1>9, <3>1 DEF Aside, IsBranch
  <2>2. QED
    BY <1>9, <1>13, <2>1 DEF Settles
<1>15. QED
  BY <1>1, <1>4, <1>5, <1>6, <1>9, <1>10, <1>11, <1>13, <1>14, PushLedger

(* The end of a keyword spends the causes it has collected, and their charge:  *)
(* on the error that holds them, or, when the cap drops that, by a refund.     *)
LEMMA EndedAccounts ==
  ASSUME opts.limit \in Int, opts.stop \in BOOLEAN, opts.maxRefDepth \in Int,
         NEW c, Accounts(c), NEW f, AccountInv(f), f.phase = "loop",
         Keyword(f) \in Refs => c.refDepth \in Nat \ {0}
  PROVE  /\ Accounts(Ended(f, Keyword(f), c))
         /\ Balance(Ended(f, Keyword(f), c)) = Balance(c) - f.acc.causes.w
<1> DEFINE k == Keyword(f)
           causes == f.acc.causes
<1>1. /\ causes \in ErrorsType /\ causes.w \in Nat /\ f.acc.cost = causes.w
      /\ f.at \in Value /\ f.acc.matched \subseteq Nat /\ f.acc.kept.scope \in ScopeType
      /\ f.acc.passed \in 0..2
      /\ f.acc.passed > 0 \/ k \notin {"anyOf", "oneOf"} => causes.w = 0
  BY DEF AccountInv, FrameOK, CausesInv, ErrorsType
<1>2. Balance(c) \in Int /\ (causes.w = 0 => Balance(c) - causes.w = Balance(c))
  BY DEF Balance, Accounts, ErrorsType
<1> HIDE DEF k, causes
<1>3. CASE k \in Refs
  <2>1. Ended(f, k, c) = [c EXCEPT !.refDepth = @ - 1]
    BY <1>3 DEF Ended, Refs
  <2> DEFINE hops == c.refDepth - 1
  <2>2. hops \in Nat /\ hops <= Larger(opts.maxRefDepth, 0)
    <3>1. c.refDepth \in Nat \ {0} /\ c.refDepth <= Larger(opts.maxRefDepth, 0)
      BY <1>3 DEF Accounts, k
    <3>2. QED
      BY <3>1 DEF Larger
  <2>3. Ended(f, k, c) = [c EXCEPT !.refDepth = hops]
    BY <2>1
  <2> HIDE DEF hops
  <2>4. Accounts(Ended(f, k, c)) /\ Balance(Ended(f, k, c)) = Balance(c)
    BY <2>2, <2>3 DEF Accounts, Balance, ContextFields, OverLimit
  <2>5. k \notin {"anyOf", "oneOf"}
    BY <1>3 DEF Refs
  <2>6. QED
    BY <1>1, <1>2, <2>4, <2>5 DEF k, causes
<1>4. CASE k \in {"anyOf", "oneOf"}
  <2> DEFINE failed == AddCausesError(c, causes, causes.w)
             marked == AddBranchAnnotations(c, f.acc.kept)
  <2>1. \/ Ended(f, k, c) = failed
        \/ f.acc.passed > 0 /\ Ended(f, k, c) \in {c, marked}
    BY <1>1, <1>4 DEF Ended, Refs, AnyOfEnds, OneOfEnds, causes
  <2>2. Accounts(failed) /\ Balance(failed) = Balance(c) - causes.w
    BY <1>1, ErrorAccounts
  <2>3. Accounts(marked) /\ Balance(marked) = Balance(c)
    BY <1>1, AnnotationAccounts
  <2> HIDE DEF failed, marked
  <2>4. QED
    BY <1>1, <1>2, <2>1, <2>2, <2>3 DEF k, causes
<1>5. CASE k = "contains"
  <2> DEFINE kw == Kw(f.sub, "contains")
             count == Cardinality(f.acc.matched)
             low == IF count < kw.min THEN AddError(c) ELSE c
             high == IF kw.max # None /\ count > kw.max THEN AddError(low) ELSE low
             learnt == [EmptyScope EXCEPT !.contained = f.acc.matched]
             marked == Record(high, f, "contains", learnt)
  <2>1. Ended(f, k, c) \in {c, high, marked}
    BY <1>5 DEF Ended, ContainsEnds, Refs
  <2>2. Accounts(low) /\ Balance(low) = Balance(c)
    BY PlainErrorAccounts
  <2> HIDE DEF low
  <2>3. Accounts(high) /\ Balance(high) = Balance(c)
    BY <2>2, PlainErrorAccounts
  <2>4. learnt \in ScopeType
    BY <1>1, EmptyTyped DEF ScopeType, EmptyScope
  <2> HIDE DEF high, learnt
  <2>5. Accounts(marked) /\ Balance(marked) = Balance(c)
    BY <2>3, <2>4, AnnotationAccounts
  <2> HIDE DEF marked
  <2>6. QED
    BY <1>1, <1>2, <1>5, <2>1, <2>3, <2>5 DEF k, causes
<1>6. CASE k \notin Refs /\ k \notin {"anyOf", "oneOf", "contains"}
  <2> DEFINE learnt == Evaluated(f.sub, k, f.at, c.scope)
  <2>1. Ended(f, k, c) \in {c, Record(c, f, k, learnt)}
    BY <1>6 DEF Ended
  <2>2. learnt \in ScopeType
    BY <1>1, EvaluatedTyped
  <2> HIDE DEF learnt
  <2>3. Accounts(Record(c, f, k, learnt)) /\ Balance(Record(c, f, k, learnt)) = Balance(c)
    BY <2>2, AnnotationAccounts
  <2>4. QED
    BY <1>1, <1>2, <1>6, <2>1, <2>3 DEF k, causes
<1>7. QED
  BY <1>3, <1>4, <1>5, <1>6

LEMMA EndLedger ==
  ASSUME WalkInv, LedgerInv, KeywordEnds
  PROVE  LedgerInv'
<1> DEFINE f == [Top EXCEPT !.phase = "next", !.next = @ + 1]
<1>1. /\ stack # <<>> /\ UNCHANGED call /\ Top.phase = "loop" /\ SetTop(f)
      /\ ctx' = Ended(Top, Keyword(Top), ctx)
  BY DEF KeywordEnds, At
<1>2. /\ FrameInv(Top) /\ AccountInv(Top) /\ Accounts(ctx) /\ Settles(Top, ctx)
      /\ opts.limit \in Int /\ opts.stop \in BOOLEAN /\ Top.acc.causes.w \in Nat
      /\ Balance(Top.saved) \in Nat /\ Top.saved.errors.w \in Nat
  BY <1>1, TopAccounts
<1>3. /\ f.phase = "next" /\ f.sub = Top.sub /\ f.at = Top.at /\ f.mode = Top.mode
      /\ f.pos = Top.pos /\ f.next = Top.next + 1 /\ f.todo = Top.todo /\ f.acc = Top.acc
      /\ f.saved = Top.saved
  BY <1>2 DEF FrameInv, FrameFields
<1> HIDE DEF f
<1>4. opts.maxRefDepth \in Int
  BY OptionsTyped DEF LedgerInv
<1>5. Keyword(Top) \in Refs => ctx.refDepth \in Nat \ {0}
  <2>1. Owes(Top, ctx) /\ GivenHops(Top) \in Nat
    BY <1>1, <1>2, TopIsFrame DEF FrameInv, Shape, GivenHops
  <2>2. QED
    BY <1>1, <2>1 DEF Owes
<1>6. Accounts(ctx') /\ Balance(ctx') = Balance(ctx) - Top.acc.causes.w
  BY <1>1, <1>2, <1>4, <1>5, EndedAccounts
<1>7. f.next \in 1..Len(Evaluators(f.sub)) + 1
  <2>1. /\ Len(Evaluators(Top.sub)) \in Nat /\ Top.next \in 1..Len(Evaluators(Top.sub)) + 1
        /\ Top.next <= Len(Evaluators(Top.sub))
    BY <1>1, <1>2, EvaluatorsTyped DEF AccountInv, FrameOK, CausesInv
  <2>2. QED
    BY <1>3, <2>1
<1>8. AccountInv(f)
  BY <1>2, <1>3, <1>7 DEF AccountInv, FrameOK
<1>9. Settles(f, ctx')
  <2> DEFINE own == IF IsBranch(Top) THEN Top.saved.errors.w ELSE 0
  <2>1. own \in Nat
    BY <1>2
  <2>2. Aside(Top) = own + Top.acc.causes.w
    BY <1>1 DEF Aside
  <2>3. Aside(f) = own + 0
    BY <1>3 DEF Aside, IsBranch
  <2> HIDE DEF own
  <2>4. Balance(ctx) = Balance(Top.saved) + own + Top.acc.causes.w
    BY <1>2, <2>1, <2>2 DEF Settles
  <2>5. QED
    BY <1>2, <1>3, <1>6, <2>1, <2>3, <2>4 DEF Settles
<1>10. QED
  BY <1>1, <1>3, <1>6, <1>8, <1>9, TopLedger

-----------------------------------------------------------------------------
(* Returns, and the accounts *)

(* f and g are in the same call, at the same keyword. *)
SameCall(f, g) ==
    /\ g.sub = f.sub /\ g.at = f.at /\ g.mode = f.mode /\ g.pos = f.pos
    /\ g.phase = f.phase /\ g.next = f.next /\ g.saved = f.saved

LEMMA AbsorbedFrame ==
  ASSUME NEW f, AccountInv(f), f.phase = "loop", NEW g, SameCall(f, g),
         g.todo \in Seq(VisitsOf(f.at)), DOMAIN g.acc = DOMAIN Locals,
         g.acc.causes \in ErrorsType,
         g.acc.cost = g.acc.causes.w, g.acc.passed \in 0..2,
         g.acc.passed > 0 \/ Keyword(f) \notin {"anyOf", "oneOf"} => g.acc.causes.w = 0,
         g.acc.matched \subseteq Nat, g.acc.kept.scope \in ScopeType
  PROVE  AccountInv(g)
<1>1. g.acc.cost \in Nat
  BY DEF ErrorsType
<1>2. f.at \in Value
  BY DEF AccountInv, FrameOK
<1>3. \A to \in ToSet(g.todo) : (to.sub \in Sub \/ to.mode = "error") /\ to.at \in Value
  BY <1>2, TodoTyped
<1>4. FrameOK(g)
  BY <1>1, <1>3 DEF AccountInv, FrameOK, SameCall
<1>5. CausesInv(g)
  BY DEF AccountInv, CausesInv, SameCall, Keyword
<1>6. QED
  BY <1>4, <1>5 DEF AccountInv, SameCall

(* r is what a branch comes to. *)
ResultOK(r) ==
    /\ r.errors \in ErrorsType /\ r.scope \in ScopeType /\ r.pos \in Nat
    /\ r.cost = r.errors.w

LEMMA ResultTyped ==
  ASSUME NEW r, ResultOK(r)
  PROVE  r.cost \in Nat /\ r.errors.n \in Nat /\ r.errors.w \in Nat
BY DEF ResultOK, ErrorsType

LEMMA WeightsTyped ==
  ASSUME NEW c, Accounts(c), NEW f, AccountInv(f), NEW r, ResultOK(r)
  PROVE  Balance(c) \in Int /\ r.errors.w \in Nat /\ f.acc.causes.w \in Nat
<1>1. Balance(c) \in Int
  BY DEF Balance, Accounts, ErrorsType
<1>2. f.acc.causes.w \in Nat
  BY DEF AccountInv, FrameOK, ErrorsType
<1>3. QED
  BY <1>1, <1>2, ResultTyped

LEMMA JoinTyped ==
  ASSUME NEW e \in ErrorsType, NEW d \in ErrorsType
  PROVE  Join(e, d) \in ErrorsType /\ Join(e, d).w = e.w + d.w
<1>1. e.n + d.n \in Nat /\ e.w + d.w \in Nat
  BY DEF ErrorsType
<1>2. QED
  BY <1>1 DEF Join, ErrorsType

(* What the branch's errors weigh is given back, but for what the keyword      *)
(* keeps of them as causes.                                                    *)
Absorbed(f, c, r, b) ==
    /\ AccountInv(b.frame) /\ SameCall(f, b.frame)
    /\ Accounts(b.ctx)
    /\ Balance(b.ctx) = Balance(c) - r.errors.w + b.frame.acc.causes.w - f.acc.causes.w

LEMMA NotAbsorbs ==
  ASSUME opts.limit \in Int, opts.stop \in BOOLEAN, NEW c, Accounts(c),
         NEW f, FrameInv(f), AccountInv(f), f.phase = "loop", NEW r, ResultOK(r)
  PROVE  Absorbed(f, c, r, NotBranch(f, c, r))
<1> DEFINE d == RefundErrors(c, r.cost)
           b == NotBranch(f, c, r)
<1>1. b.frame = f /\ b.ctx = IF r.errors.n = 0 THEN AddError(d) ELSE d
  BY DEF NotBranch, Both
<1>2. Accounts(d) /\ Balance(d) = Balance(c) - r.errors.w
  BY ResultTyped, RefundAccounts DEF ResultOK
<1> HIDE DEF d, b
<1>3. Accounts(b.ctx) /\ Balance(b.ctx) = Balance(c) - r.errors.w
  BY <1>1, <1>2, PlainErrorAccounts
<1>4. Balance(c) \in Int /\ r.errors.w \in Nat /\ f.acc.causes.w \in Nat
  BY WeightsTyped
<1>5. QED
  BY <1>1, <1>3, <1>4 DEF Absorbed, SameCall, b

LEMMA ContainsAbsorbs ==
  ASSUME opts.limit \in Int, NEW c, Accounts(c),
         NEW f, FrameInv(f), AccountInv(f), f.phase = "loop", NEW r, ResultOK(r)
  PROVE  Absorbed(f, c, r, ContainsItem(f, c, r))
<1> DEFINE d == RefundErrors(c, r.cost)
           b == ContainsItem(f, c, r)
           matched == IF r.errors.n = 0 THEN f.acc.matched \cup {r.pos} ELSE f.acc.matched
           g == [f EXCEPT !.acc.matched = matched]
<1>1. b.ctx = d /\ b.frame = g
  BY DEF ContainsItem, Both
<1>2. Accounts(d) /\ Balance(d) = Balance(c) - r.errors.w
  BY ResultTyped, RefundAccounts DEF ResultOK
<1>3. matched \subseteq Nat
  BY DEF AccountInv, ResultOK
<1> HIDE DEF matched
<1>4. SameCall(f, g) /\ g.todo = f.todo /\ g.acc = [f.acc EXCEPT !.matched = matched]
  BY DEF FrameInv, FrameFields, SameCall
<1> HIDE DEF g
<1>5. /\ g.acc.causes = f.acc.causes /\ g.acc.cost = f.acc.cost /\ g.acc.passed = f.acc.passed
      /\ g.acc.kept = f.acc.kept /\ g.acc.matched \subseteq Nat /\ DOMAIN g.acc = DOMAIN Locals
  BY <1>3, <1>4 DEF AccountInv, FrameOK, Locals
<1>6. AccountInv(g)
  <2>1. /\ g.todo \in Seq(VisitsOf(f.at)) /\ g.acc.causes \in ErrorsType
        /\ g.acc.cost = g.acc.causes.w /\ g.acc.passed \in 0..2
        /\ g.acc.passed > 0 \/ Keyword(f) \notin {"anyOf", "oneOf"} => g.acc.causes.w = 0
        /\ g.acc.kept.scope \in ScopeType
    BY <1>4, <1>5 DEF AccountInv, FrameOK, CausesInv
  <2>2. QED
    BY <1>4, <1>5, <2>1, AbsorbedFrame
<1>7. Balance(c) \in Int /\ r.errors.w \in Nat /\ f.acc.causes.w \in Nat
  BY WeightsTyped
<1> HIDE DEF d, b
<1>8. QED
  BY <1>1, <1>2, <1>4, <1>5, <1>6, <1>7 DEF Absorbed, b

LEMMA OptionalTyped ==
  ASSUME NEW v, NEW s \in Sub \cup {None}
  PROVE  Optional(s, v) \in Seq(VisitsOf(v))
<1> DEFINE to == To(s, v, "inplace")
           W == VisitsOf(v)
<1>1. s # None => to \in W
  BY HereVisit
<1>2. Optional(s, v) = IF s = None THEN <<>> ELSE << to >>
  BY DEF Optional
<1> HIDE DEF to, W
<1>3. Optional(s, v) \in Seq(W)
  BY <1>1, <1>2
<1>4. QED
  BY <1>3 DEF W

LEMMA IfAbsorbs ==
  ASSUME opts.limit \in Int, NEW c, Accounts(c),
         NEW f, FrameInv(f), AccountInv(f), f.phase = "loop", Keyword(f) = "if",
         NEW r, ResultOK(r)
  PROVE  Absorbed(f, c, r, IfBranch(f, c, r))
<1> DEFINE d == RefundErrors(c, r.cost)
           b == IfBranch(f, c, r)
           kw == Kw(f.sub, "if")
           todo == Optional(IF r.errors.n = 0 THEN kw.then ELSE kw.else, f.at)
           g == [f EXCEPT !.todo = todo]
<1>1. b.frame = g /\ b.ctx = IF r.errors.n = 0 THEN AddBranchAnnotations(d, r) ELSE d
  BY DEF IfBranch, Both
<1>2. Accounts(d) /\ Balance(d) = Balance(c) - r.errors.w
  BY ResultTyped, RefundAccounts DEF ResultOK
<1>3. todo \in Seq(VisitsOf(f.at))
  <2>1. f.sub \in Sub /\ "if" \in DOMAIN Schema[f.sub].kws
    <3>1. /\ Len(Evaluators(f.sub)) \in Nat /\ f.next \in 1..Len(Evaluators(f.sub)) + 1
          /\ f.next <= Len(Evaluators(f.sub)) /\ f.sub \in Sub
      BY EvaluatorsTyped DEF AccountInv, FrameOK, CausesInv
    <3>2. f.next \in 1..Len(Evaluators(f.sub))
      BY <3>1
    <3>3. QED
      BY <3>1, <3>2, EvaluatorsTyped DEF Keyword
  <2>2. {kw.then, kw.else} \subseteq Sub \cup {None}
    BY <2>1, SchemaAssumption DEF Kw, KeywordOK
  <2> HIDE DEF kw
  <2>3. (IF r.errors.n = 0 THEN kw.then ELSE kw.else) \in Sub \cup {None}
    BY <2>2
  <2>4. QED
    BY <2>3, OptionalTyped
<1> HIDE DEF todo, d, b
<1>4. SameCall(f, g) /\ g.todo = todo /\ g.acc = f.acc
  BY DEF FrameInv, FrameFields, SameCall
<1> HIDE DEF g
<1>5. AccountInv(g)
  <2>1. /\ g.acc.causes \in ErrorsType /\ DOMAIN g.acc = DOMAIN Locals
        /\ g.acc.cost = g.acc.causes.w /\ g.acc.passed \in 0..2
        /\ g.acc.passed > 0 \/ Keyword(f) \notin {"anyOf", "oneOf"} => g.acc.causes.w = 0
        /\ g.acc.matched \subseteq Nat /\ g.acc.kept.scope \in ScopeType
    BY <1>4 DEF AccountInv, FrameOK, CausesInv
  <2>2. QED
    BY <1>3, <1>4, <2>1, AbsorbedFrame
<1>6. Accounts(b.ctx) /\ Balance(b.ctx) = Balance(c) - r.errors.w
  BY <1>1, <1>2, AnnotationAccounts DEF ResultOK
<1>7. Balance(c) \in Int /\ r.errors.w \in Nat /\ f.acc.causes.w \in Nat
  BY WeightsTyped
<1>8. QED
  BY <1>1, <1>4, <1>5, <1>6, <1>7 DEF Absorbed, b

(* The locals of an anyOf or oneOf that has collected one failed branch more. *)
LEMMA CollectedTyped ==
  ASSUME NEW f, AccountInv(f), f.phase = "loop", NEW r, ResultOK(r)
  PROVE  LET acc == [f.acc EXCEPT !.causes = Join(@, r.errors), !.cost = @ + r.cost] IN
         /\ acc.causes \in ErrorsType /\ acc.cost = acc.causes.w /\ DOMAIN acc = DOMAIN Locals
         /\ acc.causes.w = f.acc.causes.w + r.errors.w
         /\ acc.passed = f.acc.passed /\ acc.matched = f.acc.matched /\ acc.kept = f.acc.kept
<1> DEFINE acc == [f.acc EXCEPT !.causes = Join(@, r.errors), !.cost = @ + r.cost]
<1>1. /\ acc.causes = Join(f.acc.causes, r.errors) /\ acc.cost = f.acc.cost + r.cost
      /\ DOMAIN acc = DOMAIN Locals
      /\ acc.passed = f.acc.passed /\ acc.matched = f.acc.matched /\ acc.kept = f.acc.kept
  BY DEF AccountInv, FrameOK, Locals
<1>2. f.acc.causes \in ErrorsType /\ f.acc.cost = f.acc.causes.w
  BY DEF AccountInv, FrameOK, CausesInv
<1> HIDE DEF acc
<1>3. /\ acc.causes \in ErrorsType /\ acc.cost = acc.causes.w
      /\ acc.causes.w = f.acc.causes.w + r.errors.w
  BY <1>1, <1>2, JoinTyped DEF ResultOK
<1>4. QED
  BY <1>1, <1>3 DEF acc

LEMMA AnyOfAbsorbs ==
  ASSUME opts.limit \in Int, NEW c, Accounts(c),
         NEW f, FrameInv(f), AccountInv(f), f.phase = "loop", Keyword(f) = "anyOf",
         NEW r, ResultOK(r)
  PROVE  Absorbed(f, c, r, AnyOfBranch(f, c, r))
<1> DEFINE passes == r.errors.n = 0
           first == passes /\ f.acc.passed = 0
           d == IF passes \/ f.acc.passed > 0 THEN RefundErrors(c, r.cost) ELSE c
           e == IF first THEN RefundErrors(d, f.acc.cost) ELSE d
           acc == IF passes THEN [Locals EXCEPT !.passed = 1]
                  ELSE IF f.acc.passed > 0 THEN f.acc
                  ELSE [f.acc EXCEPT !.causes = Join(@, r.errors), !.cost = @ + r.cost]
           todo == IF passes /\ ~c.needScope /\ ~Public THEN <<>> ELSE f.todo
           g == [f EXCEPT !.acc = acc, !.todo = todo]
           b == AnyOfBranch(f, c, r)
<1>1. b.frame = g /\ b.ctx = IF passes THEN AddBranchAnnotations(e, r) ELSE e
  BY DEF AnyOfBranch, Both
<1>2. SameCall(f, g) /\ g.todo = todo /\ g.acc = acc
  BY DEF FrameInv, FrameFields, SameCall
<1>3. /\ Balance(c) \in Int /\ r.errors.w \in Nat /\ f.acc.causes.w \in Nat
      /\ f.acc.cost = f.acc.causes.w /\ r.cost = r.errors.w /\ f.acc.passed \in 0..2
      /\ f.acc.passed > 0 => f.acc.causes.w = 0
  BY WeightsTyped DEF AccountInv, FrameOK, CausesInv, ResultOK
<1>4. todo \in Seq(VisitsOf(f.at))
  <2>1. <<>> \in Seq(VisitsOf(f.at)) /\ f.todo \in Seq(VisitsOf(f.at))
    BY DEF AccountInv
  <2>2. QED
    BY <2>1
<1> HIDE DEF g, b, todo
<1>5. Accounts(d) /\ Balance(d) = IF passes \/ f.acc.passed > 0 THEN Balance(c) - r.errors.w
                                  ELSE Balance(c)
  BY <1>3, RefundAccounts
<1> HIDE DEF d
<1>6. /\ Accounts(e)
      /\ Balance(e) = IF first THEN Balance(d) - f.acc.causes.w ELSE Balance(d)
  BY <1>3, <1>5, RefundAccounts
<1> HIDE DEF e
<1>7. Accounts(b.ctx) /\ Balance(b.ctx) = Balance(e)
  BY <1>1, <1>6, AnnotationAccounts DEF ResultOK
<1>8. /\ acc.causes \in ErrorsType /\ DOMAIN acc = DOMAIN Locals /\ acc.cost = acc.causes.w /\ acc.passed \in 0..2
      /\ acc.passed > 0 => acc.causes.w = 0
      /\ acc.matched \subseteq Nat /\ acc.kept.scope \in ScopeType
      /\ acc.causes.w = IF passes THEN 0
                        ELSE IF f.acc.passed > 0 THEN f.acc.causes.w
                        ELSE f.acc.causes.w + r.errors.w
  <2>1. CASE passes
    <3>1. /\ acc.causes = Locals.causes /\ acc.cost = Locals.cost /\ acc.passed = 1
          /\ acc.matched = Locals.matched /\ acc.kept = Locals.kept /\ DOMAIN acc = DOMAIN Locals
      BY <2>1 DEF Locals
    <3> HIDE DEF acc
    <3>2. QED
      BY <2>1, <3>1, LocalsTyped
  <2>2. CASE ~passes /\ f.acc.passed > 0
    <3>1. acc = f.acc
      BY <2>2
    <3> HIDE DEF acc
    <3>2. QED
      BY <1>3, <2>2, <3>1 DEF AccountInv, FrameOK
  <2>3. CASE ~passes /\ ~(f.acc.passed > 0)
    <3> DEFINE more == [f.acc EXCEPT !.causes = Join(@, r.errors), !.cost = @ + r.cost]
    <3>0. /\ more.causes \in ErrorsType /\ more.cost = more.causes.w
          /\ DOMAIN more = DOMAIN Locals
          /\ more.causes.w = f.acc.causes.w + r.errors.w
          /\ more.passed = f.acc.passed /\ more.matched = f.acc.matched
          /\ more.kept = f.acc.kept
      BY CollectedTyped
    <3>1. acc = more
      BY <2>3
    <3> HIDE DEF acc, more
    <3>2. /\ acc.causes \in ErrorsType /\ acc.cost = acc.causes.w /\ DOMAIN acc = DOMAIN Locals
          /\ acc.causes.w = f.acc.causes.w + r.errors.w
          /\ acc.passed = f.acc.passed /\ acc.matched = f.acc.matched /\ acc.kept = f.acc.kept
      BY <3>0, <3>1
    <3>3. f.acc.matched \subseteq Nat /\ f.acc.kept.scope \in ScopeType
      BY DEF AccountInv
    <3>4. QED
      BY <1>3, <2>3, <3>2, <3>3
  <2>4. QED
    BY <2>1, <2>2, <2>3
<1> HIDE DEF acc
<1>9. AccountInv(g)
  BY <1>2, <1>4, <1>8, AbsorbedFrame
<1>10. Balance(b.ctx) = Balance(c) - r.errors.w + g.acc.causes.w - f.acc.causes.w
  BY <1>2, <1>3, <1>5, <1>6, <1>7, <1>8
<1>11. QED
  BY <1>1, <1>2, <1>7, <1>9, <1>10 DEF Absorbed, b

LEMMA OneOfAbsorbs ==
  ASSUME opts.limit \in Int, opts.stop \in BOOLEAN, NEW c, Accounts(c),
         NEW f, FrameInv(f), AccountInv(f), f.phase = "loop", Keyword(f) = "oneOf",
         NEW r, ResultOK(r)
  PROVE  Absorbed(f, c, r, OneOfBranch(f, c, r))
<1> DEFINE passes == r.errors.n = 0
           d == IF passes \/ f.acc.passed > 0 THEN RefundErrors(c, r.cost) ELSE c
           b == OneOfBranch(f, c, r)
<1>3. /\ Balance(c) \in Int /\ r.errors.w \in Nat /\ f.acc.causes.w \in Nat
      /\ f.acc.cost = f.acc.causes.w /\ r.cost = r.errors.w /\ f.acc.passed \in 0..2
      /\ f.acc.passed > 0 => f.acc.causes.w = 0
      /\ f.acc.causes \in ErrorsType /\ f.acc.matched \subseteq Nat
      /\ f.acc.kept.scope \in ScopeType /\ DOMAIN f.acc = DOMAIN Locals
  BY WeightsTyped DEF AccountInv, FrameOK, CausesInv, ResultOK
<1>4. <<>> \in Seq(VisitsOf(f.at)) /\ f.todo \in Seq(VisitsOf(f.at))
  BY DEF AccountInv
<1>5. Accounts(d) /\ Balance(d) = IF passes \/ f.acc.passed > 0 THEN Balance(c) - r.errors.w
                                  ELSE Balance(c)
  BY <1>3, RefundAccounts
<1>6. CASE passes /\ f.acc.passed = 0
  <2> DEFINE kept == [annos |-> r.annos, scope |-> r.scope]
             acc == [Locals EXCEPT !.passed = 1, !.kept = kept]
             g == [f EXCEPT !.acc = acc]
  <2>1. b.frame = g /\ b.ctx = RefundErrors(d, f.acc.cost)
    BY <1>6 DEF OneOfBranch, Both
  <2>2. SameCall(f, g) /\ g.todo = f.todo /\ g.acc = acc
    BY DEF FrameInv, FrameFields, SameCall
  <2>3. /\ acc.causes = Locals.causes /\ acc.cost = Locals.cost /\ acc.passed = 1
        /\ acc.matched = Locals.matched /\ acc.kept.scope = r.scope /\ DOMAIN acc = DOMAIN Locals
    BY DEF Locals
  <2> HIDE DEF acc, g, d, b
  <2>4. Accounts(b.ctx) /\ Balance(b.ctx) = Balance(d) - f.acc.causes.w
    BY <1>3, <1>5, <2>1, RefundAccounts
  <2>5. AccountInv(g)
    BY <1>4, <2>2, <2>3, LocalsTyped, AbsorbedFrame DEF ResultOK
  <2>6. Balance(b.ctx) = Balance(c) - r.errors.w + g.acc.causes.w - f.acc.causes.w
    BY <1>3, <1>5, <1>6, <2>2, <2>3, <2>4, LocalsTyped
  <2>7. QED
    BY <2>1, <2>2, <2>4, <2>5, <2>6 DEF Absorbed, b
<1>7. CASE passes /\ f.acc.passed = 1
  <2> DEFINE acc == [f.acc EXCEPT !.passed = 2]
             g == [f EXCEPT !.acc.passed = 2, !.todo = <<>>]
  <2>1. b.frame = g /\ b.ctx = AddError(d)
    BY <1>7 DEF OneOfBranch, Both
  <2>2. SameCall(f, g) /\ g.todo = <<>> /\ g.acc = acc
    BY DEF FrameInv, FrameFields, SameCall
  <2>3. /\ acc.causes = f.acc.causes /\ acc.cost = f.acc.cost /\ acc.passed = 2
        /\ acc.matched = f.acc.matched /\ acc.kept = f.acc.kept /\ DOMAIN acc = DOMAIN Locals
    BY <1>3 DEF Locals
  <2> HIDE DEF acc, g, d, b
  <2>4. Accounts(b.ctx) /\ Balance(b.ctx) = Balance(d)
    BY <1>5, <2>1, PlainErrorAccounts
  <2>5. AccountInv(g)
    <3>1. /\ g.todo \in Seq(VisitsOf(f.at)) /\ DOMAIN g.acc = DOMAIN Locals
          /\ g.acc.causes \in ErrorsType /\ g.acc.cost = g.acc.causes.w /\ g.acc.passed \in 0..2
          /\ g.acc.causes.w = 0 /\ g.acc.matched \subseteq Nat /\ g.acc.kept.scope \in ScopeType
      BY <1>3, <1>4, <1>7, <2>2, <2>3
    <3>2. QED
      BY <2>2, <3>1, AbsorbedFrame
  <2>6. Balance(b.ctx) = Balance(c) - r.errors.w + g.acc.causes.w - f.acc.causes.w
    BY <1>3, <1>5, <1>7, <2>2, <2>3, <2>4
  <2>7. QED
    BY <2>1, <2>2, <2>4, <2>5, <2>6 DEF Absorbed, b
<1>8. CASE ~passes /\ f.acc.passed = 0
  <2> DEFINE acc == [f.acc EXCEPT !.causes = Join(@, r.errors), !.cost = @ + r.cost]
             g == [f EXCEPT !.acc.causes = Join(@, r.errors), !.acc.cost = @ + r.cost]
  <2>1. b.frame = g /\ b.ctx = d
    BY <1>8 DEF OneOfBranch, Both
  <2>2. SameCall(f, g) /\ g.todo = f.todo /\ g.acc = acc
    BY DEF FrameInv, FrameFields, SameCall
  <2> HIDE DEF g, d, b
  <2>3. /\ acc.causes \in ErrorsType /\ acc.cost = acc.causes.w /\ DOMAIN acc = DOMAIN Locals
        /\ acc.causes.w = f.acc.causes.w + r.errors.w
        /\ acc.passed = f.acc.passed /\ acc.matched = f.acc.matched /\ acc.kept = f.acc.kept
    BY <1>3, CollectedTyped
  <2> HIDE DEF acc
  <2>4. AccountInv(g)
    BY <1>3, <1>4, <1>8, <2>2, <2>3, AbsorbedFrame
  <2>5. Balance(b.ctx) = Balance(c) - r.errors.w + g.acc.causes.w - f.acc.causes.w
    BY <1>3, <1>5, <1>8, <2>1, <2>2, <2>3
  <2>6. QED
    BY <1>5, <2>1, <2>2, <2>4, <2>5 DEF Absorbed, b
<1>9. CASE ~(passes /\ f.acc.passed \in {0, 1}) /\ ~(~passes /\ f.acc.passed = 0)
  <2>1. b.frame = f /\ b.ctx = d
    BY <1>9 DEF OneOfBranch, Both
  <2> HIDE DEF d, b
  <2>2. f.acc.passed > 0
    BY <1>3, <1>9
  <2>3. Balance(b.ctx) = Balance(c) - r.errors.w + f.acc.causes.w - f.acc.causes.w
    BY <1>3, <1>5, <2>1, <2>2
  <2>4. QED
    BY <1>5, <2>1, <2>3 DEF Absorbed, SameCall, b
<1>10. QED
  BY <1>6, <1>7, <1>8, <1>9

LEMMA AbsorbAccounts ==
  ASSUME opts.limit \in Int, opts.stop \in BOOLEAN, NEW c, Accounts(c),
         NEW f, FrameInv(f), AccountInv(f), f.phase = "loop", NEW r, ResultOK(r)
  PROVE  Absorbed(f, c, r, Absorb(f, Keyword(f), c, r))
<1>1. CASE Keyword(f) = "not"
  BY <1>1, NotAbsorbs DEF Absorb
<1>2. CASE Keyword(f) = "if"
  BY <1>2, IfAbsorbs DEF Absorb
<1>3. CASE Keyword(f) = "anyOf"
  BY <1>3, AnyOfAbsorbs DEF Absorb
<1>4. CASE Keyword(f) = "oneOf"
  BY <1>4, OneOfAbsorbs DEF Absorb
<1>5. CASE Keyword(f) \notin {"not", "if", "anyOf", "oneOf"}
  BY <1>5, ContainsAbsorbs DEF Absorb
<1>6. QED
  BY <1>1, <1>2, <1>3, <1>4, <1>5

(* The deferred functions of run have no part in the accounts. *)
LEMMA LeftAccounts ==
  ASSUME WalkInv, LedgerInv, stack # <<>>, Top.phase = "exit"
  PROVE  /\ Accounts(Left(Top)) /\ Balance(Left(Top)) = Balance(ctx)
         /\ Left(Top).errors = ctx.errors /\ Left(Top).errCost = ctx.errCost
<1> DEFINE d == Left(Top)
<1>1. Accounts(ctx) /\ FrameInv(Top) /\ Owes(Top, ctx) /\ Top.saved.depth \in Nat
  BY TopAccounts, TopIsFrame DEF FrameInv, Shape
<1>2. CASE ~Top.entered
  BY <1>1, <1>2 DEF Left
<1>3. CASE Top.entered
  <2>1. /\ DOMAIN d = ContextFields /\ d.errors = ctx.errors /\ d.scope = ctx.scope
        /\ d.needScope = (ctx.needScope /\ ~Top.owns) /\ d.stopFired = ctx.stopFired
        /\ d.overBudget = ctx.overBudget /\ d.failCount = ctx.failCount
        /\ d.refDepth = ctx.refDepth /\ d.depth = ctx.depth - 1 /\ d.runs = ctx.runs
        /\ d.keyCountFired = ctx.keyCountFired
        /\ d.evals = ctx.evals /\ d.errCost = ctx.errCost
    BY <1>1, <1>3 DEF Left, Accounts, ContextFields
  <2>2. d.depth \in Nat /\ d.needScope \in BOOLEAN
    BY <1>1, <1>3, <2>1 DEF Owes, FrameInv, Accounts
  <2> HIDE DEF d
  <2>3. Accounts(d) /\ Balance(d) = Balance(ctx)
    BY <1>1, <2>1, <2>2 DEF Accounts, Balance, OverLimit
  <2>4. QED
    BY <2>1, <2>3 DEF d
<1>4. QED
  BY <1>2, <1>3

LEMMA CallLedger ==
  ASSUME WalkInv, LedgerInv, ReturnInPlace \/ ReturnChild
  PROVE  LedgerInv'
<1> DEFINE c == Left(Top)
           f == stack[Len(stack) - 1]
<1>1. stack # <<>> /\ Top.phase = "exit" /\ UNCHANGED call /\ stack' = Front(stack)
  BY DEF ReturnInPlace, ReturnChild, At
<1>2. Accounts(c) /\ Balance(c) = Balance(ctx)
  BY <1>1, LeftAccounts
<1>3. /\ Settles(Top, ctx) /\ Accounts(Top.saved) /\ InLimits(Top.saved)
      /\ Balance(Top.saved) \in Nat
  BY <1>1, TopAccounts
<1>4. ~IsBranch(Top)
  BY DEF ReturnInPlace, ReturnChild, IsBranch
<1>5. Balance(c) = Balance(Top.saved)
  BY <1>1, <1>2, <1>3, <1>4 DEF Settles, Aside
<1>6. Accounts(ctx') /\ Balance(ctx') = Balance(c)
  <2>1. CASE ReturnInPlace
    <3> DEFINE scope == IF c.failCount = Top.saved.failCount
                        THEN Merge(Top.saved.scope, c.scope) ELSE Top.saved.scope
    <3>1. ctx' = [c EXCEPT !.scope = scope]
      BY <2>1 DEF ReturnInPlace
    <3>2. scope \in ScopeType
      BY <1>2, <1>3, MergeTyped DEF Accounts
    <3> HIDE DEF scope, c
    <3>3. QED
      BY <1>2, <3>1, <3>2 DEF Accounts, Balance, ContextFields, OverLimit
  <2>2. CASE ReturnChild
    <3>1. ctx' = [c EXCEPT !.scope = Top.saved.scope, !.needScope = Top.saved.needScope,
                           !.refDepth = Top.saved.refDepth]
      BY <2>2 DEF ReturnChild
    <3> HIDE DEF c
    <3>2. QED
      BY <1>2, <1>3, <3>1 DEF Accounts, Balance, ContextFields, OverLimit, InLimits
  <2>3. QED
    BY <2>1, <2>2
<1> HIDE DEF c
<1>7. Len(stack) > 1 => AccountInv(f) /\ Settles(f, Top.saved)
  <2> HAVE Len(stack) > 1
  <2>1. PICK n \in Nat \ {0} : Len(stack) - 1 = n /\ Len(stack) = n + 1
    BY <1>1, TopIsFrame
  <2>2. n \in 1..Len(stack) /\ n \in 1..Len(stack) - 1
    BY <2>1
  <2>3. Settles(stack[n], stack[n + 1].saved) /\ AccountInv(stack[n])
    BY <2>2 DEF LedgerInv
  <2>4. QED
    BY <2>1, <2>3 DEF Top
<1>8. Len(stack) > 1 => AccountInv(f) /\ Settles(f, ctx')
  BY <1>5, <1>6, <1>7 DEF Settles
<1>9. Len(stack) = 1 => Balance(ctx') = 0
  <2> HAVE Len(stack) = 1
  <2>1. Top = stack[1]
    BY DEF Top
  <2>2. Balance(Top.saved) = 0
    BY <1>1, <2>1 DEF LedgerInv
  <2>3. QED
    BY <1>5, <1>6, <2>2
<1>10. f = stack[Len(stack) - 1]
  OBVIOUS
<1> HIDE DEF f
<1>11. QED
  BY <1>1, <1>6, <1>8, <1>9, <1>10, PopLedger

LEMMA BranchLedger ==
  ASSUME WalkInv, LedgerInv, ReturnBranch
  PROVE  LedgerInv'
<1> DEFINE c == Left(Top)
           r == [errors |-> c.errors, annos |-> c.annos, scope |-> c.scope,
                 cost |-> c.errCost - Top.saved.errCost, pos |-> Top.pos]
           caller == stack[Len(stack) - 1]
           own == Restored(Top, c)
           b == Absorb(caller, Keyword(caller), own, r)
<1>1. /\ stack # <<>> /\ Top.phase = "exit" /\ UNCHANGED call /\ IsBranch(Top)
      /\ ctx' = b.ctx /\ stack' = [Front(stack) EXCEPT ![Len(stack) - 1] = b.frame]
  BY DEF ReturnBranch, At, IsBranch
<1>2. /\ Accounts(c) /\ Balance(c) = Balance(ctx)
      /\ c.errors = ctx.errors /\ c.errCost = ctx.errCost
  BY <1>1, LeftAccounts
<1>3. /\ Settles(Top, ctx) /\ Accounts(Top.saved) /\ InLimits(Top.saved)
      /\ Balance(Top.saved) \in Nat /\ Top.saved.errors.w \in Nat /\ AccountInv(Top)
      /\ opts.limit \in Int /\ opts.stop \in BOOLEAN
  BY <1>1, TopAccounts
<1>4. PICK n \in Nat \ {0} : Len(stack) - 1 = n /\ Len(stack) = n + 1
  <2>1. Len(stack) # 1
    <3> SUFFICES ASSUME Len(stack) = 1 PROVE FALSE
      OBVIOUS
    <3>1. Top = stack[1]
      BY DEF Top
    <3>2. Top.mode = "inplace"
      BY <1>1, <3>1 DEF LedgerInv
    <3>3. QED
      BY <1>1, <3>2 DEF IsBranch
  <2>2. PICK m \in Nat \ {0} : m = Len(stack)
    BY <1>1, TopIsFrame
  <2>3. m - 1 \in Nat \ {0} /\ m = (m - 1) + 1
    BY <2>1, <2>2
  <2>4. QED
    BY <2>2, <2>3
<1>5. /\ FrameInv(caller) /\ AccountInv(caller) /\ caller.phase = "loop"
      /\ Settles(caller, Top.saved)
  <2>1. n \in 1..Len(stack) /\ n \in 1..Len(stack) - 1
    BY <1>4
  <2>2. /\ Settles(stack[n], stack[n + 1].saved) /\ AccountInv(stack[n])
        /\ FrameInv(stack[n]) /\ stack[n].phase = "loop"
    BY <2>1 DEF LedgerInv, WalkInv
  <2>3. QED
    BY <1>4, <2>2 DEF Top
<1> HIDE DEF c
<1>6. /\ Balance(c) = Balance(Top.saved) + Top.saved.errors.w
      /\ c.errors.w \in Nat /\ c.errors \in ErrorsType /\ c.errCost \in Int
      /\ Top.saved.errCost \in Int
  <2>1. Aside(Top) = Top.saved.errors.w
    BY <1>1, <1>3 DEF Aside
  <2>2. QED
    BY <1>2, <1>3, <2>1 DEF Settles, Accounts, ErrorsType
<1>7. ResultOK(r)
  <2>1. c.errCost - Top.saved.errCost = c.errors.w
    BY <1>3, <1>6 DEF Balance
  <2>2. Top.pos \in Nat /\ c.scope \in ScopeType
    BY <1>2, <1>3 DEF AccountInv, Accounts
  <2>3. QED
    BY <1>6, <2>1, <2>2 DEF ResultOK
<1>8. Accounts(own) /\ Balance(own) = Balance(Top.saved) + r.errors.w
  <2> DEFINE hops == IF Top.mode = "item" THEN Top.saved.refDepth ELSE c.refDepth
  <2>1. hops \in Nat /\ hops <= Larger(opts.maxRefDepth, 0)
    BY <1>2, <1>3 DEF Accounts, InLimits
  <2>2. /\ DOMAIN own = ContextFields /\ own.errors = Top.saved.errors
        /\ own.scope = Top.saved.scope /\ own.needScope = c.needScope
        /\ own.stopFired = Top.saved.stopFired /\ own.overBudget = c.overBudget
        /\ own.failCount = Top.saved.failCount /\ own.refDepth = hops /\ own.depth = c.depth
        /\ own.runs = c.runs /\ own.keyCountFired = c.keyCountFired
        /\ own.evals = c.evals /\ own.errCost = c.errCost
    BY <1>2 DEF Restored, Accounts, ContextFields
  <2> HIDE DEF own, hops
  <2>3. Accounts(own)
    BY <1>2, <1>3, <2>1, <2>2 DEF Accounts, OverLimit
  <2>4. Balance(own) = Balance(Top.saved) + c.errors.w
    BY <1>3, <1>6, <2>2 DEF Balance
  <2>5. QED
    BY <2>3, <2>4
<1> HIDE DEF r, own, caller
<1>9. Absorbed(caller, own, r, b)
  BY <1>3, <1>5, <1>7, <1>8, AbsorbAccounts
<1>10. caller.acc.causes.w \in Nat /\ r.errors.w \in Nat /\ caller.saved.errors.w \in Nat
  <2>1. caller.acc.causes.w \in Nat
    BY <1>5 DEF AccountInv, FrameOK, ErrorsType
  <2>2. caller.saved.errors.w \in Nat
    BY <1>5 DEF AccountInv, ContextInv, ContextOK, ErrorsType
  <2>3. QED
    BY <1>7, <2>1, <2>2, ResultTyped
<1> DEFINE g == b.frame
<1>11. AccountInv(g) /\ SameCall(caller, g) /\ Accounts(ctx')
  BY <1>1, <1>9 DEF Absorbed
<1>12. Settles(g, ctx')
  <2> DEFINE base == IF IsBranch(caller) THEN caller.saved.errors.w ELSE 0
  <2>1. base \in Nat
    BY <1>10
  <2>2. Aside(caller) = base + caller.acc.causes.w
    BY <1>5 DEF Aside
  <2>3. Aside(g) = base + g.acc.causes.w
    BY <1>5, <1>11 DEF Aside, IsBranch, SameCall
  <2>4. g.acc.causes.w \in Nat
    BY <1>11 DEF AccountInv, FrameOK, ErrorsType
  <2>5. Balance(ctx') = Balance(own) - r.errors.w + g.acc.causes.w - caller.acc.causes.w
    BY <1>1, <1>9 DEF Absorbed
  <2> HIDE DEF base, g, b
  <2>6. Balance(caller.saved) \in Nat /\ g.saved = caller.saved
    BY <1>5, <1>11 DEF AccountInv, ContextInv, SameCall
  <2>7. Balance(Top.saved) = Balance(caller.saved) + (base + caller.acc.causes.w)
    BY <1>5, <2>2 DEF Settles
  <2>8. QED
    BY <1>8, <1>10, <2>1, <2>3, <2>4, <2>5, <2>6, <2>7 DEF Settles
<1>13. stack' = [Front(stack) EXCEPT ![Len(stack) - 1] = g] /\ Len(stack) > 1
       /\ caller = stack[Len(stack) - 1] /\ Len(stack) # 1
  BY <1>1, <1>4 DEF caller
<1> HIDE DEF g, b
<1>14. QED
  BY <1>1, <1>11, <1>12, <1>13, PopLedger DEF SameCall

-----------------------------------------------------------------------------
LEMMA LedgerInit == Init => LedgerInv
<1> SUFFICES ASSUME Init PROVE LedgerInv
  OBVIOUS
<1> DEFINE c == Context(schema)
           f == Frame(To(schema, instance, "inplace"), c)
<1>1. call \in Validations /\ ctx = Prepared(c, "inplace") /\ stack = << f >>
  <2>1. PICK v \in Validations : schema = v[1] /\ instance = v[2] /\ opts = v[3]
    BY DEF Init
  <2>2. v = <<v[1], v[2], v[3]>>
    BY ValidationAssumption
  <2>3. QED
    BY <2>1, <2>2 DEF Init, call
<1>2. /\ opts \in OptionsType /\ schema \in Sub /\ instance \in Value
      /\ opts.limit \in Int /\ opts.maxRefDepth \in Int
  BY <1>1, OptionsTyped
<1>3. /\ DOMAIN c = ContextFields /\ c.errors = NoErrors /\ c.scope = EmptyScope
      /\ c.needScope = FALSE /\ c.stopFired = FALSE /\ c.overBudget = FALSE
      /\ c.failCount = 0 /\ c.refDepth = 0 /\ c.depth = 0 /\ c.runs = 0
      /\ c.keyCountFired = {} /\ c.evals = 0 /\ c.errCost = 0
  BY DEF Context, ContextFields
<1>4. NoErrors \in ErrorsType /\ NoErrors.w = 0
  BY DEF NoErrors, ErrorsType
<1> HIDE DEF c
<1>5. 0 <= Larger(opts.maxRefDepth, 0) /\ ~OverLimit(c)
  BY <1>2, <1>3 DEF Larger, OverLimit
<1>6. Accounts(c) /\ Balance(c) = 0
  <2>1. c.needScope \in BOOLEAN /\ c.stopFired \in BOOLEAN /\ c.overBudget \in BOOLEAN
    BY <1>3
  <2>2. c.refDepth <= Larger(opts.maxRefDepth, 0) /\ c.evals = c.runs + c.errCost
    BY <1>3, <1>5
  <2>3. Accounts(c)
    BY <1>3, <1>4, <1>5, <2>1, <2>2, EmptyTyped DEF Accounts
  <2>4. QED
    BY <1>3, <1>4, <2>3 DEF Balance
<1>7. Accounts(ctx) /\ Balance(ctx) = 0
  BY <1>1, <1>2, <1>6, PreparedAccounts
<1>8. /\ ContextInv(c) /\ InLimits(c) /\ ContextInv(ctx) /\ InLimits(ctx)
  BY <1>6, <1>7, ContextOfAccounts
<1>9. /\ f.sub = schema /\ f.at = instance /\ f.mode = "inplace" /\ f.pos = 0
      /\ f.phase = "enter" /\ f.next = 1 /\ f.todo = <<>> /\ f.acc = Locals /\ f.saved = c
  BY DEF Frame, To
<1> HIDE DEF f
<1>10. AccountInv(f)
  <2>1. 1 \in 1..Len(Evaluators(f.sub)) + 1
    <3>1. Len(Evaluators(f.sub)) \in Nat
      BY EvaluatorsTyped
    <3>2. QED
      BY <3>1
  <2>2. <<>> \in Seq(VisitsOf(f.at))
    OBVIOUS
  <2>3. ToSet(<<>>) = {}
    BY DEF ToSet
  <2>4. FrameOK(f)
    BY <1>2, <1>8, <1>9, <2>1, <2>3, LocalsTyped DEF FrameOK, ContextInv
  <2>5. QED
    BY <1>8, <1>9, <2>2, <2>4, LocalsTyped DEF AccountInv
<1>11. Settles(f, ctx)
  BY <1>6, <1>7, <1>9 DEF Settles, Aside, IsBranch
<1>12. Len(stack) = 1 /\ stack[1] = f /\ Top = f /\ stack # <<>>
  BY <1>1 DEF Top
<1>13. QED
  BY <1>1, <1>3, <1>6, <1>8, <1>9, <1>10, <1>11, <1>12 DEF LedgerInv

LEMMA LedgerStep == WalkInv /\ LedgerInv /\ [Next]_vars => LedgerInv'
<1> SUFFICES ASSUME WalkInv, LedgerInv, [Next]_vars PROVE LedgerInv'
  OBVIOUS
<1>1. CASE RunSkipped \/ RunOverLimit \/ RunBoolean \/ RunTooDeep
  BY <1>1, RunLedger
<1>2. CASE RunEnter
  BY <1>2, EnterLedger
<1>3. CASE LoopEnds \/ Assertion \/ Annotate \/ RefFails \/ TooManyKeys
  BY <1>3, KeywordLedger
<1>4. CASE RefEnters \/ Apply
  BY <1>4, LoopLedger
<1>5. CASE Visit
  BY <1>5, VisitLedger
<1>6. CASE MissingName
  BY <1>6, MissingLedger
<1>7. CASE KeywordEnds
  BY <1>7, EndLedger
<1>8. CASE ReturnInPlace \/ ReturnChild
  BY <1>8, CallLedger
<1>9. CASE ReturnBranch
  BY <1>9, BranchLedger
<1>10. CASE UNCHANGED vars
  BY <1>10 DEF vars, call, LedgerInv, Top, InLimits, OverLimit
<1>11. QED
  BY <1>1, <1>2, <1>3, <1>4, <1>5, <1>6, <1>7, <1>8, <1>9, <1>10 DEF Next

LEMMA LedgerAlways == Spec => []LedgerInv
BY LedgerInit, LedgerStep, WalkAlways, PTL DEF Spec

-----------------------------------------------------------------------------
(* What the accounts come to *)

(* What is set aside below a frame is the balance that its caller handed over. *)
LEMMA HeldIsCharged ==
  ASSUME LedgerInv, stack \in Seq(ToSet(stack))
  PROVE  Held = ctx.errCost
<1> DEFINE n == Len(stack)
           Def(f) == f = [i \in 0..n |-> IF i = 0 THEN 0 ELSE f[i - 1] + Aside(stack[i])]
           g == [i \in 0..n |-> IF i < n THEN Balance(stack[i + 1].saved) ELSE Balance(ctx)]
           upTo == CHOOSE f : Def(f)
<1>1. n \in Nat /\ (n = 0 => stack = <<>>) /\ (n > 0 => stack # <<>>)
  OBVIOUS
<1>2. Held = ctx.errors.w + upTo[n]
  BY DEF Held
<1>3. /\ n > 0 => Balance(stack[1].saved) = 0 /\ Settles(stack[n], ctx)
      /\ n = 0 => Balance(ctx) = 0
      /\ \A i \in 1..n - 1 : Settles(stack[i], stack[i + 1].saved)
  BY <1>1 DEF LedgerInv, Top
<1> HIDE DEF n
<1>4. \A i \in 0..n : g[i] = IF i = 0 THEN 0 ELSE g[i - 1] + Aside(stack[i])
  <2> SUFFICES ASSUME NEW i \in 0..n
               PROVE  g[i] = IF i = 0 THEN 0 ELSE g[i - 1] + Aside(stack[i])
    OBVIOUS
  <2>1. CASE i = 0
    <3>1. CASE n = 0
      BY <1>3, <2>1, <3>1
    <3>2. CASE n # 0
      <4>1. 0 < n /\ 0 + 1 = 1
        BY <1>1, <3>2
      <4>2. QED
        BY <1>3, <2>1, <4>1
    <3>3. QED
      BY <3>1, <3>2
  <2>2. CASE i # 0
    <3>1. i - 1 \in 0..n /\ i - 1 < n /\ i - 1 + 1 = i
      BY <1>1, <2>2
    <3>2. g[i - 1] = Balance(stack[i].saved)
      BY <3>1
    <3>3. g[i] = Balance(stack[i].saved) + Aside(stack[i])
      <4>1. CASE i = n
        BY <1>1, <1>3, <2>2, <4>1 DEF Settles
      <4>2. CASE i # n
        <5>1. i \in 1..n - 1 /\ i < n
          BY <1>1, <2>2, <4>2
        <5>2. QED
          BY <1>3, <5>1 DEF Settles
      <4>3. QED
        BY <4>1, <4>2
    <3> HIDE DEF g
    <3>4. QED
      BY <2>2, <3>2, <3>3
  <2>3. QED
    BY <2>1, <2>2
<1>5. Def(g)
  <2>1. g = [i \in 0..n |-> g[i]]
    OBVIOUS
  <2> HIDE DEF g
  <2>2. QED
    BY <1>4, <2>1
<1>6. Def(upTo)
  <2> HIDE DEF g
  <2>1. QED
    BY <1>5
<1> HIDE DEF upTo
<1> DEFINE I == {i \in Nat : i <= n => upTo[i] = g[i]}
<1>7. 0 \in I
  <2>1. 0 \in 0..n
    BY <1>1
  <2>2. upTo[0] = 0
    BY <1>6, <2>1
  <2>3. g[0] = 0
    BY <1>4, <2>1
  <2>4. QED
    BY <2>2, <2>3
<1>8. ASSUME NEW i \in Nat, i \in I
      PROVE  i + 1 \in I
  <2> SUFFICES ASSUME i + 1 <= n PROVE upTo[i + 1] = g[i + 1]
    OBVIOUS
  <2>1. i + 1 \in 0..n /\ i + 1 # 0 /\ i + 1 - 1 = i /\ upTo[i] = g[i]
    BY <1>1, <1>8
  <2>2. \A j \in 0..n : upTo[j] = IF j = 0 THEN 0 ELSE upTo[j - 1] + Aside(stack[j])
    BY <1>6
  <2> HIDE DEF g, Def
  <2>3. PICK j \in 0..n : j = i + 1 /\ j # 0 /\ j - 1 = i
    BY <2>1
  <2>4. upTo[j] = upTo[i] + Aside(stack[j]) /\ g[j] = g[i] + Aside(stack[j])
    BY <1>4, <2>2, <2>3
  <2>5. QED
    BY <2>1, <2>3, <2>4
<1> HIDE DEF I
<1>9. n \in I
  BY <1>1, <1>7, <1>8, SetInduction
<1>10. upTo[n] = Balance(ctx)
  BY <1>1, <1>9 DEF I
<1>11. ctx.errors.w \in Nat /\ ctx.errCost \in Nat
  BY DEF LedgerInv, ContextInv, ContextOK, ErrorsType
<1>12. QED
  BY <1>2, <1>10, <1>11 DEF Balance

(* chargeErrors, refundErrors and the places that call them: the budget is     *)
(* charged for what the validation holds, neither more nor less.               *)
THEOREM BudgetBalances == Spec => []Ledger
<1>1. WalkInv /\ LedgerInv => Ledger
  <2> SUFFICES ASSUME WalkInv, LedgerInv PROVE Ledger
    OBVIOUS
  <2>1. Held = ctx.errCost
    BY HeldIsCharged DEF WalkInv
  <2>2. ctx.evals = ctx.runs + ctx.errCost
    BY DEF LedgerInv, ContextInv
  <2>3. QED
    BY <2>1, <2>2 DEF Ledger
<1>2. QED
  BY <1>1, WalkAlways, LedgerAlways, PTL

(* run's and chargeErrors' checks against WithMaxEvaluations: until the        *)
(* validation is marked as over its budget, it is within it.                   *)
THEOREM BudgetKept == Spec => []WithinBudget
<1>1. WalkInv /\ LedgerInv => WithinBudget
  <2> SUFFICES ASSUME WalkInv, LedgerInv, opts.limit >= 0, ~ctx.overBudget
               PROVE  ctx.runs + Held <= opts.limit
    BY DEF WithinBudget
  <2>1. Held = ctx.errCost
    BY HeldIsCharged DEF WalkInv
  <2>2. ctx.evals = ctx.runs + ctx.errCost /\ ~OverLimit(ctx) /\ ctx.evals \in Nat
    BY DEF LedgerInv, ContextInv, ContextOK, InLimits
  <2>3. opts.limit \in Int
    BY OptionsTyped DEF LedgerInv
  <2>4. QED
    BY <2>1, <2>2, <2>3 DEF OverLimit
<1>2. QED
  BY <1>1, WalkAlways, LedgerAlways, PTL

-----------------------------------------------------------------------------
(* References open at one location *)

IsHop(f) == f.phase = "loop" /\ Keyword(f) \in Refs
Hops(f) == GivenHops(f) + IF IsHop(f) THEN 1 ELSE 0

(* The references open at v in the first n frames. *)
OpenUpTo(n, v) == {i \in 1..n : stack[i].at = v /\ IsHop(stack[i])}

LEMMA OpenFinite ==
  ASSUME NEW n \in Nat, NEW v
  PROVE  IsFiniteSet(OpenUpTo(n, v)) /\ Cardinality(OpenUpTo(n, v)) \in Nat
<1>1. OpenUpTo(n, v) \subseteq 1..n
  BY DEF OpenUpTo
<1>2. IsFiniteSet(1..n)
  BY FS_Interval
<1>3. QED
  BY <1>1, <1>2, FS_Subset, FS_CardinalityType

LEMMA OpenNext ==
  ASSUME NEW n \in Nat, NEW v
  PROVE  Cardinality(OpenUpTo(n + 1, v)) =
           Cardinality(OpenUpTo(n, v))
             + IF stack[n + 1].at = v /\ IsHop(stack[n + 1]) THEN 1 ELSE 0
<1> DEFINE S == OpenUpTo(n, v)
           next == stack[n + 1].at = v /\ IsHop(stack[n + 1])
<1>1. OpenUpTo(n + 1, v) = IF next THEN S \cup {n + 1} ELSE S
  <2>1. \A i : i \in 1..n + 1 <=> i \in 1..n \/ i = n + 1
    OBVIOUS
  <2>2. QED
    BY <2>1 DEF OpenUpTo
<1>2. n + 1 \notin S
  BY DEF OpenUpTo
<1>3. IsFiniteSet(S) /\ Cardinality(S) \in Nat
  BY OpenFinite
<1> HIDE DEF S, next
<1>4. Cardinality(S \cup {n + 1}) = Cardinality(S) + 1
  BY <1>2, <1>3, FS_AddElement
<1>5. QED
  BY <1>1, <1>3, <1>4 DEF S, next

(* Every frame was called with the hops its location has had, and the hops it  *)
(* passes on are within the limit.                                             *)
LEMMA HopsPassed ==
  ASSUME WalkInv, LedgerInv, NEW i \in 1..Len(stack)
  PROVE  /\ Hops(stack[i]) \in Nat /\ Hops(stack[i]) <= Larger(opts.maxRefDepth, 0)
         /\ i < Len(stack) =>
              GivenHops(stack[i + 1]) =
                IF stack[i + 1].mode \in {"inplace", "branch"} THEN Hops(stack[i]) ELSE 0
         /\ i = 1 => GivenHops(stack[i]) = 0
<1>1. Len(stack) \in Nat /\ stack # <<>>
  BY DEF WalkInv
<1>2. GivenHops(stack[i]) \in Nat
  BY DEF WalkInv, FrameInv, Shape, GivenHops
<1>3. Hops(stack[i]) \in Nat
  BY <1>2 DEF Hops
<1>4. CASE i = Len(stack)
  <2>1. ctx.refDepth = Hops(stack[i])
    BY <1>1, <1>4 DEF WalkInv, Owes, Hops, IsHop, Top
  <2>2. ctx.refDepth <= Larger(opts.maxRefDepth, 0)
    BY DEF LedgerInv, InLimits
  <2>3. i = 1 => GivenHops(stack[i]) = 0
    BY <1>1 DEF LedgerInv, GivenHops
  <2>4. QED
    BY <1>1, <1>3, <1>4, <2>1, <2>2, <2>3
<1>5. CASE i # Len(stack)
  <2>1. i \in 1..Len(stack) - 1 /\ i + 1 \in 1..Len(stack)
    BY <1>1, <1>5
  <2>2. stack[i + 1].saved.refDepth = Hops(stack[i])
    BY <2>1 DEF WalkInv, Owes, Hops, IsHop
  <2>3. stack[i + 1].saved.refDepth <= Larger(opts.maxRefDepth, 0)
    BY <2>1 DEF LedgerInv, InLimits
  <2>4. i = 1 => GivenHops(stack[i]) = 0
    BY <1>1 DEF LedgerInv, GivenHops
  <2>5. GivenHops(stack[i + 1]) =
          IF stack[i + 1].mode \in {"inplace", "branch"} THEN Hops(stack[i]) ELSE 0
    BY <2>2 DEF GivenHops
  <2>6. QED
    BY <1>3, <2>2, <2>3, <2>4, <2>5
<1>6. QED
  BY <1>4, <1>5

(* A call is at its caller's location with its caller's hops, or in a part of  *)
(* the instance that no frame below has been at.                               *)
LEMMA HopsLimited ==
  ASSUME WalkInv, LedgerInv, NEW v
  PROVE  Cardinality(OpenUpTo(Len(stack), v)) <= Larger(opts.maxRefDepth, 0)
<1> DEFINE n == Len(stack)
           max == Larger(opts.maxRefDepth, 0)
           count(i, w) == Cardinality(OpenUpTo(i, w))
           level(i) == Height[stack[i].at]
           Fine(i) ==
             /\ \A w : count(i, w) <= max
             /\ i > 0 =>
                  /\ count(i, stack[i].at) <= Hops(stack[i])
                  /\ \A j \in 1..i : level(i) <= level(j)
           I == {i \in Nat : i <= n => Fine(i)}
<1>1. n \in Nat /\ max \in Nat
  BY OptionsTyped DEF WalkInv, LedgerInv, Larger
<1>2. /\ \A i \in Nat : \A w : count(i, w) \in Nat
      /\ \A i \in Nat : \A w :
           count(i + 1, w) =
             count(i, w) + IF stack[i + 1].at = w /\ IsHop(stack[i + 1]) THEN 1 ELSE 0
  BY OpenFinite, OpenNext
<1>3. \A w : count(0, w) = 0
  <2>1. \A w : OpenUpTo(0, w) = {}
    BY DEF OpenUpTo
  <2>2. QED
    BY <2>1, FS_EmptySet
<1>4. \A i \in 1..n :
        /\ Hops(stack[i]) \in Nat /\ Hops(stack[i]) <= max
        /\ i < n => GivenHops(stack[i + 1]) =
                      IF stack[i + 1].mode \in {"inplace", "branch"} THEN Hops(stack[i]) ELSE 0
        /\ i = 1 => GivenHops(stack[i]) = 0
  BY HopsPassed
<1>5. \A i \in 1..n : level(i) \in Nat
  BY InstanceAssumption DEF LedgerInv, AccountInv, FrameOK
<1>6. \A i \in 1..n - 1 :
        IF stack[i + 1].mode \in {"inplace", "branch"}
        THEN stack[i + 1].at = stack[i].at ELSE level(i + 1) < level(i)
  BY DEF LedgerInv, Nested
<1> HIDE DEF n, max, count, level
<1>7. 0 \in I
  BY <1>1, <1>3
<1>8. ASSUME NEW i \in Nat, i \in I
      PROVE  i + 1 \in I
  <2> SUFFICES ASSUME i + 1 <= n PROVE Fine(i + 1)
    BY <1>1
  <2>1. PICK m \in 1..n : m = i + 1
    BY <1>1
  <2> DEFINE hop == IF IsHop(stack[m]) THEN 1 ELSE 0
  <2>2. Fine(i)
    BY <1>1, <1>8
  <2>3. \A w : count(m, w) = count(i, w) + IF stack[m].at = w THEN hop ELSE 0
    BY <1>2, <2>1
  <2>4. Hops(stack[m]) = GivenHops(stack[m]) + hop /\ hop \in {0, 1}
    BY DEF Hops
  <2>5. GivenHops(stack[m]) \in Nat
    BY DEF WalkInv, FrameInv, Shape, GivenHops, n
  <2>6. \A j \in 1..m : j = m \/ j \in 1..i
    BY <2>1
  <2> HIDE DEF hop
  <2>7. count(i, stack[m].at) <= GivenHops(stack[m]) /\ \A j \in 1..m : level(m) <= level(j)
    <3>1. CASE i = 0
      <4>1. count(i, stack[m].at) = 0
        BY <1>3, <3>1
      <4>2. \A j \in 1..m : j = m
        BY <2>1, <3>1
      <4>3. QED
        BY <1>5, <2>5, <4>1, <4>2
    <3>2. CASE i # 0
      <4>1. i \in 1..n /\ i < n /\ i \in 1..n - 1 /\ i > 0 /\ i \in 1..i
        BY <1>1, <2>1, <3>2
      <4>2. count(i, stack[i].at) <= Hops(stack[i]) /\ \A j \in 1..i : level(i) <= level(j)
        BY <2>2, <4>1
      <4>3. \A j \in 1..i : j \in 1..n
        BY <1>1, <4>1
      <4>4. CASE stack[m].mode \in {"inplace", "branch"}
        <5>1. stack[m].at = stack[i].at /\ GivenHops(stack[m]) = Hops(stack[i])
          BY <1>4, <1>6, <2>1, <4>1, <4>4
        <5>2. level(m) = level(i)
          BY <5>1 DEF level
        <5>3. QED
          BY <1>5, <2>6, <4>2, <4>3, <5>1, <5>2
      <4>5. CASE stack[m].mode \notin {"inplace", "branch"}
        <5>1. level(m) < level(i)
          BY <1>6, <2>1, <4>1, <4>5
        <5>2. \A j \in 1..i : level(m) < level(j)
          BY <1>5, <4>1, <4>2, <4>3, <5>1
        <5>3. \A j \in 1..i : stack[j].at # stack[m].at
          <6>1. \A j \in 1..i : level(m) # level(j)
            BY <1>5, <4>3, <5>2
          <6>2. QED
            BY <6>1 DEF level
        <5>4. OpenUpTo(i, stack[m].at) = {}
          BY <5>3 DEF OpenUpTo
        <5>5. count(i, stack[m].at) = 0
          BY <5>4, FS_EmptySet DEF count
        <5>6. QED
          BY <1>5, <2>5, <2>6, <4>3, <5>2, <5>5
      <4>6. QED
        BY <4>4, <4>5
    <3>3. QED
      BY <3>1, <3>2
  <2>8. count(m, stack[m].at) <= Hops(stack[m])
    BY <1>2, <2>3, <2>4, <2>5, <2>7
  <2>9. ASSUME NEW w
        PROVE  count(m, w) <= max
    <3>1. CASE w = stack[m].at
      BY <1>1, <1>2, <1>4, <2>8, <3>1
    <3>2. CASE w # stack[m].at
      BY <1>2, <2>2, <2>3, <3>2
    <3>3. QED
      BY <3>1, <3>2
  <2>10. QED
    BY <2>1, <2>7, <2>8, <2>9
<1> HIDE DEF I
<1>9. n \in I
  BY <1>1, <1>7, <1>8, SetInduction
<1>10. QED
  BY <1>1, <1>9 DEF I, n, max, count

(* A $ref that is part of a cycle is not followed at one location of the       *)
(* instance more often than maxRefDepth says (evalRef), whatever the schema.   *)
THEOREM HopsBound == Spec => []HopsBounded
<1>1. ASSUME WalkInv, LedgerInv
      PROVE  HopsBounded
  <2> SUFFICES ASSUME NEW f \in ToSet(stack)
               PROVE  Cardinality(OpenRefs(f.at)) <= Larger(opts.maxRefDepth, 0)
    BY DEF HopsBounded
  <2>1. DOMAIN stack = 1..Len(stack)
    BY <1>1 DEF WalkInv
  <2>2. OpenRefs(f.at) = OpenUpTo(Len(stack), f.at)
    BY <2>1 DEF OpenRefs, OpenUpTo, IsHop
  <2>3. QED
    BY <1>1, <2>2, HopsLimited
<1>2. QED
  BY <1>1, WalkAlways, LedgerAlways, PTL

(* Everything the evaluator keeps has the shape its code expects: the call,    *)
(* the context and each run frame (schema.go Validate, evalCtx, runResult).    *)
THEOREM TypesHold == Spec => []TypeOK
<1>1. ASSUME WalkInv, LedgerInv
      PROVE  TypeOK
  <2>1. call \in Validations /\ ContextOK(ctx)
    BY <1>1 DEF LedgerInv, ContextInv
  <2>2. ASSUME NEW f \in ToSet(stack)
        PROVE  FrameOK(f)
    <3>1. DOMAIN stack = 1..Len(stack)
      BY <1>1 DEF WalkInv
    <3>2. PICK i \in 1..Len(stack) : f = stack[i]
      BY <2>2, <3>1 DEF ToSet
    <3>3. QED
      BY <1>1, <3>2 DEF LedgerInv, AccountInv
  <2>3. QED
    BY <2>1, <2>2 DEF TypeOK
<1>2. QED
  BY <1>1, WalkAlways, LedgerAlways, PTL

(* All that the three limits of a validation promise at once: what is charged  *)
(* is what is held and counted, a validation is within its budget until it is  *)
(* marked as over it, and neither runs nor references go deeper than allowed.  *)
THEOREM LimitsAlwaysHold == Spec => []LimitsHold
BY TypesHold, WalkAlways, LedgerAlways, BudgetBalances, BudgetKept, DepthLimit, HopsBound, PTL
   DEF LimitsHold
=============================================================================
