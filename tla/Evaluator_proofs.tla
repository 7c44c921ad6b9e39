-------------------------- MODULE Evaluator_proofs --------------------------
(***************************************************************************)
(* Proofs about Evaluator for any graph of subschemas, any instances and    *)
(* any options: a return restores the caller's context, and the walk nests  *)
(* no deeper than its limit.                                                *)
(***************************************************************************)
EXTENDS Evaluator, SequenceTheorems, TLAPS

(* A sequence is one of its own elements. *)
LEMMA OwnElements ==
  ASSUME NEW S, NEW s \in Seq(S)
  PROVE  s \in Seq(ToSet(s))
<1>1. PICK n \in Nat : s \in [1..n -> S]
  BY SeqDef
<1>2. \A i \in 1..n : s[i] \in ToSet(s)
  BY <1>1 DEF ToSet
<1>3. s \in [1..n -> ToSet(s)]
  BY <1>1, <1>2
<1>4. QED
  BY <1>1, <1>3, SeqDef

LEMMA NoElements ==
  ASSUME NEW s, s \in Seq(ToSet(s)), Len(s) = 0
  PROVE  s = <<>>
<1>1. \A t \in Seq(ToSet(s)) : t # <<>> => Len(t) \in Nat \ {0}
  BY EmptySeq
<1>2. QED
  BY <1>1

(* What EXCEPT, Append and Front make of a sequence. *)
LEMMA ReplaceSeq ==
  ASSUME NEW s, s \in Seq(ToSet(s)), NEW i \in 1..Len(s), NEW e
  PROVE  /\ [s EXCEPT ![i] = e] \in Seq(ToSet([s EXCEPT ![i] = e]))
         /\ Len([s EXCEPT ![i] = e]) = Len(s) /\ Len(s) \in Nat
         /\ [s EXCEPT ![i] = e][i] = e
         /\ \A j \in 1..Len(s) : j # i => [s EXCEPT ![i] = e][j] = s[j]
<1> DEFINE S == ToSet(s) \cup {e}
           t == [s EXCEPT ![i] = e]
<1>1. s \in Seq(S) /\ e \in S
  BY SeqMonotonic
<1> HIDE DEF S
<1>2. t \in Seq(S) /\ Len(t) = Len(s) /\ Len(s) \in Nat
  BY <1>1, ExceptSeq
<1>3. t[i] = e /\ \A j \in 1..Len(s) : j # i => t[j] = s[j]
  OBVIOUS
<1> HIDE DEF t
<1>4. t \in Seq(ToSet(t))
  BY <1>2, OwnElements
<1>5. QED
  BY <1>2, <1>3, <1>4 DEF t

LEMMA AppendSeq ==
  ASSUME NEW s, s \in Seq(ToSet(s)), NEW e
  PROVE  /\ Append(s, e) \in Seq(ToSet(Append(s, e)))
         /\ Len(Append(s, e)) = Len(s) + 1 /\ Len(s) \in Nat
         /\ Append(s, e)[Len(s) + 1] = e
         /\ \A j \in 1..Len(s) : Append(s, e)[j] = s[j]
         /\ Front(Append(s, e)) = s
<1> DEFINE S == ToSet(s) \cup {e}
           t == Append(s, e)
<1>1. s \in Seq(S) /\ e \in S
  BY SeqMonotonic
<1> HIDE DEF S
<1>2. /\ t \in Seq(S) /\ Len(t) = Len(s) + 1 /\ Len(s) \in Nat
      /\ t[Len(s) + 1] = e /\ \A j \in 1..Len(s) : t[j] = s[j]
  BY <1>1, AppendProperties
<1> HIDE DEF t
<1>3. t \in Seq(ToSet(t))
  BY <1>2, OwnElements
<1>4. Front(t) = s
  <2>1. Front(t) = [i \in 1..Len(s) |-> t[i]]
    BY <1>2 DEF Front
  <2>2. s = [i \in 1..Len(s) |-> s[i]]
    BY <1>1
  <2>3. QED
    BY <1>2, <2>1, <2>2
<1>5. QED
  BY <1>2, <1>3, <1>4 DEF t

LEMMA FrontSeq ==
  ASSUME NEW s, s \in Seq(ToSet(s)), s # <<>>
  PROVE  /\ Front(s) \in Seq(ToSet(Front(s)))
         /\ Len(Front(s)) = Len(s) - 1 /\ Len(s) \in Nat \ {0}
         /\ \A j \in 1..Len(s) - 1 : Front(s)[j] = s[j]
<1> DEFINE t == Front(s)
<1>1. PICK n \in Nat \ {0} : n = Len(s)
  OBVIOUS
<1>2. t = SubSeq(s, 1, n - 1) /\ \A i \in 1..n - 1 : s[i] \in ToSet(s)
  BY <1>1 DEF Front
<1>3. /\ t \in Seq(ToSet(s))
      /\ Len(t) = (IF 1 <= n - 1 THEN (n - 1) - 1 + 1 ELSE 0)
      /\ \A j \in 1..(n - 1) - 1 + 1 : t[j] = s[1 + j - 1]
  BY <1>2, SubSeqProperties
<1>4. (IF 1 <= n - 1 THEN (n - 1) - 1 + 1 ELSE 0) = n - 1
  OBVIOUS
<1>5. \A j \in 1..n - 1 : j \in 1..(n - 1) - 1 + 1 /\ 1 + j - 1 = j
  OBVIOUS
<1> HIDE DEF t
<1>6. t \in Seq(ToSet(t))
  BY <1>3, OwnElements
<1>7. QED
  BY <1>1, <1>3, <1>4, <1>5, <1>6 DEF t

-----------------------------------------------------------------------------
(* d is c but for errors, annotations and counts that no frame answers for. *)
Keeps(c, d) ==
    /\ DOMAIN d = ContextFields
    /\ d.depth = c.depth /\ d.refDepth = c.refDepth
    /\ d.needScope = c.needScope /\ d.dyn = c.dyn
    /\ d.errors.n \in Nat

(* Between c and d at most one error was recorded. *)
AtMostOne(c, d) ==
    /\ d.errors.n \in {c.errors.n, c.errors.n + 1}
    /\ d.failCount \in {c.failCount, c.failCount + 1}
    /\ d.stopFired => c.stopFired \/ d.errors.n > c.errors.n

(* A frame keeps what the invariant says of it. *)
FrameKeeps(f, g) ==
    /\ DOMAIN g = FrameFields
    /\ g.sub = f.sub /\ g.mode = f.mode /\ g.phase = f.phase /\ g.next = f.next
    /\ g.saved = f.saved /\ g.entered = f.entered /\ g.owns = f.owns

LEMMA RefundKeeps ==
  ASSUME NEW c, DOMAIN c = ContextFields, c.errors.n \in Nat, NEW cost
  PROVE  /\ Keeps(c, RefundErrors(c, cost))
         /\ RefundErrors(c, cost).errors = c.errors
         /\ RefundErrors(c, cost).failCount = c.failCount
         /\ RefundErrors(c, cost).stopFired = c.stopFired
BY DEF Keeps, RefundErrors, ContextFields

LEMMA ErrorKeeps ==
  ASSUME NEW c, DOMAIN c = ContextFields, c.errors.n \in Nat, NEW causes, NEW cost
  PROVE  /\ Keeps(c, AddCausesError(c, causes, cost))
         /\ AtMostOne(c, AddCausesError(c, causes, cost))
<1> DEFINE failed == [c EXCEPT !.failCount = @ + 1]
           held == [n |-> c.errors.n + 1, w |-> c.errors.w + causes.w + Charge]
           charged == [failed EXCEPT !.errors = held, !.stopFired = @ \/ opts.stop]
<1>1. /\ DOMAIN failed = ContextFields /\ failed.errors = c.errors
      /\ failed.failCount = c.failCount + 1
      /\ failed.stopFired = c.stopFired /\ Keeps(c, failed)
  BY DEF Keeps, ContextFields
<1>2. CASE AtCap(c)
  <2>1. AddCausesError(c, causes, cost) = RefundErrors(failed, cost)
    BY <1>2 DEF AddCausesError
  <2> HIDE DEF failed
  <2>2. QED
    BY <1>1, <2>1, RefundKeeps DEF Keeps, AtMostOne
<1>3. CASE ~AtCap(c)
  <2>1. AddCausesError(c, causes, cost) = ChargeErrors(charged, Charge)
    BY <1>3 DEF AddCausesError
  <2>2. held.n = c.errors.n + 1 /\ held.n \in Nat
    OBVIOUS
  <2> HIDE DEF held
  <2>3. /\ DOMAIN charged = ContextFields /\ charged.errors = held
        /\ charged.failCount = c.failCount + 1 /\ Keeps(c, charged)
    BY <1>1, <2>2 DEF Keeps, ContextFields
  <2> HIDE DEF charged
  <2>4. /\ Keeps(charged, ChargeErrors(charged, Charge))
        /\ ChargeErrors(charged, Charge).errors = charged.errors
        /\ ChargeErrors(charged, Charge).failCount = charged.failCount
    BY <2>2, <2>3 DEF ChargeErrors, Keeps, ContextFields
  <2>5. QED
    BY <2>1, <2>2, <2>3, <2>4 DEF Keeps, AtMostOne
<1>4. QED
  BY <1>2, <1>3

LEMMA AnnotationKeeps ==
  ASSUME NEW c, DOMAIN c = ContextFields, c.errors.n \in Nat
  PROVE  /\ \A f, k, evaluated :
               /\ Keeps(c, Record(c, f, k, evaluated))
               /\ Record(c, f, k, evaluated).errors = c.errors
         /\ \A branch :
               /\ Keeps(c, AddBranchAnnotations(c, branch))
               /\ AddBranchAnnotations(c, branch).errors = c.errors
               /\ AddBranchAnnotations(c, branch).failCount = c.failCount
               /\ AddBranchAnnotations(c, branch).stopFired = c.stopFired
BY DEF Keeps, Record, AddBranchAnnotations, ContextFields

(* Keeps is transitive, and a step that leaves errors, failures and the stop   *)
(* flag alone may come before or after one that records an error.              *)
LEMMA KeepsThen ==
  ASSUME NEW c, NEW d, NEW e, Keeps(c, d), Keeps(d, e)
  PROVE  /\ Keeps(c, e)
         /\ (/\ d.errors = c.errors /\ d.failCount = c.failCount /\ d.stopFired = c.stopFired
             /\ AtMostOne(d, e)) => AtMostOne(c, e)
         /\ (/\ e.errors = d.errors /\ e.failCount = d.failCount /\ e.stopFired = d.stopFired
             /\ AtMostOne(c, d)) => AtMostOne(c, e)
BY DEF Keeps, AtMostOne

LEMMA KeepsSelf ==
  ASSUME NEW c, DOMAIN c = ContextFields, c.errors.n \in Nat
  PROVE  Keeps(c, c) /\ AtMostOne(c, c)
BY DEF Keeps, AtMostOne

(* Quiet(c, d): no error was recorded either. *)
Quiet(c, d) ==
    /\ Keeps(c, d)
    /\ d.errors = c.errors /\ d.failCount = c.failCount /\ d.stopFired = c.stopFired

(* What a keyword does with a branch's result adds at most one error. *)
LEMMA AbsorbContext ==
  ASSUME NEW c, DOMAIN c = ContextFields, c.errors.n \in Nat, NEW f, NEW k, NEW r
  PROVE  Keeps(c, Absorb(f, k, c, r).ctx) /\ AtMostOne(c, Absorb(f, k, c, r).ctx)
<1> DEFINE Good(d) == Keeps(c, d) /\ AtMostOne(c, d)
<1>1. \A d : Quiet(c, d) => Good(d)
  BY DEF Quiet, Keeps, AtMostOne
<1>2. \A d, cost : Quiet(c, d) => Quiet(c, RefundErrors(d, cost))
  BY RefundKeeps DEF Quiet, Keeps
<1>3. \A d, branch : Quiet(c, d) => Quiet(c, AddBranchAnnotations(d, branch))
  BY AnnotationKeeps DEF Quiet, Keeps
<1>4. \A d : Quiet(c, d) => Good(AddError(d))
  <2> TAKE d
  <2> HAVE Quiet(c, d)
  <2>1. Keeps(d, AddError(d)) /\ AtMostOne(d, AddError(d))
    BY ErrorKeeps DEF AddError, Quiet, Keeps
  <2>2. QED
    BY <2>1, KeepsThen DEF Quiet
<1>5. Quiet(c, c)
  BY KeepsSelf DEF Quiet
<1> HIDE DEF Good
<1>6. CASE k = "not"
  <2> DEFINE d == RefundErrors(c, r.cost)
  <2>1. Absorb(f, k, c, r).ctx = IF r.errors.n = 0 THEN AddError(d) ELSE d
    BY <1>6 DEF Absorb, NotBranch, Both
  <2>2. QED
    BY <1>1, <1>2, <1>4, <1>5, <2>1 DEF Good
<1>7. CASE k = "if"
  <2> DEFINE d == RefundErrors(c, r.cost)
  <2>1. Absorb(f, k, c, r).ctx \in {d, AddBranchAnnotations(d, r)}
    BY <1>7 DEF Absorb, IfBranch, Both
  <2>2. QED
    BY <1>1, <1>2, <1>3, <1>5, <2>1 DEF Good
<1>8. CASE k = "anyOf"
  <2> DEFINE d == IF r.errors.n = 0 \/ f.acc.passed > 0 THEN RefundErrors(c, r.cost) ELSE c
             e == IF r.errors.n = 0 /\ f.acc.passed = 0 THEN RefundErrors(d, f.acc.cost) ELSE d
  <2>1. Absorb(f, k, c, r).ctx = IF r.errors.n = 0 THEN AddBranchAnnotations(e, r) ELSE e
    BY <1>8 DEF Absorb, AnyOfBranch, Both
  <2>2. Quiet(c, e)
    BY <1>2, <1>5
  <2> HIDE DEF e
  <2>3. QED
    BY <1>1, <1>3, <2>1, <2>2 DEF Good
<1>9. CASE k = "oneOf"
  <2> DEFINE d == IF r.errors.n = 0 \/ f.acc.passed > 0 THEN RefundErrors(c, r.cost) ELSE c
  <2>1. Absorb(f, k, c, r).ctx \in {RefundErrors(d, f.acc.cost), AddError(d), d}
    BY <1>9 DEF Absorb, OneOfBranch, Both
  <2>2. Quiet(c, d)
    BY <1>2, <1>5
  <2> HIDE DEF d
  <2>3. QED
    BY <1>1, <1>2, <1>4, <2>1, <2>2 DEF Good
<1>10. CASE k \notin {"not", "if", "anyOf", "oneOf"}
  <2>1. Absorb(f, k, c, r).ctx = RefundErrors(c, r.cost)
    BY <1>10 DEF Absorb, ContainsItem, Both
  <2>2. QED
    BY <1>1, <1>2, <1>5, <2>1 DEF Good
<1>11. QED
  BY <1>6, <1>7, <1>8, <1>9, <1>10 DEF Good

(* It changes the locals of the keyword and what is left to visit, no more. *)
LEMMA AbsorbFrame ==
  ASSUME NEW f, DOMAIN f = FrameFields, NEW k, NEW c, NEW r
  PROVE  FrameKeeps(f, Absorb(f, k, c, r).frame)
<1> USE DEF FrameKeeps, FrameFields, Both, Absorb
<1>1. CASE k = "not"
  BY <1>1 DEF NotBranch
<1>2. CASE k = "if"
  BY <1>2 DEF IfBranch
<1>3. CASE k = "anyOf"
  BY <1>3 DEF AnyOfBranch
<1>4. CASE k = "oneOf"
  BY <1>4 DEF OneOfBranch
<1>5. CASE k \notin {"not", "if", "anyOf", "oneOf"}
  BY <1>5 DEF ContainsItem
<1>6. QED
  BY <1>1, <1>2, <1>3, <1>4, <1>5

(* The end of a keyword keeps what the frame answers for, but for the hop a    *)
(* reference takes back.                                                       *)
LEMMA EndedKeeps ==
  ASSUME NEW c, DOMAIN c = ContextFields, c.errors.n \in Nat, NEW f, NEW k, k \notin Refs
  PROVE  Keeps(c, Ended(f, k, c))
<1>1. CASE k = "anyOf"
  BY <1>1, ErrorKeeps, KeepsSelf DEF Ended, AnyOfEnds, Refs
<1>2. CASE k = "oneOf"
  <2>1. Ended(f, k, c) \in {AddCausesError(c, f.acc.causes, f.acc.cost),
                            AddBranchAnnotations(c, f.acc.kept), c}
    BY <1>2 DEF Ended, OneOfEnds, Refs
  <2>2. QED
    BY <2>1, ErrorKeeps, AnnotationKeeps, KeepsSelf
<1>3. CASE k = "contains"
  <2> DEFINE kw == Kw(f.sub, "contains")
             count == Cardinality(f.acc.matched)
             low == IF count < kw.min THEN AddError(c) ELSE c
             high == IF kw.max # None /\ count > kw.max THEN AddError(low) ELSE low
             marked == Record(high, f, "contains", [EmptyScope EXCEPT !.contained = f.acc.matched])
  <2>1. Ended(f, k, c) \in {c, high, marked}
    BY <1>3 DEF Ended, ContainsEnds, Refs
  <2>2. Keeps(c, low)
    BY ErrorKeeps, KeepsSelf DEF AddError
  <2> HIDE DEF low
  <2>3. Keeps(c, AddError(low))
    BY <2>2, ErrorKeeps, KeepsThen DEF AddError, Keeps
  <2>4. Keeps(c, high)
    BY <2>2, <2>3
  <2> HIDE DEF high
  <2>5. Keeps(c, marked)
    BY <2>4, AnnotationKeeps, KeepsThen DEF Keeps
  <2> HIDE DEF marked
  <2>6. QED
    BY <2>1, <2>4, <2>5, KeepsSelf
<1>4. CASE k \notin {"anyOf", "oneOf", "contains"}
  <2>1. Ended(f, k, c) \in {c, Record(c, f, k, Evaluated(f.sub, k, f.at, c.scope))}
    BY <1>4 DEF Ended
  <2>2. QED
    BY <2>1, AnnotationKeeps, KeepsSelf
<1>5. QED
  BY <1>1, <1>2, <1>3, <1>4

-----------------------------------------------------------------------------
(* The three ways in which a step changes the call stack. *)

LEMMA TopIsFrame ==
  ASSUME WalkInv, stack # <<>>
  PROVE  /\ Len(stack) \in Nat \ {0} /\ Len(stack) \in 1..Len(stack)
         /\ FrameInv(Top) /\ Owes(Top, ctx)
         /\ Top.saved.depth = Len(stack) - 1
         /\ Top.entered => Len(stack) - 1 <= opts.maxDepth
<1>1. Len(stack) \in Nat \ {0} /\ Len(stack) \in 1..Len(stack)
  BY DEF WalkInv
<1>2. QED
  BY <1>1 DEF WalkInv, Top

(* The top frame is replaced. *)
LEMMA TopShape ==
  ASSUME WalkInv, stack # <<>>, NEW f, SetTop(f)
  PROVE  /\ stack' \in Seq(ToSet(stack')) /\ Len(stack') = Len(stack)
         /\ stack'[Len(stack)] = f
         /\ \A j \in 1..Len(stack) : j # Len(stack) => stack'[j] = stack[j]
<1> DEFINE n == Len(stack)
           new == [stack EXCEPT ![n] = f]
<1>1. stack \in Seq(ToSet(stack)) /\ n \in 1..n
  BY TopIsFrame DEF WalkInv
<1>2. /\ new \in Seq(ToSet(new)) /\ Len(new) = n /\ new[n] = f
      /\ \A j \in 1..n : j # n => new[j] = stack[j]
  BY ONLY <1>1, ReplaceSeq
<1>3. stack' = new
  BY DEF SetTop
<1> HIDE DEF new
<1>4. QED
  BY <1>2, <1>3

LEMMA TopStep ==
  ASSUME WalkInv, stack # <<>>, UNCHANGED call, NEW f, SetTop(f), FrameInv(f),
         f.saved = Top.saved, f.entered => Top.saved.depth <= opts.maxDepth,
         Shape(ctx'), Owes(f, ctx')
  PROVE  WalkInv'
<1>1. /\ Len(stack) \in Nat \ {0} /\ Len(stack) \in 1..Len(stack)
      /\ Top.saved.depth = Len(stack) - 1
  BY TopIsFrame
<1>2. /\ stack' \in Seq(ToSet(stack')) /\ Len(stack') = Len(stack)
      /\ stack'[Len(stack)] = f
      /\ \A j \in 1..Len(stack) : j # Len(stack) => stack'[j] = stack[j]
  BY TopShape
<1>3. UNCHANGED opts
  BY DEF call
<1>4. ASSUME NEW i \in 1..Len(stack)
      PROVE  /\ FrameInv(stack'[i]) /\ stack'[i].saved.depth = i - 1
             /\ stack'[i].entered => i - 1 <= opts'.maxDepth
  <2>1. CASE i = Len(stack)
    BY <1>1, <1>2, <1>3, <2>1
  <2>2. CASE i # Len(stack)
    BY <1>2, <1>3, <2>2 DEF WalkInv
  <2>3. QED
    BY <2>1, <2>2
<1>5. ASSUME NEW i \in 1..Len(stack) - 1
      PROVE  stack'[i].phase = "loop" /\ Owes(stack'[i], stack'[i + 1].saved)
  <2>1. /\ i \in 1..Len(stack) /\ i # Len(stack) /\ i + 1 \in 1..Len(stack)
    BY <1>1
  <2>2. stack'[i] = stack[i] /\ stack'[i + 1].saved = stack[i + 1].saved
    BY <1>2, <2>1 DEF Top
  <2>3. QED
    BY <2>2 DEF WalkInv
<1>6. stack' # <<>> /\ Top' = f
  BY <1>1, <1>2 DEF Top
<1>7. QED
  BY <1>2, <1>3, <1>4, <1>5, <1>6 DEF WalkInv

(* A callee is pushed on a frame that is in its loop. *)
LEMMA PushShape ==
  ASSUME WalkInv, stack # <<>>, NEW f, NEW g,
         stack' = Append([stack EXCEPT ![Len(stack)] = f], g)
  PROVE  /\ stack' \in Seq(ToSet(stack')) /\ Len(stack') = Len(stack) + 1
         /\ stack'[Len(stack) + 1] = g /\ stack'[Len(stack)] = f
         /\ \A j \in 1..Len(stack) : j # Len(stack) => stack'[j] = stack[j]
<1> DEFINE n == Len(stack)
           calling == [stack EXCEPT ![n] = f]
<1>1. stack \in Seq(ToSet(stack)) /\ n \in Nat /\ n \in 1..n
  BY TopIsFrame DEF WalkInv
<1>2. /\ calling \in Seq(ToSet(calling)) /\ Len(calling) = n /\ calling[n] = f
      /\ \A j \in 1..n : j # n => calling[j] = stack[j]
  BY ONLY <1>1, ReplaceSeq
<1>3. stack' = Append(calling, g)
  OBVIOUS
<1> HIDE DEF calling
<1>4. /\ stack' \in Seq(ToSet(stack')) /\ Len(stack') = n + 1 /\ stack'[n + 1] = g
      /\ \A j \in 1..n : stack'[j] = calling[j]
  BY ONLY <1>2, <1>3, AppendSeq
<1>5. QED
  BY <1>1, <1>2, <1>4

LEMMA PushStep ==
  ASSUME WalkInv, stack # <<>>, UNCHANGED call,
         NEW f, FrameInv(f), f.phase = "loop", f.entered, f.saved = Top.saved, Owes(f, ctx),
         NEW g, FrameInv(g), g.saved = ctx, ~g.entered,
         stack' = Append([stack EXCEPT ![Len(stack)] = f], g),
         Shape(ctx'), Owes(g, ctx')
  PROVE  WalkInv'
<1> DEFINE n == Len(stack)
<1>1. /\ n \in Nat \ {0} /\ n \in 1..n /\ Top.entered
      /\ Top.saved.depth = n - 1 /\ n - 1 <= opts.maxDepth
  <2>1. Top.phase = "loop" \/ Top.entered => Top.entered
    BY TopIsFrame DEF FrameInv
  <2>2. ctx.depth = Top.saved.depth + 1
    BY TopIsFrame DEF Owes, FrameInv, Shape
  <2>3. QED
    BY <2>1, <2>2, TopIsFrame DEF Owes, FrameInv, Shape
<1>3. /\ stack' \in Seq(ToSet(stack')) /\ Len(stack') = n + 1 /\ stack'[n + 1] = g
      /\ stack'[n] = f /\ \A j \in 1..n : j # n => stack'[j] = stack[j]
  BY PushShape
<1>4. UNCHANGED opts
  BY DEF call
<1>5. ctx.depth = n
  BY <1>1 DEF Owes
<1>6. ASSUME NEW i \in 1..Len(stack')
      PROVE  /\ FrameInv(stack'[i]) /\ stack'[i].saved.depth = i - 1
             /\ stack'[i].entered => i - 1 <= opts'.maxDepth
  <2>1. CASE i = n + 1
    BY <1>1, <1>3, <1>5, <2>1
  <2>2. CASE i = n
    BY <1>1, <1>3, <1>4, <2>2
  <2>3. CASE i \in 1..n /\ i # n
    BY <1>3, <1>4, <2>3 DEF WalkInv
  <2>4. QED
    BY <1>1, <1>3, <2>1, <2>2, <2>3
<1>7. ASSUME NEW i \in 1..Len(stack') - 1
      PROVE  stack'[i].phase = "loop" /\ Owes(stack'[i], stack'[i + 1].saved)
  <2>1. CASE i = n
    BY <1>3, <2>1
  <2>2. CASE i # n
    <3>1. i \in 1..n - 1 /\ i \in 1..n /\ i + 1 \in 1..n
      BY <1>1, <1>3, <2>2
    <3>2. stack'[i] = stack[i] /\ stack'[i + 1].saved = stack[i + 1].saved
      BY <1>3, <2>2, <3>1 DEF Top
    <3>3. QED
      BY <3>1, <3>2 DEF WalkInv
  <2>3. QED
    BY <2>1, <2>2
<1>8. stack' # <<>> /\ Top' = g
  BY <1>1, <1>3 DEF Top
<1>9. QED
  BY <1>3, <1>4, <1>6, <1>7, <1>8 DEF WalkInv

(* The top frame is popped, and its caller, if it has one, goes on with what   *)
(* the context now holds.                                                      *)
LEMMA PopShape ==
  ASSUME WalkInv, stack # <<>>, NEW f,
         \/ stack' = Front(stack) /\ (Len(stack) > 1 => f = stack[Len(stack) - 1])
         \/ Len(stack) > 1 /\ stack' = [Front(stack) EXCEPT ![Len(stack) - 1] = f]
  PROVE  /\ stack' \in Seq(ToSet(stack')) /\ Len(stack') = Len(stack) - 1
         /\ Len(stack) = 1 => stack' = <<>>
         /\ Len(stack) > 1 =>
              /\ stack'[Len(stack) - 1] = f
              /\ \A j \in 1..Len(stack) - 1 : j # Len(stack) - 1 => stack'[j] = stack[j]
<1> DEFINE rest == Front(stack)
           n == Len(stack) - 1
<1>1. /\ rest \in Seq(ToSet(rest)) /\ Len(rest) = n /\ n \in Nat /\ Len(stack) = n + 1
      /\ \A j \in 1..n : rest[j] = stack[j]
  BY FrontSeq DEF WalkInv
<1>2. CASE n = 0
  <2> HIDE DEF rest
  <2>1. rest \in Seq(ToSet(rest)) /\ Len(rest) = 0
    BY ONLY <1>1, <1>2
  <2>2. rest = <<>>
    BY <2>1, NoElements, Zenon
  <2>3. ~(Len(stack) > 1)
    <3>1. PICK m \in Nat : m = Len(stack)
      BY TopIsFrame
    <3>2. m - 1 = 0
      BY ONLY <1>2, <3>1
    <3>3. ~(m > 1)
      BY ONLY <3>2, m \in Nat
    <3>4. QED
      BY ONLY <3>1, <3>3
  <2>4. stack' = rest
    BY <2>3 DEF rest
  <2>5. <<>> \in Seq(ToSet(<<>>)) /\ Len(<<>>) = 0
    BY OwnElements
  <2>6. QED
    BY <1>1, <1>2, <2>2, <2>3, <2>4, <2>5
<1>3. CASE n > 0
  <2>1. n \in 1..n /\ Len(stack) > 1 /\ Len(stack) # 1
    BY <1>1, <1>3
  <2>2. CASE stack' = rest /\ f = stack[n]
    BY <1>1, <2>1, <2>2
  <2>3. CASE stack' = [rest EXCEPT ![n] = f]
    <3> DEFINE new == [rest EXCEPT ![n] = f]
    <3> HIDE DEF rest
    <3>1. /\ new \in Seq(ToSet(new)) /\ Len(new) = n /\ new[n] = f
          /\ \A j \in 1..n : j # n => new[j] = rest[j]
      BY ONLY <1>1, <2>1, ReplaceSeq
    <3> HIDE DEF new
    <3>2. stack' = new
      BY <2>3 DEF new
    <3>3. QED
      BY <1>1, <2>1, <3>1, <3>2
  <2>4. QED
    BY <2>1, <2>2, <2>3
<1>4. QED
  BY <1>1, <1>2, <1>3

LEMMA PopStep ==
  ASSUME WalkInv, stack # <<>>, UNCHANGED call, NEW f,
         \/ stack' = Front(stack) /\ (Len(stack) > 1 => f = stack[Len(stack) - 1])
         \/ Len(stack) > 1 /\ stack' = [Front(stack) EXCEPT ![Len(stack) - 1] = f],
         Len(stack) > 1 => FrameKeeps(stack[Len(stack) - 1], f),
         Shape(ctx'),
         Len(stack) > 1 => Owes(f, ctx')
  PROVE  WalkInv' /\ Len(stack') = Len(stack) - 1
<1> DEFINE n == Len(stack) - 1
<1>1. /\ stack' \in Seq(ToSet(stack')) /\ Len(stack') = n
      /\ Len(stack) = 1 => stack' = <<>>
      /\ Len(stack) > 1 => stack'[n] = f /\ \A j \in 1..n : j # n => stack'[j] = stack[j]
  BY PopShape
<1>2. UNCHANGED opts /\ n \in Nat /\ Len(stack) = n + 1 /\ Len(stack) - 1 = n
  BY TopIsFrame DEF call
<1> HIDE DEF n
<1>3. CASE n = 0
  <2>1. stack' = <<>> /\ Len(stack') = 0
    BY <1>1, <1>2, <1>3
  <2>2. opts.maxDepth \in Int
    BY DEF WalkInv
  <2>3. WalkInv'
    BY <1>1, <1>2, <2>1, <2>2 DEF WalkInv
  <2>4. QED
    BY <1>1, <1>2, <2>3
<1>4. CASE n > 0
  <2>1. n \in 1..n /\ Len(stack) > 1
    BY <1>2, <1>4
  <2>3. /\ FrameInv(f) /\ f.saved = stack[n].saved /\ f.entered = stack[n].entered
        /\ f.phase = stack[n].phase
    BY <1>2, <2>1 DEF FrameKeeps, FrameInv, WalkInv
  <2>4. ASSUME NEW i \in 1..n
        PROVE  /\ FrameInv(stack'[i]) /\ stack'[i].saved.depth = i - 1
               /\ stack'[i].entered => i - 1 <= opts'.maxDepth
               /\ stack'[i].saved = stack[i].saved
    <3>1. i \in 1..Len(stack)
      BY <1>2
    <3>2. CASE i = n
      <4>1. stack'[i] = f
        BY <1>1, <2>1, <3>2
      <4>2. stack[i].saved.depth = i - 1 /\ (stack[i].entered => i - 1 <= opts.maxDepth)
        BY <3>1 DEF WalkInv
      <4>3. QED
        BY <1>2, <2>3, <3>2, <4>1, <4>2
    <3>3. CASE i # n
      <4>1. stack'[i] = stack[i]
        BY <1>1, <2>1, <3>3
      <4>2. QED
        BY <1>2, <3>1, <4>1 DEF WalkInv
    <3>4. QED
      BY <3>2, <3>3
  <2>5. ASSUME NEW i \in 1..n - 1
        PROVE  stack'[i].phase = "loop" /\ Owes(stack'[i], stack'[i + 1].saved)
    <3>1. /\ i \in 1..n /\ i # n /\ i + 1 \in 1..n /\ i \in 1..Len(stack) - 1
      BY <1>2
    <3>2. stack'[i] = stack[i] /\ stack'[i + 1].saved = stack[i + 1].saved
      BY <1>1, <2>1, <2>4, <3>1
    <3>3. QED
      BY <3>1, <3>2 DEF WalkInv
  <2>6. stack' # <<>> /\ Top' = f
    <3>1. stack' # <<>>
      BY <1>1, <1>2, <1>4
    <3>2. QED
      BY <1>1, <2>1, <3>1 DEF Top
  <2>7. opts'.maxDepth \in Int
    BY <1>2 DEF WalkInv
  <2>8. WalkInv'
    BY <1>1, <2>1, <2>4, <2>5, <2>6, <2>7 DEF WalkInv
  <2>9. QED
    BY <1>1, <1>2, <2>8
<1>5. QED
  BY ONLY <1>2, <1>3, <1>4

-----------------------------------------------------------------------------
(* Steps of the walk *)

LEMMA KeepsOwed ==
  ASSUME NEW c, Shape(c), NEW d, Keeps(c, d)
  PROVE  Shape(d) /\ \A f : Owes(f, c) => Owes(f, d)
BY DEF Keeps, Shape, Owes

\* f and g answer for the same context.
Alike(f, g) ==
    /\ DOMAIN g = FrameFields
    /\ g.sub = f.sub /\ g.mode = f.mode /\ g.saved = f.saved
    /\ g.entered = f.entered /\ g.owns = f.owns
    /\ g.phase # "enter"
    /\ g.phase \in {"next", "loop"} => f.entered

(* The top frame moves on and keeps the context. *)
LEMMA MoveStep ==
  ASSUME WalkInv, stack # <<>>, UNCHANGED call, NEW f, SetTop(f), Alike(Top, f),
         ~(f.phase = "loop" /\ Keyword(f) \in Refs),
         ~(Top.phase = "loop" /\ Keyword(Top) \in Refs),
         Keeps(ctx, ctx')
  PROVE  WalkInv'
<1>1. FrameInv(Top) /\ Owes(Top, ctx) /\ Shape(ctx)
  BY TopIsFrame DEF WalkInv
<1>2. Shape(ctx') /\ Owes(Top, ctx')
  BY <1>1, KeepsOwed
<1>3. Owes(f, ctx')
  BY <1>2 DEF Owes, Alike, GivenHops, GivenNeed
<1>4. FrameInv(f)
  BY <1>1 DEF FrameInv, Alike
<1>5. f.saved = Top.saved /\ (f.entered => Top.saved.depth <= opts.maxDepth)
  BY TopIsFrame DEF Alike
<1>6. QED
  BY <1>2, <1>3, <1>4, <1>5, TopStep

LEMMA ExitStep ==
  ASSUME WalkInv, NEW p \in {"enter", "next"}, At(p), Exit, Keeps(ctx, ctx')
  PROVE  WalkInv'
<1> DEFINE f == [Top EXCEPT !.phase = "exit"]
<1>1. FrameInv(Top) /\ Top.phase = p /\ stack # <<>> /\ UNCHANGED call
  BY TopIsFrame DEF At
<1>2. Alike(Top, f) /\ f.phase = "exit"
  BY <1>1 DEF Alike, FrameInv, FrameFields
<1>3. SetTop(f)
  BY DEF Exit
<1> HIDE DEF f
<1>4. QED
  BY <1>1, <1>2, <1>3, MoveStep

LEMMA SkipStep ==
  ASSUME WalkInv, At("next"), Skip, Keeps(ctx, ctx')
  PROVE  WalkInv'
<1> DEFINE f == [Top EXCEPT !.next = @ + 1]
<1>1. FrameInv(Top) /\ Top.phase = "next" /\ stack # <<>> /\ UNCHANGED call
  BY TopIsFrame DEF At
<1>2. Alike(Top, f) /\ f.phase = "next"
  BY <1>1 DEF Alike, FrameInv, FrameFields
<1>3. SetTop(f)
  BY DEF Skip
<1> HIDE DEF f
<1>4. QED
  BY <1>1, <1>2, <1>3, MoveStep

(* The run calls that end at once. *)
LEMMA RunStep ==
  ASSUME WalkInv, RunSkipped \/ RunOverLimit \/ RunBoolean \/ RunTooDeep
  PROVE  WalkInv'
<1>1. DOMAIN ctx = ContextFields /\ ctx.errors.n \in Nat /\ Keeps(ctx, ctx)
  BY KeepsSelf DEF WalkInv, Shape
<1>2. Keeps(ctx, Counted) /\ Keeps(ctx, [Counted EXCEPT !.overBudget = TRUE])
  BY <1>1 DEF Counted, Keeps, ContextFields
<1>3. Keeps(ctx, AddError(Counted))
  <2>1. DOMAIN Counted = ContextFields /\ Counted.errors.n \in Nat
    BY <1>2 DEF Keeps
  <2>2. Keeps(Counted, AddError(Counted))
    BY <2>1, ErrorKeeps DEF AddError
  <2>3. QED
    BY <1>2, <2>2, KeepsThen
<1>4. At("enter") /\ Exit /\ Keeps(ctx, ctx')
  <2>1. CASE RunSkipped
    BY <1>1, <2>1 DEF RunSkipped
  <2>2. CASE RunOverLimit
    BY <1>2, <2>2 DEF RunOverLimit
  <2>3. CASE RunBoolean
    BY <1>2, <1>3, <2>3 DEF RunBoolean, Runs
  <2>4. CASE RunTooDeep
    BY <1>3, <2>4 DEF RunTooDeep, Runs
  <2>5. QED
    BY <2>1, <2>2, <2>3, <2>4
<1>5. QED
  BY <1>4, ExitStep

(* The evaluators that visit nothing. *)
LEMMA KeywordStep ==
  ASSUME WalkInv, LoopEnds \/ Assertion \/ Annotate \/ RefFails \/ TooManyKeys
  PROVE  WalkInv'
<1>1. DOMAIN ctx = ContextFields /\ ctx.errors.n \in Nat /\ Keeps(ctx, ctx)
  BY KeepsSelf DEF WalkInv, Shape
<1>2. Keeps(ctx, AddError(ctx))
  BY <1>1, ErrorKeeps DEF AddError
<1>3. CASE LoopEnds
  BY <1>1, <1>3, ExitStep DEF LoopEnds
<1>4. CASE Assertion
  BY <1>1, <1>2, <1>4, SkipStep DEF Assertion, Starts
<1>5. CASE Annotate
  BY <1>1, <1>5, AnnotationKeeps, SkipStep DEF Annotate, Starts
<1>6. CASE RefFails
  BY <1>2, <1>6, SkipStep DEF RefFails, Starts
<1>7. CASE TooManyKeys
  <2> DEFINE c == [ctx EXCEPT !.keyCountFired = @ \cup {Top.at}]
  <2>1. Keeps(ctx, c)
    BY <1>1 DEF Keeps, ContextFields
  <2>2. ctx' = ctx \/ ctx' = AddError(c)
    BY <1>7 DEF TooManyKeys
  <2> HIDE DEF c
  <2>3. Keeps(c, AddError(c))
    BY <2>1, ErrorKeeps DEF AddError, Keeps
  <2>4. Keeps(ctx, ctx')
    BY <1>1, <2>1, <2>2, <2>3, KeepsThen
  <2>5. QED
    BY <1>7, <2>4, SkipStep DEF TooManyKeys, Starts
<1>8. QED
  BY <1>3, <1>4, <1>5, <1>6, <1>7

(* run reaches its loop: one level deeper, and perhaps in a scope of its own. *)
LEMMA EnterStep ==
  ASSUME WalkInv, RunEnter
  PROVE  WalkInv'
<1> DEFINE f == [Top EXCEPT !.phase = "next", !.entered = TRUE,
                            !.owns = ReadsScope(Top.sub) /\ ~ctx.needScope]
           c == [Counted EXCEPT !.needScope = @ \/ ReadsScope(Top.sub),
                                !.dyn = IF Schema[Top.sub].crosses
                                        THEN Append(@, Schema[Top.sub].resource) ELSE @,
                                !.depth = @ + 1]
<1>1. /\ stack # <<>> /\ UNCHANGED call /\ Top.phase = "enter" /\ ctx.depth <= opts.maxDepth
      /\ SetTop(f) /\ ctx' = c
  BY DEF RunEnter, Runs, At
<1>2. FrameInv(Top) /\ Owes(Top, ctx) /\ Shape(ctx)
  BY <1>1, TopIsFrame DEF WalkInv
<1>3. /\ f.saved = Top.saved /\ f.sub = Top.sub /\ f.mode = Top.mode /\ f.entered = TRUE
      /\ f.phase = "next" /\ f.owns = (ReadsScope(Top.sub) /\ ~ctx.needScope)
      /\ DOMAIN f = FrameFields
  BY <1>2 DEF FrameInv, FrameFields
<1>4. /\ DOMAIN c = ContextFields /\ c.refDepth = ctx.refDepth /\ c.errors = ctx.errors
      /\ c.depth = ctx.depth + 1 /\ c.needScope = (ctx.needScope \/ ReadsScope(Top.sub))
      /\ c.dyn = IF Schema[Top.sub].crosses
                 THEN Append(ctx.dyn, Schema[Top.sub].resource) ELSE ctx.dyn
  BY <1>2 DEF Counted, Shape, ContextFields
<1> HIDE DEF f, c
<1>5. ~Top.entered /\ ~Top.owns /\ ctx.dyn = Top.saved.dyn /\ ctx.depth = Top.saved.depth
  BY <1>1, <1>2 DEF FrameInv, Owes, Shape
<1>6. ReadsScope(Top.sub) \in BOOLEAN
  BY DEF ReadsScope, Has
<1>7. c.dyn \in Seq(ToSet(c.dyn))
  <2>1. ctx.dyn \in Seq(ToSet(ctx.dyn))
    BY <1>2 DEF Shape
  <2> DEFINE d == Append(ctx.dyn, Schema[Top.sub].resource)
  <2>2. d \in Seq(ToSet(d))
    BY <2>1, AppendSeq
  <2>3. c.dyn \in {ctx.dyn, d}
    BY <1>4
  <2> HIDE DEF d
  <2>4. QED
    BY <2>1, <2>2, <2>3
<1>8. Shape(c)
  BY <1>2, <1>4, <1>6, <1>7 DEF Shape
<1>9. FrameInv(f)
  BY <1>2, <1>3, <1>6 DEF FrameInv, Shape
<1>10. Owes(f, c)
  BY <1>1, <1>2, <1>3, <1>4, <1>5, <1>6 DEF Owes, GivenNeed, GivenHops, Shape
<1>11. QED
  BY <1>1, <1>3, <1>5, <1>8, <1>9, <1>10, TopStep

(* An evaluator starts its visits; a reference takes a hop. *)
LEMMA LoopStep ==
  ASSUME WalkInv, RefEnters \/ Apply
  PROVE  WalkInv'
<1>1. PICK visits : Loop(visits)
  BY DEF RefEnters, Apply
<1> DEFINE f == [Top EXCEPT !.phase = "loop", !.acc = Locals, !.todo = visits]
           hops == IF Keyword(Top) \in Refs THEN 1 ELSE 0
<1>2. stack # <<>> /\ UNCHANGED call /\ Top.phase = "next" /\ SetTop(f)
  BY <1>1 DEF RefEnters, Apply, Starts, At, Loop
<1>3. FrameInv(Top) /\ Owes(Top, ctx) /\ Shape(ctx)
  BY <1>2, TopIsFrame DEF WalkInv
<1>4. Alike(Top, f) /\ f.phase = "loop" /\ f.next = Top.next
  BY <1>2, <1>3 DEF Alike, FrameInv, FrameFields
<1> HIDE DEF f
<1>5. Keyword(f) = Keyword(Top)
  BY <1>4 DEF Alike, Keyword
<1>6. /\ Shape(ctx') /\ ctx'.depth = ctx.depth /\ ctx'.dyn = ctx.dyn
      /\ ctx'.needScope = ctx.needScope /\ ctx'.refDepth = ctx.refDepth + hops
  <2>1. CASE RefEnters
    <3>1. ctx' = [ctx EXCEPT !.refDepth = @ + 1] /\ hops = 1
      BY <2>1 DEF RefEnters, Starts
    <3>2. QED
      BY <1>3, <3>1 DEF Shape, ContextFields
  <2>2. CASE Apply
    <3>1. ctx' = ctx /\ hops = 0
      BY <2>2 DEF Apply, Starts, Applicators
    <3>2. QED
      BY <1>3, <3>1 DEF Shape
  <2>3. QED
    BY <2>1, <2>2
<1>7. Owes(f, ctx')
  <2>1. ctx.refDepth = GivenHops(Top) /\ GivenHops(Top) \in Nat
    BY <1>2, <1>3 DEF Owes, FrameInv, Shape, GivenHops
  <2>2. ctx'.refDepth = GivenHops(f) + hops
    BY <1>4, <1>6, <2>1 DEF Alike, GivenHops
  <2>3. hops = IF f.phase = "loop" /\ Keyword(f) \in Refs THEN 1 ELSE 0
    BY <1>4, <1>5
  <2> HIDE DEF hops
  <2>4. QED
    BY <1>3, <1>4, <1>6, <2>2, <2>3 DEF Owes, Alike, GivenNeed
<1>8. FrameInv(f)
  BY <1>3, <1>4 DEF FrameInv, Alike
<1>9. f.saved = Top.saved /\ (f.entered => Top.saved.depth <= opts.maxDepth)
  BY <1>2, <1>4, TopIsFrame DEF Alike
<1>10. QED
  BY <1>2, <1>6, <1>7, <1>8, <1>9, TopStep

(* A missing name is an error of the frame's own. *)
LEMMA MissingStep ==
  ASSUME WalkInv, MissingName
  PROVE  WalkInv'
<1> DEFINE f == [Top EXCEPT !.todo = Tail(@)]
<1>1. stack # <<>> /\ UNCHANGED call /\ Top.phase = "loop" /\ SetTop(f)
  BY DEF MissingName, At
<1>2. FrameInv(Top) /\ Owes(Top, ctx) /\ Shape(ctx)
  BY <1>1, TopIsFrame DEF WalkInv
<1>3. FrameKeeps(Top, f)
  BY <1>2 DEF FrameKeeps, FrameInv, FrameFields
<1> HIDE DEF f
<1>4. Keyword(f) = Keyword(Top)
  BY <1>3 DEF FrameKeeps, Keyword
<1>5. Keeps(ctx, ctx')
  BY <1>2, ErrorKeeps, KeepsSelf DEF MissingName, AddError, Shape
<1>6. Shape(ctx') /\ Owes(Top, ctx')
  BY <1>2, <1>5, KeepsOwed
<1>7. Owes(f, ctx') /\ FrameInv(f)
  BY <1>2, <1>3, <1>4, <1>6 DEF Owes, FrameInv, FrameKeeps, GivenHops, GivenNeed
<1>8. f.saved = Top.saved /\ (f.entered => Top.saved.depth <= opts.maxDepth)
  BY <1>1, <1>3, TopIsFrame DEF FrameKeeps
<1>9. QED
  BY <1>1, <1>6, <1>7, <1>8, TopStep

(* A keyword ends; a reference takes its hop back. *)
LEMMA EndStep ==
  ASSUME WalkInv, KeywordEnds
  PROVE  WalkInv'
<1> DEFINE f == [Top EXCEPT !.phase = "next", !.next = @ + 1]
           hops == IF Keyword(Top) \in Refs THEN 1 ELSE 0
<1>1. /\ stack # <<>> /\ UNCHANGED call /\ Top.phase = "loop" /\ SetTop(f)
      /\ ctx' = Ended(Top, Keyword(Top), ctx)
  BY DEF KeywordEnds, At
<1>2. FrameInv(Top) /\ Owes(Top, ctx) /\ Shape(ctx)
  BY <1>1, TopIsFrame DEF WalkInv
<1>3. Alike(Top, f) /\ f.phase = "next"
  BY <1>1, <1>2 DEF Alike, FrameInv, FrameFields
<1> HIDE DEF f
<1>4. /\ Shape(ctx') /\ ctx'.depth = ctx.depth /\ ctx'.dyn = ctx.dyn
      /\ ctx'.needScope = ctx.needScope /\ ctx'.refDepth = ctx.refDepth - hops
  <2>1. CASE Keyword(Top) \in Refs
    <3>1. ctx' = [ctx EXCEPT !.refDepth = @ - 1] /\ hops = 1
      <4>1. Ended(Top, Keyword(Top), ctx) = [ctx EXCEPT !.refDepth = @ - 1]
        BY <2>1 DEF Ended, Refs
      <4>2. QED
        BY <1>1, <2>1, <4>1
    <3>2. GivenHops(Top) \in Nat /\ ctx.refDepth = GivenHops(Top) + 1
      BY <1>1, <1>2, <2>1 DEF Owes, FrameInv, Shape, GivenHops
    <3>3. ctx.refDepth - 1 \in Nat
      BY <3>2
    <3>4. QED
      BY <1>2, <3>1, <3>3 DEF Shape, ContextFields
  <2>2. CASE Keyword(Top) \notin Refs
    <3>1. Keeps(ctx, ctx')
      BY <1>1, <1>2, <2>2, EndedKeeps DEF Shape
    <3>2. QED
      BY <1>2, <2>2, <3>1, KeepsOwed DEF Keeps, Shape
  <2>3. QED
    BY <2>1, <2>2
<1>5. Owes(f, ctx')
  <2>1. GivenHops(Top) \in Nat
    BY <1>2 DEF FrameInv, Shape, GivenHops
  <2>2. QED
    BY <1>1, <1>2, <1>3, <1>4, <2>1 DEF Owes, Alike, GivenHops, GivenNeed
<1>6. FrameInv(f)
  BY <1>2, <1>3 DEF FrameInv, Alike
<1>7. f.saved = Top.saved /\ (f.entered => Top.saved.depth <= opts.maxDepth)
  BY <1>1, <1>3, TopIsFrame DEF Alike
<1>8. QED
  BY <1>1, <1>4, <1>5, <1>6, <1>7, TopStep

(* A subschema is called. *)
LEMMA VisitStep ==
  ASSUME WalkInv, Visit
  PROVE  WalkInv'
<1> DEFINE to == Head(Top.todo)
           f == [Top EXCEPT !.todo = Tail(@)]
           g == Frame(to, ctx)
           c == Prepared(ctx, to.mode)
<1>1. /\ stack # <<>> /\ UNCHANGED call /\ Top.phase = "loop" /\ ctx' = c
      /\ stack' = Append([stack EXCEPT ![Len(stack)].todo = Tail(@)], g)
  BY DEF Visit, At
<1>2. FrameInv(Top) /\ Owes(Top, ctx) /\ Shape(ctx)
  BY <1>1, TopIsFrame DEF WalkInv
<1>3. FrameKeeps(Top, f)
  BY <1>2 DEF FrameKeeps, FrameInv, FrameFields
<1>4. [stack EXCEPT ![Len(stack)].todo = Tail(@)] = [stack EXCEPT ![Len(stack)] = f]
  BY DEF Top
<1>5. /\ DOMAIN g = FrameFields /\ g.saved = ctx /\ g.mode = to.mode /\ g.phase = "enter"
      /\ g.entered = FALSE /\ g.owns = FALSE
  BY DEF Frame, FrameFields
<1>6. /\ Shape(c) /\ c.depth = ctx.depth /\ c.dyn = ctx.dyn
      /\ c.needScope <=> to.mode # "child" /\ ctx.needScope
      /\ c.refDepth = IF to.mode \in {"inplace", "branch"} THEN ctx.refDepth ELSE 0
  <2>1. CASE to.mode = "inplace"
    BY <1>2, <2>1 DEF Prepared, Shape, ContextFields
  <2>2. CASE to.mode = "child"
    BY <1>2, <2>2 DEF Prepared, Shape, ContextFields
  <2>3. CASE to.mode = "branch"
    BY <1>2, <2>3 DEF Prepared, Shape, ContextFields, NoErrors
  <2>4. CASE to.mode \notin {"inplace", "child", "branch"}
    BY <1>2, <2>4 DEF Prepared, Shape, ContextFields, NoErrors
  <2>5. QED
    BY <2>1, <2>2, <2>3, <2>4
<1> HIDE DEF to, f, g, c
<1>7. FrameInv(g) /\ g.saved = ctx /\ ~g.entered
  BY <1>2, <1>5 DEF FrameInv
<1>8. Shape(ctx') /\ Owes(g, ctx')
  BY <1>1, <1>2, <1>5, <1>6 DEF Owes, GivenHops, GivenNeed, Shape
<1>9. Keyword(f) = Keyword(Top)
  BY <1>3 DEF FrameKeeps, Keyword
<1>10. /\ FrameInv(f) /\ f.phase = "loop" /\ f.entered /\ f.saved = Top.saved
       /\ Owes(f, ctx)
  BY <1>1, <1>2, <1>3, <1>9 DEF Owes, FrameInv, FrameKeeps, GivenHops, GivenNeed
<1>11. stack' = Append([stack EXCEPT ![Len(stack)] = f], g)
  BY <1>1, <1>4
<1>12. QED
  BY <1>1, <1>7, <1>8, <1>10, <1>11, PushStep

-----------------------------------------------------------------------------
(* Returns *)

(* The deferred functions of run undo what run did to the context. *)
LEMMA LeftRestores ==
  ASSUME WalkInv, stack # <<>>, Top.phase = "exit"
  PROVE  LET c == Left(Top) IN
         /\ DOMAIN c = ContextFields /\ c.errors = ctx.errors /\ c.errors.n \in Nat
         /\ c.depth = Top.saved.depth /\ c.dyn = Top.saved.dyn
         /\ c.needScope = GivenNeed(Top) /\ c.refDepth = GivenHops(Top)
<1>1. FrameInv(Top) /\ Owes(Top, ctx) /\ Shape(ctx) /\ Shape(Top.saved)
  BY TopIsFrame DEF WalkInv, FrameInv
<1>2. GivenNeed(Top) \in BOOLEAN /\ GivenHops(Top) \in Nat /\ Top.owns \in BOOLEAN
  BY <1>1 DEF GivenNeed, GivenHops, Shape, FrameInv
<1>3. CASE ~Top.entered
  <2>1. Left(Top) = ctx
    BY <1>3 DEF Left
  <2>2. QED
    BY <1>1, <1>2, <1>3, <2>1 DEF Owes, Shape
<1>4. CASE Top.entered
  <2> DEFINE c == Left(Top)
             d == Append(Top.saved.dyn, Schema[Top.sub].resource)
  <2>1. /\ DOMAIN c = ContextFields /\ c.errors = ctx.errors
        /\ c.depth = ctx.depth - 1 /\ c.refDepth = ctx.refDepth
        /\ c.needScope = (ctx.needScope /\ ~Top.owns)
        /\ c.dyn = IF Schema[Top.sub].crosses THEN Front(ctx.dyn) ELSE ctx.dyn
    BY <1>1, <1>4 DEF Left, Shape, ContextFields
  <2> HIDE DEF c
  <2>2. Front(d) = Top.saved.dyn
    BY <1>1, AppendSeq DEF Shape
  <2>3. ctx.dyn = IF Schema[Top.sub].crosses THEN d ELSE Top.saved.dyn
    BY <1>1, <1>4 DEF Owes
  <2> HIDE DEF d
  <2>4. c.dyn = Top.saved.dyn
    BY <2>1, <2>2, <2>3
  <2>5. c.depth = Top.saved.depth /\ c.refDepth = GivenHops(Top)
    BY <1>1, <1>2, <1>4, <2>1 DEF Owes, Shape
  <2>6. c.needScope = GivenNeed(Top)
    BY <1>1, <1>2, <2>1 DEF Owes, Shape
  <2>7. QED
    BY <1>1, <2>1, <2>4, <2>5, <2>6 DEF c, Shape
<1>5. QED
  BY <1>3, <1>4

\* d gives back what frame f was given.
GivesBack(f, d) ==
    /\ DOMAIN d = ContextFields /\ d.errors.n \in Nat
    /\ d.depth = f.saved.depth /\ d.refDepth = f.saved.refDepth
    /\ d.needScope = f.saved.needScope /\ d.dyn = f.saved.dyn

LEMMA ReturnStep ==
  ASSUME WalkInv, stack # <<>>, UNCHANGED call, NEW f,
         \/ stack' = Front(stack) /\ (Len(stack) > 1 => f = stack[Len(stack) - 1])
         \/ Len(stack) > 1 /\ stack' = [Front(stack) EXCEPT ![Len(stack) - 1] = f],
         Len(stack) > 1 => FrameKeeps(stack[Len(stack) - 1], f),
         GivesBack(Top, ctx')
  PROVE  WalkInv'
<1>1. Len(stack) \in Nat \ {0} /\ FrameInv(Top) /\ Shape(Top.saved)
  BY TopIsFrame DEF FrameInv
<1>2. Shape(ctx')
  BY <1>1 DEF Shape, GivesBack
<1>3. ASSUME Len(stack) > 1
      PROVE  Owes(f, ctx')
  <2> DEFINE caller == stack[Len(stack) - 1]
  <2>1. caller.phase = "loop" /\ Owes(caller, Top.saved)
    BY <1>1, <1>3 DEF WalkInv, Top
  <2>2. FrameKeeps(caller, f)
    BY <1>3
  <2> HIDE DEF caller
  <2>3. Keyword(f) = Keyword(caller)
    BY <2>2 DEF FrameKeeps, Keyword
  <2>4. Owes(f, Top.saved)
    BY <2>1, <2>2, <2>3 DEF FrameKeeps, Owes, GivenHops, GivenNeed
  <2>5. QED
    BY <2>4 DEF Owes, GivesBack
<1>4. QED
  BY <1>2, <1>3, PopStep

LEMMA CallReturns ==
  ASSUME WalkInv, ReturnInPlace \/ ReturnChild
  PROVE  WalkInv' /\ GivesBack(Top, ctx') /\ ~IsBranch(Top)
<1>1. stack # <<>> /\ Top.phase = "exit" /\ UNCHANGED call /\ stack' = Front(stack)
  BY DEF ReturnInPlace, ReturnChild, At
<1> DEFINE c == Left(Top)
<1>2. /\ DOMAIN c = ContextFields /\ c.errors.n \in Nat
      /\ c.depth = Top.saved.depth /\ c.dyn = Top.saved.dyn
      /\ c.needScope = GivenNeed(Top) /\ c.refDepth = GivenHops(Top)
  BY <1>1, LeftRestores
<1>3. FrameInv(Top) /\ Shape(Top.saved)
  BY <1>1, TopIsFrame DEF FrameInv
<1>4. GivesBack(Top, ctx')
  <2>1. CASE ReturnInPlace
    <3>1. PICK scope : ctx' = [c EXCEPT !.scope = scope]
      BY <2>1 DEF ReturnInPlace
    <3>2. Top.mode = "inplace"
      BY <2>1 DEF ReturnInPlace
    <3>3. GivenNeed(Top) = Top.saved.needScope /\ GivenHops(Top) = Top.saved.refDepth
      BY <1>3, <3>2 DEF GivenNeed, GivenHops, Shape
    <3> HIDE DEF c
    <3>4. QED
      BY <1>2, <3>1, <3>3 DEF GivesBack, ContextFields
  <2>2. CASE ReturnChild
    <3>1. ctx' = [c EXCEPT !.scope = Top.saved.scope, !.needScope = Top.saved.needScope,
                           !.refDepth = Top.saved.refDepth]
      BY <2>2 DEF ReturnChild
    <3> HIDE DEF c
    <3>2. QED
      BY <1>2, <3>1 DEF GivesBack, ContextFields
  <2>3. QED
    BY <2>1, <2>2
<1>5. ~IsBranch(Top)
  BY DEF ReturnInPlace, ReturnChild, IsBranch
<1>6. WalkInv'
  <2> DEFINE f == stack[Len(stack) - 1]
  <2>1. Len(stack) > 1 => FrameKeeps(f, f)
    BY <1>1, TopIsFrame DEF WalkInv, FrameInv, FrameKeeps
  <2> HIDE DEF f
  <2>2. stack' = Front(stack) /\ (Len(stack) > 1 => f = stack[Len(stack) - 1])
    BY <1>1 DEF f
  <2>3. Len(stack) > 1 => FrameKeeps(stack[Len(stack) - 1], f)
    BY <2>1 DEF f
  <2>4. QED
    BY <1>1, <1>4, <2>2, <2>3, ReturnStep
<1>7. QED
  BY <1>4, <1>5, <1>6

LEMMA BranchReturns ==
  ASSUME WalkInv, ReturnBranch
  PROVE  WalkInv' /\ GivesBack(Top, ctx') /\ AtMostOne(Top.saved, ctx')
<1>1. stack # <<>> /\ Top.phase = "exit" /\ UNCHANGED call /\ Top.mode \in {"branch", "item"}
  BY DEF ReturnBranch, At
<1> DEFINE c == Left(Top)
           r == [errors |-> c.errors, annos |-> c.annos, scope |-> c.scope,
                 cost |-> c.errCost - Top.saved.errCost, pos |-> Top.pos]
           caller == stack[Len(stack) - 1]
           own == Restored(Top, c)
           k == Keyword(caller)
           f == Absorb(caller, k, own, r).frame
<1>2. ctx' = Absorb(caller, k, own, r).ctx /\ stack' = [Front(stack) EXCEPT ![Len(stack) - 1] = f]
  BY DEF ReturnBranch
<1>3. /\ DOMAIN c = ContextFields
      /\ c.depth = Top.saved.depth /\ c.dyn = Top.saved.dyn
      /\ c.needScope = GivenNeed(Top) /\ c.refDepth = GivenHops(Top)
  BY <1>1, LeftRestores
<1>4. FrameInv(Top) /\ Shape(Top.saved)
  BY <1>1, TopIsFrame DEF FrameInv
<1>5. /\ GivenNeed(Top) = Top.saved.needScope
      /\ Top.mode = "branch" => GivenHops(Top) = Top.saved.refDepth
  BY <1>1, <1>4 DEF GivenNeed, GivenHops, Shape
<1> HIDE DEF c
<1>6. /\ GivesBack(Top, own) /\ own.errors = Top.saved.errors
      /\ own.failCount = Top.saved.failCount /\ own.stopFired = Top.saved.stopFired
  BY <1>1, <1>3, <1>4, <1>5 DEF Restored, GivesBack, ContextFields, Shape
<1> HIDE DEF own, r, k
<1>7. Keeps(own, ctx') /\ AtMostOne(own, ctx')
  BY <1>2, <1>6, AbsorbContext DEF GivesBack
<1>8. GivesBack(Top, ctx') /\ AtMostOne(Top.saved, ctx')
  BY <1>6, <1>7 DEF Keeps, GivesBack, AtMostOne
<1>9. Len(stack) > 1 => FrameKeeps(caller, f)
  <2> HAVE Len(stack) > 1
  <2>1. DOMAIN caller = FrameFields
    BY <1>1, TopIsFrame DEF WalkInv, FrameInv
  <2> HIDE DEF caller
  <2>2. QED
    BY <2>1, AbsorbFrame
<1> HIDE DEF f
<1>10. CASE Len(stack) > 1
  BY <1>1, <1>2, <1>8, <1>9, <1>10, ReturnStep
<1>11. CASE ~(Len(stack) > 1)
  <2> DEFINE rest == Front(stack)
             n == Len(stack) - 1
  <2>1. rest \in Seq(ToSet(rest)) /\ Len(rest) = n /\ Len(stack) \in Nat \ {0}
    BY <1>1, FrontSeq DEF WalkInv
  <2>2. n = 0
    BY <1>11, <2>1
  <2>3. [rest EXCEPT ![n] = f] = rest
    <3> HIDE DEF rest, n
    <3>1. DOMAIN rest = 1..0
      BY <2>1, <2>2
    <3>2. n \notin DOMAIN rest
      BY <2>2, <3>1
    <3>3. /\ DOMAIN [rest EXCEPT ![n] = f] = DOMAIN rest
          /\ \A i \in DOMAIN rest : [rest EXCEPT ![n] = f][i] = rest[i]
      BY <3>2
    <3>4. QED
      BY <2>1, <3>3
  <2>4. stack' = Front(stack)
    BY <1>2, <2>3
  <2>5. QED
    BY <1>1, <1>8, <1>11, <2>4, ReturnStep
<1>12. QED
  BY <1>8, <1>10, <1>11

-----------------------------------------------------------------------------
LEMMA InitHolds == Init => WalkInv
<1> SUFFICES ASSUME Init PROVE WalkInv
  OBVIOUS
<1> DEFINE f == Frame(To(schema, instance, "inplace"), Context(schema))
<1>1. opts.maxDepth \in Int
  BY ValidationAssumption DEF Init, OptionsType
<1>2. Shape(Context(schema)) /\ Context(schema).depth = 0
  <2> DEFINE dyn == << Schema[schema].resource >>
  <2>1. dyn \in Seq({Schema[schema].resource})
    OBVIOUS
  <2>2. dyn \in Seq(ToSet(dyn))
    BY <2>1, OwnElements
  <2> HIDE DEF dyn
  <2>3. QED
    BY <2>2 DEF Context, Shape, ContextFields, NoErrors, dyn
<1>3. ctx = [Context(schema) EXCEPT !.scope = EmptyScope]
  BY DEF Init, Prepared
<1>4. /\ f.saved = Context(schema) /\ f.mode = "inplace" /\ f.phase = "enter"
      /\ f.entered = FALSE /\ f.owns = FALSE /\ DOMAIN f = FrameFields
  BY DEF Frame, To, FrameFields
<1>5. stack = << f >>
  BY DEF Init
<1> HIDE DEF f
<1>6. Shape(ctx) /\ Owes(f, ctx)
  BY <1>2, <1>3, <1>4 DEF Shape, ContextFields, Owes, GivenNeed, GivenHops
<1>7. FrameInv(f) /\ f.saved.depth = 0 /\ ~f.entered
  BY <1>2, <1>4 DEF FrameInv
<1>8. stack \in Seq(ToSet(stack)) /\ Len(stack) = 1 /\ stack[1] = f
  <2>1. stack \in Seq({f})
    BY <1>5
  <2>2. QED
    BY <1>5, <2>1, OwnElements
<1>9. QED
  BY <1>1, <1>6, <1>7, <1>8 DEF WalkInv, Top

(* The invariant is inductive: one lemma per kind of step. *)
LEMMA StepHolds == WalkInv /\ [Next]_vars => WalkInv'
<1> SUFFICES ASSUME WalkInv, [Next]_vars PROVE WalkInv'
  OBVIOUS
<1>1. CASE RunSkipped \/ RunOverLimit \/ RunBoolean \/ RunTooDeep
  BY <1>1, RunStep
<1>2. CASE RunEnter
  BY <1>2, EnterStep
<1>3. CASE LoopEnds \/ Assertion \/ Annotate \/ RefFails \/ TooManyKeys
  BY <1>3, KeywordStep
<1>4. CASE RefEnters \/ Apply
  BY <1>4, LoopStep
<1>5. CASE Visit
  BY <1>5, VisitStep
<1>6. CASE MissingName
  BY <1>6, MissingStep
<1>7. CASE KeywordEnds
  BY <1>7, EndStep
<1>8. CASE ReturnInPlace \/ ReturnChild
  BY <1>8, CallReturns
<1>9. CASE ReturnBranch
  BY <1>9, BranchReturns
<1>10. CASE UNCHANGED vars
  BY <1>10 DEF vars, call, WalkInv, Top
<1>11. QED
  BY <1>1, <1>2, <1>3, <1>4, <1>5, <1>6, <1>7, <1>8, <1>9, <1>10 DEF Next

LEMMA WalkAlways == Spec => []WalkInv
BY InitHolds, StepHolds, PTL DEF Spec

(* The call stack of a validation, whatever the graph of subschemas, cycles    *)
(* included: run's check of validationDepth against WithMaxValidationDepth,    *)
(* with the deferred decrement, bounds the depth of the walk.                  *)
THEOREM DepthLimit == Spec => []DepthBounded
<1>1. WalkInv => DepthBounded
  <2> SUFFICES ASSUME WalkInv PROVE DepthBounded
    OBVIOUS
  <2> DEFINE n == Len(stack)
  <2>1. n \in Nat /\ opts.maxDepth \in Int
    BY DEF WalkInv
  <2>2. CASE n <= 1
    BY <2>1, <2>2 DEF DepthBounded
  <2>3. CASE n > 1
    <3>1. n - 1 \in 1..n - 1 /\ n - 1 \in 1..n
      BY <2>1, <2>3
    <3>2. stack[n - 1].entered /\ (stack[n - 1].entered => n - 1 - 1 <= opts.maxDepth)
      BY <3>1 DEF WalkInv, FrameInv
    <3>3. QED
      BY <2>1, <3>2 DEF DepthBounded
  <2>4. QED
    BY <2>1, <2>2, <2>3
<1>2. QED
  BY <1>1, WalkAlways, PTL

(* A step that shortens the stack is a return. *)
LEMMA OnlyReturnsPop ==
  ASSUME WalkInv, Next, Len(stack') < Len(stack)
  PROVE  ReturnInPlace \/ ReturnChild \/ ReturnBranch
<1> SUFFICES ASSUME ~(ReturnInPlace \/ ReturnChild \/ ReturnBranch) PROVE FALSE
  OBVIOUS
<1>1. stack # <<>>
  BY DEF Next, RunSkipped, RunOverLimit, RunBoolean, RunTooDeep, RunEnter, Runs, LoopEnds,
         Assertion, Annotate, RefFails, RefEnters, TooManyKeys, Apply, Starts, Visit,
         MissingName, KeywordEnds, At
<1>2. stack \in Seq(ToSet(stack)) /\ Len(stack) \in Nat /\ Len(stack) \in 1..Len(stack)
  BY <1>1, TopIsFrame DEF WalkInv
<1>3. ASSUME NEW f
      PROVE  LET new == [stack EXCEPT ![Len(stack)] = f]
             IN new \in Seq(ToSet(new)) /\ Len(new) = Len(stack)
  BY <1>2, ReplaceSeq
<1>4. CASE Visit
  <2> DEFINE f == [Top EXCEPT !.todo = Tail(@)]
             new == [stack EXCEPT ![Len(stack)] = f]
  <2>1. new = [stack EXCEPT ![Len(stack)].todo = Tail(@)]
    BY DEF Top
  <2>2. stack' = Append(new, Frame(Head(Top.todo), ctx))
    BY <1>4, <2>1 DEF Visit
  <2>3. new \in Seq(ToSet(new)) /\ Len(new) = Len(stack)
    BY <1>3
  <2> HIDE DEF new
  <2>4. Len(Append(new, Frame(Head(Top.todo), ctx))) = Len(new) + 1
    BY <2>3, AppendSeq
  <2>5. QED
    BY <1>2, <2>2, <2>3, <2>4
<1>5. CASE ~Visit
  <2>1. PICK f : SetTop(f)
    BY <1>5 DEF Next, RunSkipped, RunOverLimit, RunBoolean, RunTooDeep, RunEnter, Runs,
         LoopEnds, Assertion, Annotate, RefFails, RefEnters, TooManyKeys, Apply,
         MissingName, KeywordEnds, Exit, Skip, Loop
  <2>2. Len(stack') = Len(stack)
    BY <1>3, <2>1 DEF SetTop
  <2>3. QED
    BY <1>2, <2>2
<1>6. QED
  BY <1>4, <1>5

(* What evaluate, evaluateAt and evaluateBranch promise their callers: when    *)
(* run is over, depths, scope flag and dynamic scope are the caller's again,   *)
(* and a branch leaves at most the one error the keyword itself adds.          *)
THEOREM Restores == Spec => RunRestores
<1>1. ASSUME WalkInv, Next, Len(stack') < Len(stack)
      PROVE  /\ GivesBack(Top, ctx')
             /\ IsBranch(Top) => AtMostOne(Top.saved, ctx')
  <2>1. CASE ReturnInPlace \/ ReturnChild
    BY <1>1, <2>1, CallReturns
  <2>2. CASE ReturnBranch
    BY <1>1, <2>2, BranchReturns
  <2>3. QED
    BY <1>1, <2>1, <2>2, OnlyReturnsPop
<1> DEFINE Restoring ==
      Len(stack') < Len(stack) =>
          LET saved == Top.saved IN
          /\ ctx'.depth = saved.depth /\ ctx'.refDepth = saved.refDepth
          /\ ctx'.needScope = saved.needScope /\ ctx'.dyn = saved.dyn
          /\ IsBranch(Top) =>
                /\ ctx'.errors.n \in {saved.errors.n, saved.errors.n + 1}
                /\ ctx'.failCount \in {saved.failCount, saved.failCount + 1}
                /\ ctx'.stopFired => saved.stopFired \/ ctx'.errors.n > saved.errors.n
<1>2. WalkInv /\ [Next]_vars => [Restoring]_vars
  <2> SUFFICES ASSUME WalkInv, [Next]_vars, Len(stack') < Len(stack), ~UNCHANGED vars
               PROVE  Restoring
    OBVIOUS
  <2>1. GivesBack(Top, ctx') /\ (IsBranch(Top) => AtMostOne(Top.saved, ctx'))
    BY <1>1
  <2>2. QED
    BY <2>1 DEF GivesBack, AtMostOne
<1>3. QED
  BY <1>2, WalkAlways, PTL DEF Spec, RunRestores

====
