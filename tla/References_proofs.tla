--------------------------- MODULE References_proofs ---------------------------
(***************************************************************************)
(* When Compile returns, a validation finds what it can select, and the     *)
(* collision policy alone has decided what each URI stands for.             *)
(***************************************************************************)
EXTENDS References, Builder_proofs

-----------------------------------------------------------------------------
(* The inductive invariant *)

\* What may come before what: the opening of a compilation comes before the
\* builds, a scan after the visits of its round and the builds they started, and
\* what was built for a reference is recorded before anything else is scanned.
Opening == {"seed", "walk", "bind", "bindref", "vocabularies"}
Follows(a, b) ==
    /\ b.call \in Opening => a.call \in Opening
    /\ a.call = "scan" => b.call = "round"
    /\ b.call = "settle" => a.call \in Inner \cup {"settle"}
Phased(t) == \A j \in DOMAIN t : \A i \in 1 .. j - 1 : Follows(t[i], t[j])

Calling(t, kind) == \E x \in DOMAIN t : t[x].call = kind
Unbuilt(c, t) == \E x \in DOMAIN t : t[x].call = "enter" /\ t[x].key \notin DOMAIN c
Opened1(c, t) == (\E x \in DOMAIN t : t[x].call \in Opening) => Unbuilt(c, t)
Rounded(t) == Calling(t, "targets") => Calling(t, "scan")

\* A target is recorded right after the build under its location, and a build
\* that has not started comes right after another record, if not first.
Paired(e, t) ==
    \A x \in DOMAIN t : (t[x].call = "settle" /\ x > 1) =>
        /\ t[x - 1].call \in {"enter", "promote"}
        /\ t[x - 1].key = TargetKey(e[t[x].id], t[x].target)
        /\ t[x - 1].call = "enter" => x = 2 \/ t[x - 2].call = "settle"
Due(t, s) == \A x \in DOMAIN t : t[x].call = "settle" => t[x].id[1] \in s

\* The dynamic and recursive references of the subschemas visited, and no others.
Noted(w, c, e, s, k) ==
    /\ \A x \in DOMAIN k : k[x][1] \in s
    /\ \A id \in DOMAIN e :
          (id[1] \in s /\ id[2] \in DOMAIN w.schema[c[id[1]].node].refs /\ e[id].kw # "$ref") => id \in ToSet(k)

\* There will be another round, or something could not be built.
Failing(e) == \E id \in DOMAIN e : e[id].failed # {}
Stale(c, e, t) ==
    t # << >> /\ t[1].call = "settle" /\ TargetKey(e[t[1].id], t[1].target) \notin DOMAIN c
Unsettled(c, e, t, s) ==
    \/ Failing(e) \/ ~(DOMAIN c \subseteq s)
    \/ Calling(t, "promote") \/ Unbuilt(c, t) \/ Stale(c, e, t)

\* What a reference can select in the resource a URI stands for, and that all of
\* it has been built, or will be recorded, or is still to be looked at.
Offered(m, e, u, v) ==
    LET r == m.byURI[u]
    IN \/ e.kw = "$dynamicRef" /\ e.name \in DOMAIN m.reg[r].dynamic /\ v = m.reg[r].dynamic[e.name]
       \/ e.kw = "$recursiveRef" /\ m.reg[r].recursive /\ v = r.root
Offers(m, e, t, k) ==
    \A u \in DOMAIN m.byURI : \A x \in DOMAIN k : \A v : Offered(m, e[k[x]], u, v) =>
        \/ v \in e[k[x]].built \cup e[k[x]].failed
        \/ \E y \in DOMAIN t : t[y] = Settle(k[x], v)
        \/ \E y \in DOMAIN t : t[y].call = "resource" /\ t[y].uri = u

Arranged(c, e, t, s) == Phased(t) /\ Opened1(c, t) /\ Rounded(t) /\ Paired(e, t) /\ Due(t, s)
Coming(m, c, e, t, s, k) == Calling(t, "scan") \/ Unsettled(c, e, t, s) \/ Offers(m, e, t, k)
Readying(w, m, c, e, t, s, k, o) ==
    /\ Arranged(c, e, t, s) /\ Noted(w, c, e, s, k)
    /\ o # "error" => Coming(m, c, e, t, s, k)

RInv == Readying(world, rm, cache, eval, todo, seen, work, outcome)

-----------------------------------------------------------------------------
(* The calls to be made *)

(* Calls pushed in the place of the first keep the order of the phases. *)
LEMMA PhasedPush ==
  ASSUME NEW t, NEW new, NEW p, PushedOn(p, new, t), Phased(t), Phased(new),
         \A i \in DOMAIN new :
            /\ new[i].call = "scan" => Len(t) = 1
            /\ t[1].call \in Opening => new[i].call \in Opening
            /\ t[1].call \in Inner \cup {"settle"} => new[i].call \in Inner \cup {"settle"}
  PROVE  Phased(p)
<1> SUFFICES ASSUME NEW y \in DOMAIN p, NEW x \in 1 .. y - 1
             PROVE  Follows(p[x], p[y])
  BY DEF Phased
<1>1. /\ Len(new) \in Nat /\ Len(t) \in Nat /\ DOMAIN new = 1 .. Len(new) /\ DOMAIN t = 1 .. Len(t)
      /\ DOMAIN p = 1 .. Len(p) /\ Len(p) \in Nat
  BY DEF PushedOn
<1>2. x \in DOMAIN p /\ x < y
  BY <1>1
<1>3. CASE y \in DOMAIN new /\ p[y] = new[y]
  <2>1. x \in DOMAIN new /\ p[x] = new[x]
    BY <1>1, <1>2, <1>3 DEF PushedOn
  <2>2. QED
    BY <1>3, <2>1 DEF Phased
<1>4. ASSUME NEW j \in 2 .. Len(t), y = Len(new) + j - 1, p[y] = t[j]
      PROVE  Follows(p[x], p[y])
  <2>1. CASE x \in DOMAIN new /\ p[x] = new[x]
    <3>1. 1 \in 1 .. j - 1 /\ j \in DOMAIN t /\ Len(t) # 1
      BY <1>1
    <3>2. Follows(t[1], t[j])
      BY <3>1 DEF Phased
    <3>3. QED
      BY <1>4, <2>1, <3>1, <3>2 DEF Follows
  <2>2. ASSUME NEW i \in 2 .. Len(t), x = Len(new) + i - 1, p[x] = t[i]
        PROVE  Follows(p[x], p[y])
    <3>1. i \in 1 .. j - 1 /\ j \in DOMAIN t
      BY <1>1, <1>2, <1>4, <2>2
    <3>2. QED
      BY <1>4, <2>2, <3>1 DEF Phased
  <2>3. \/ x \in DOMAIN new /\ p[x] = new[x]
        \/ \E i \in 2 .. Len(t) : x = Len(new) + i - 1 /\ p[x] = t[i]
    BY <1>2 DEF PushedOn
  <2>4. QED
    BY <2>1, <2>2, <2>3
<1>5. \/ y \in DOMAIN new /\ p[y] = new[y]
      \/ \E j \in 2 .. Len(t) : y = Len(new) + j - 1 /\ p[y] = t[j]
  BY DEF PushedOn
<1>6. QED
  BY <1>3, <1>4, <1>5

(* Records stay with the builds they follow when calls are pushed in the place of
   the first, if a build in that place ends with the same location. *)
LEMMA PairedPush ==
  ASSUME NEW t, NEW new, NEW p, PushedOn(p, new, t), NEW e, Paired(e, t), Paired(e, new),
         Len(new) > 0 =>
            /\ t[1].call # "settle"
            /\ t[1].call \in {"enter", "promote"} =>
                  new[Len(new)].call = "promote" /\ new[Len(new)].key = t[1].key
  PROVE  Paired(e, p)
<1> SUFFICES ASSUME NEW y \in DOMAIN p, p[y].call = "settle", y > 1
             PROVE  /\ p[y - 1].call \in {"enter", "promote"}
                    /\ p[y - 1].key = TargetKey(e[p[y].id], p[y].target)
                    /\ p[y - 1].call = "enter" => y = 2 \/ p[y - 2].call = "settle"
  BY DEF Paired
<1>1. /\ Len(new) \in Nat /\ Len(t) \in Nat /\ DOMAIN new = 1 .. Len(new) /\ DOMAIN t = 1 .. Len(t)
      /\ DOMAIN p = 1 .. Len(p) /\ Len(p) \in Nat /\ y \in Nat
  BY DEF PushedOn
<1>2. CASE y \in DOMAIN new /\ p[y] = new[y]
  <2>1. y - 1 \in DOMAIN new /\ p[y - 1] = new[y - 1]
    BY <1>1, <1>2 DEF PushedOn
  <2>2. y = 2 \/ (y - 2 \in DOMAIN new /\ p[y - 2] = new[y - 2])
    BY <1>1, <1>2 DEF PushedOn
  <2>3. QED
    BY <1>2, <2>1, <2>2 DEF Paired
<1>3. ASSUME NEW j \in 2 .. Len(t), y = Len(new) + j - 1, p[y] = t[j]
      PROVE  /\ p[y - 1].call \in {"enter", "promote"}
             /\ p[y - 1].key = TargetKey(e[p[y].id], p[y].target)
             /\ p[y - 1].call = "enter" => y = 2 \/ p[y - 2].call = "settle"
  <2>1. /\ t[j - 1].call \in {"enter", "promote"} /\ t[j - 1].key = TargetKey(e[p[y].id], p[y].target)
        /\ t[j - 1].call = "enter" => j = 2 \/ t[j - 2].call = "settle"
    <3>1. j \in DOMAIN t /\ j > 1
      BY <1>1
    <3>2. QED
      BY <1>3, <3>1 DEF Paired
  <2>2. CASE j = 2
    <3>1. Len(new) > 0 /\ y - 1 = Len(new) /\ Len(new) \in DOMAIN new
      BY <1>1, <1>3, <2>2
    <3>2. p[y - 1] = new[Len(new)]
      BY <3>1 DEF PushedOn
    <3>3. QED
      BY <2>1, <2>2, <3>1, <3>2
  <2>3. CASE j > 2
    <3>1. j - 1 \in 2 .. Len(t) /\ Len(new) + (j - 1) - 1 = y - 1
      BY <1>1, <1>3, <2>3
    <3>2. p[y - 1] = t[j - 1]
      BY <3>1 DEF PushedOn
    <3>3. CASE j = 3
      <4>1. CASE Len(new) = 0
        <5>1. y = 2
          BY <1>1, <1>3, <3>3, <4>1
        <5>2. QED
          BY <2>1, <3>2, <5>1
      <4>2. CASE Len(new) > 0
        BY <2>1, <3>2, <3>3, <4>2
      <4>3. QED
        BY <1>1, <4>1, <4>2
    <3>4. CASE j # 3
      <4>1. j - 2 \in 2 .. Len(t) /\ Len(new) + (j - 2) - 1 = y - 2
        BY <1>1, <1>3, <2>3, <3>4
      <4>2. p[y - 2] = t[j - 2]
        BY <4>1 DEF PushedOn
      <4>3. QED
        BY <2>1, <2>3, <3>2, <4>2
    <3>5. QED
      BY <3>3, <3>4
  <2>4. QED
    BY <1>1, <2>2, <2>3
<1>4. \/ y \in DOMAIN new /\ p[y] = new[y]
      \/ \E j \in 2 .. Len(t) : y = Len(new) + j - 1 /\ p[y] = t[j]
  BY DEF PushedOn
<1>5. QED
  BY <1>2, <1>3, <1>4

(* What is left of the calls from one on keeps both. *)
LEMMA FromOnwards ==
  ASSUME NEW t, NEW n \in Nat, DOMAIN t = 1 .. n, NEW k \in 1 .. n, Phased(t), NEW e, Paired(e, t),
         NEW p, DOMAIN p = 1 .. n - k + 1, \A i \in DOMAIN p : p[i] = t[k + i - 1]
  PROVE  Phased(p) /\ Paired(e, p)
<1>1. k \in Nat /\ k >= 1 /\ k <= n
  OBVIOUS
<1>2. \A i \in DOMAIN p : p[i] = t[k + i - 1]
  OBVIOUS
<1>3. \A i \in DOMAIN p : i \in Nat /\ k + i - 1 \in DOMAIN t
  BY <1>1
<1>4. Phased(p)
  <2> SUFFICES ASSUME NEW j \in DOMAIN p, NEW i \in 1 .. j - 1 PROVE Follows(p[i], p[j])
    BY DEF Phased
  <2>1. i \in DOMAIN p /\ k + i - 1 \in 1 .. (k + j - 1) - 1
    BY <1>1, <1>2
  <2>2. Follows(t[k + i - 1], t[k + j - 1])
    BY <1>3, <2>1 DEF Phased
  <2>3. QED
    BY <1>2, <2>1, <2>2
<1>5. Paired(e, p)
  <2> SUFFICES ASSUME NEW y \in DOMAIN p, p[y].call = "settle", y > 1
               PROVE  /\ p[y - 1].call \in {"enter", "promote"}
                      /\ p[y - 1].key = TargetKey(e[p[y].id], p[y].target)
                      /\ p[y - 1].call = "enter" => y = 2 \/ p[y - 2].call = "settle"
    BY DEF Paired
  <2> DEFINE x == k + y - 1
  <2>1. x \in DOMAIN t /\ x > 1 /\ p[y] = t[x] /\ y - 1 \in DOMAIN p /\ p[y - 1] = t[x - 1]
    <3>1. x \in DOMAIN t /\ x > 1 /\ p[y] = t[x] /\ y - 1 \in DOMAIN p /\ k + (y - 1) - 1 = x - 1
      BY <1>1, <1>2, <1>3
    <3>2. QED
      BY <1>2, <3>1
  <2>2. y = 2 \/ (y - 2 \in DOMAIN p /\ p[y - 2] = t[x - 2] /\ x # 2)
    <3>1. CASE y # 2
      <4>1. y - 2 \in DOMAIN p /\ k + (y - 2) - 1 = x - 2 /\ x # 2
        BY <1>1, <1>2, <1>3, <3>1
      <4>2. QED
        BY <1>2, <4>1
    <3>2. QED
      BY <3>1
  <2> HIDE DEF x
  <2>3. QED
    BY <2>1, <2>2 DEF Paired
<1>6. QED
  BY <1>4, <1>5

(* A place in a list of pairs is the first or the second of one of them. *)
LEMMA Halves ==
  ASSUME NEW n \in Nat, NEW x \in 1 .. 2 * n
  PROVE  \E i \in 1 .. n : x = 2 * i - 1 \/ x = 2 * i
<1> DEFINE i == (x + 1) \div 2
<1>1. i \in 1 .. n /\ (x = 2 * i - 1 \/ x = 2 * i)
  OBVIOUS
<1>2. QED
  BY <1>1

\* Builds of targets, each followed by the call that records it.
Couples(e, q) ==
    \E n \in Nat :
        /\ DOMAIN q = 1 .. 2 * n
        /\ \A i \in 1 .. n :
              /\ q[2 * i - 1].call = "enter" /\ q[2 * i].call = "settle"
              /\ q[2 * i - 1].key = TargetKey(e[q[2 * i].id], q[2 * i].target)

(* Such calls are in order. *)
LEMMA CouplesInOrder ==
  ASSUME NEW e, NEW q, Couples(e, q)
  PROVE  /\ Phased(q) /\ Paired(e, q)
         /\ \A x \in DOMAIN q : q[x].call \in {"enter", "settle"}
<1>1. PICK n \in Nat :
        /\ DOMAIN q = 1 .. 2 * n
        /\ \A i \in 1 .. n :
              /\ q[2 * i - 1].call = "enter" /\ q[2 * i].call = "settle"
              /\ q[2 * i - 1].key = TargetKey(e[q[2 * i].id], q[2 * i].target)
  BY DEF Couples
<1>2. \A x \in DOMAIN q : q[x].call \in {"enter", "settle"}
  <2> SUFFICES ASSUME NEW x \in 1 .. 2 * n PROVE q[x].call \in {"enter", "settle"}
    BY <1>1
  <2>1. PICK i \in 1 .. n : x = 2 * i - 1 \/ x = 2 * i
    BY Halves
  <2>2. QED
    BY <1>1, <2>1
<1>3. Phased(q)
  <2> SUFFICES ASSUME NEW j \in DOMAIN q, NEW i \in 1 .. j - 1 PROVE Follows(q[i], q[j])
    BY DEF Phased
  <2>1. i \in DOMAIN q
    BY <1>1
  <2>2. QED
    BY <1>2, <2>1 DEF Follows, Opening, Inner
<1>4. Paired(e, q)
  <2> SUFFICES ASSUME NEW x \in DOMAIN q, q[x].call = "settle", x > 1
               PROVE  /\ q[x - 1].call = "enter"
                      /\ q[x - 1].key = TargetKey(e[q[x].id], q[x].target)
                      /\ x = 2 \/ q[x - 2].call = "settle"
    BY DEF Paired
  <2>1. x \in 1 .. 2 * n
    BY <1>1
  <2>2. PICK i \in 1 .. n : x = 2 * i - 1 \/ x = 2 * i
    BY <2>1, Halves
  <2>3. q[2 * i - 1].call = "enter" /\ q[2 * i - 1].key = TargetKey(e[q[2 * i].id], q[2 * i].target)
    BY <1>1
  <2>4. x = 2 * i /\ x - 1 = 2 * i - 1
    BY <2>2, <2>3
  <2>5. CASE i # 1
    <3>1. i - 1 \in 1 .. n /\ 2 * (i - 1) = x - 2
      BY <2>4, <2>5
    <3>2. q[2 * (i - 1)].call = "settle"
      BY <1>1, <3>1
    <3>3. QED
      BY <2>3, <2>4, <3>1, <3>2
  <2>6. CASE i = 1
    BY <2>3, <2>4, <2>6
  <2>7. QED
    BY <2>5, <2>6
<1>5. QED
  BY <1>2, <1>3, <1>4

(* One list of them after another is one. *)
LEMMA CouplesJoined ==
  ASSUME NEW A, NEW a \in Seq(A), NEW b \in Seq(A), NEW e, Couples(e, a), Couples(e, b), NEW q, q = a \o b
  PROVE  Couples(e, q)
<1>1. PICK n \in Nat :
        /\ DOMAIN a = 1 .. 2 * n
        /\ \A i \in 1 .. n :
              /\ a[2 * i - 1].call = "enter" /\ a[2 * i].call = "settle"
              /\ a[2 * i - 1].key = TargetKey(e[a[2 * i].id], a[2 * i].target)
  BY DEF Couples
<1>2. PICK o \in Nat :
        /\ DOMAIN b = 1 .. 2 * o
        /\ \A i \in 1 .. o :
              /\ b[2 * i - 1].call = "enter" /\ b[2 * i].call = "settle"
              /\ b[2 * i - 1].key = TargetKey(e[b[2 * i].id], b[2 * i].target)
  BY DEF Couples
<1>3. Len(a) = 2 * n /\ Len(b) = 2 * o
  BY <1>1, <1>2
<1>4. /\ q \in Seq(A) /\ Len(q) = Len(a) + Len(b)
      /\ \A k \in 1 .. Len(a) : q[k] = a[k]
      /\ \A k \in 1 .. Len(b) : q[Len(a) + k] = b[k]
  BY ConcatIndices
<1>5. DOMAIN q = 1 .. Len(q)
  BY <1>4
<1>6. DOMAIN q = 1 .. 2 * (n + o) /\ n + o \in Nat
  BY ONLY <1>3, <1>4, <1>5, n \in Nat, o \in Nat
<1>7. ASSUME NEW i \in 1 .. n + o
      PROVE  /\ q[2 * i - 1].call = "enter" /\ q[2 * i].call = "settle"
             /\ q[2 * i - 1].key = TargetKey(e[q[2 * i].id], q[2 * i].target)
  <2>1. CASE i <= n
    <3>1. i \in 1 .. n /\ 2 * i - 1 \in 1 .. Len(a) /\ 2 * i \in 1 .. Len(a)
      BY ONLY <1>3, <2>1, n \in Nat, o \in Nat, i \in 1 .. n + o
    <3>2. q[2 * i - 1] = a[2 * i - 1] /\ q[2 * i] = a[2 * i]
      BY ONLY <1>4, <3>1
    <3>3. QED
      BY ONLY <1>1, <3>1, <3>2
  <2>2. CASE i > n
    <3> DEFINE h == i - n
    <3>1. /\ h \in 1 .. o /\ 2 * h - 1 \in 1 .. Len(b) /\ 2 * h \in 1 .. Len(b)
          /\ 2 * i - 1 = Len(a) + (2 * h - 1) /\ 2 * i = Len(a) + 2 * h
      BY ONLY <1>3, <2>2, n \in Nat, o \in Nat, i \in 1 .. n + o
    <3> HIDE DEF h
    <3>2. q[Len(a) + (2 * h - 1)] = b[2 * h - 1] /\ q[Len(a) + 2 * h] = b[2 * h]
      BY ONLY <1>4, <3>1
    <3>3. /\ b[2 * h - 1].call = "enter" /\ b[2 * h].call = "settle"
          /\ b[2 * h - 1].key = TargetKey(e[b[2 * h].id], b[2 * h].target)
      BY ONLY <1>2, <3>1
    <3>4. q[2 * i - 1] = b[2 * h - 1] /\ q[2 * i] = b[2 * h]
      BY ONLY <3>1, <3>2
    <3>5. QED
      BY ONLY <3>3, <3>4
  <2>3. i <= n \/ i > n
    BY ONLY n \in Nat, o \in Nat, i \in 1 .. n + o
  <2>4. QED
    BY ONLY <2>1, <2>2, <2>3
<1>8. QED
  BY <1>6, <1>7 DEF Couples

\* The records are of the references listed.
RecordsOf(q, ids) == \A x \in DOMAIN q : q[x].call = "settle" => \E i \in DOMAIN ids : q[x].id = ids[i]

(* The calls that build a list of targets are such. *)
LEMMA PrebuildsCouple ==
  ASSUME Running, NEW ids \in Seq(DOMAIN eval), NEW target, \A i \in DOMAIN ids : target[i] \in Node(world),
         NEW new, new = FlattenSeq([i \in DOMAIN ids |-> Prebuild(ids[i], target[i])])
  PROVE  Couples(eval, new) /\ RecordsOf(new, ids)
<1> DEFINE B == Settled(eval, world)
           f == [i \in DOMAIN ids |-> Prebuild(ids[i], target[i])]
           n == Len(ids)
<1>1. ASSUME NEW i \in DOMAIN ids
      PROVE  /\ f[i] \in Seq(B) /\ Len(f[i]) = 2 /\ f[i][2] = Settle(ids[i], target[i])
             /\ f[i][1].call = "enter" /\ f[i][1].key = TargetKey(eval[ids[i]], target[i])
  <2>1. ids[i] \in DOMAIN eval /\ target[i] \in Node(world) /\ f[i] = Prebuild(ids[i], target[i])
    OBVIOUS
  <2>2. f[i][1].call = "enter" /\ f[i][1].key = TargetKey(eval[ids[i]], target[i])
    BY <2>1 DEF Prebuild, Enter
  <2> HIDE DEF f
  <2>3. QED
    BY <2>1, <2>2, PrebuildTyped DEF Settled
<1>2. DOMAIN f = DOMAIN ids /\ f = [i \in DOMAIN ids |-> f[i]] /\ new = FlattenSeq(f)
  OBVIOUS
<1>3. n \in Nat /\ DOMAIN ids = 1 .. n
  OBVIOUS
<1> HIDE DEF f, B, n
<1>4. f \in Seq(Seq(B)) /\ Len(f) = n
  <2> DEFINE C == Seq(B)
  <2>1. \A i \in DOMAIN ids : f[i] \in C
    BY <1>1
  <2> HIDE DEF C
  <2>2. f \in Seq(C) /\ Len(f) = Len(ids)
    BY <1>2, <2>1, Lists
  <2>3. QED
    BY <2>2 DEF C, n
<1>5. /\ Len(new) = 2 * n
      /\ \A i \in 1 .. n : new[2 * i - 1] = f[i][1] /\ new[2 * i] = f[i][2]
  <2>1. \A i \in 1 .. Len(f) : Len(f[i]) = 2
    BY <1>1, <1>3, <1>4
  <2>2. /\ Len(FlattenSeq(f)) = 2 * Len(f)
        /\ \A i \in 1 .. Len(f) : FlattenSeq(f)[2 * i - 1] = f[i][1] /\ FlattenSeq(f)[2 * i] = f[i][2]
    BY ONLY <1>4, <2>1, FlattenPairs
  <2>3. QED
    BY ONLY <1>2, <1>4, <2>2
<1>6. new \in Seq(B) /\ DOMAIN new = 1 .. 2 * n
  <2>1. new \in Seq(B)
    BY <1>2, <1>4, FlattenElements
  <2>2. QED
    BY <1>5, <2>1
<1>7. ASSUME NEW i \in 1 .. n
      PROVE  /\ new[2 * i - 1].call = "enter" /\ new[2 * i].call = "settle"
             /\ new[2 * i].id = ids[i] /\ new[2 * i].target = target[i]
             /\ new[2 * i - 1].key = TargetKey(eval[ids[i]], target[i])
  <2>1. /\ Settle(ids[i], target[i]).call = "settle" /\ Settle(ids[i], target[i]).id = ids[i]
        /\ Settle(ids[i], target[i]).target = target[i]
    BY DEF Settle
  <2>2. new[2 * i - 1] = f[i][1] /\ new[2 * i] = f[i][2]
    BY ONLY <1>5, i \in 1 .. n
  <2>3. /\ f[i][2] = Settle(ids[i], target[i]) /\ f[i][1].call = "enter"
        /\ f[i][1].key = TargetKey(eval[ids[i]], target[i])
    BY <1>1, <1>3
  <2>4. QED
    BY ONLY <2>1, <2>2, <2>3
<1>8. Couples(eval, new)
  BY <1>3, <1>6, <1>7 DEF Couples
<1>9. ASSUME NEW x \in DOMAIN new, new[x].call = "settle"
      PROVE  \E i \in DOMAIN ids : new[x].id = ids[i]
  <2>1. PICK i \in 1 .. n : x = 2 * i - 1 \/ x = 2 * i
    BY <1>3, <1>6, Halves
  <2>2. new[2 * i - 1].call = "enter" /\ new[2 * i].id = ids[i]
    BY <1>7
  <2>3. i \in DOMAIN ids /\ new[x].id = ids[i]
    BY ONLY <1>3, <1>9, <2>1, <2>2
  <2>4. QED
    BY <2>3
<1>10. QED
  BY <1>8, <1>9 DEF RecordsOf

(* What is below the first call is still to be made when others take its place. *)
LEMMA StillCalled ==
  ASSUME NEW t, NEW new, NEW p, PushedOn(p, new, t)
  PROVE  /\ \A x \in DOMAIN t : x # 1 => \E y \in DOMAIN p : p[y] = t[x]
         /\ \A i \in DOMAIN new : \E y \in DOMAIN p : p[y] = new[i]
         /\ \A y \in DOMAIN p : \/ \E i \in DOMAIN new : p[y] = new[i]
                               \/ \E x \in DOMAIN t : x # 1 /\ 1 \in 1 .. x - 1 /\ p[y] = t[x]
<1>1. \A x \in DOMAIN t : x # 1 => \E y \in DOMAIN p : p[y] = t[x]
  <2> SUFFICES ASSUME NEW x \in DOMAIN t, x # 1 PROVE \E y \in DOMAIN p : p[y] = t[x]
    OBVIOUS
  <2>1. x \in 2 .. Len(t)
    BY DEF PushedOn
  <2>2. QED
    BY <2>1 DEF PushedOn
<1>2. \A i \in DOMAIN new : \E y \in DOMAIN p : p[y] = new[i]
  BY DEF PushedOn
<1>3. ASSUME NEW y \in DOMAIN p
      PROVE  \/ \E i \in DOMAIN new : p[y] = new[i]
             \/ \E x \in DOMAIN t : x # 1 /\ 1 \in 1 .. x - 1 /\ p[y] = t[x]
  <2>1. ASSUME NEW j \in 2 .. Len(t), p[y] = t[j]
        PROVE  \E x \in DOMAIN t : x # 1 /\ 1 \in 1 .. x - 1 /\ p[y] = t[x]
    <3>1. j \in DOMAIN t /\ j # 1 /\ 1 \in 1 .. j - 1
      BY DEF PushedOn
    <3>2. QED
      BY <2>1, <3>1
  <2>2. QED
    BY <2>1 DEF PushedOn
<1>4. QED
  BY <1>1, <1>2, <1>3

(* Calls pushed in the place of the first keep the arrangement of all. *)
LEMMA ArrangedPush ==
  ASSUME NEW t, NEW new, NEW p, PushedOn(p, new, t), NEW c, NEW e, NEW s, Arranged(c, e, t, s),
         NEW c2, NEW s2, s \subseteq s2, t[1].call \in Opening => c2 = c /\ t[1].call # "enter",
         Phased(new), Paired(e, new), Due(new, s2),
         \A i \in DOMAIN new :
            /\ new[i].call \notin {"scan", "targets"}
            /\ t[1].call \in Opening <=> new[i].call \in Opening
            /\ t[1].call \in Inner \cup {"settle"} => new[i].call \in Inner \cup {"settle"},
         Len(new) > 0 =>
            /\ t[1].call # "settle"
            /\ t[1].call \in {"enter", "promote"} =>
                  new[Len(new)].call = "promote" /\ new[Len(new)].key = t[1].key
  PROVE  Arranged(c2, e, p, s2)
<1>1. Phased(t) /\ Opened1(c, t) /\ Rounded(t) /\ Paired(e, t) /\ Due(t, s)
  BY DEF Arranged
<1>2. Phased(p)
  BY <1>1, PhasedPush
<1>3. Paired(e, p)
  BY <1>1, PairedPush
<1>4. Due(p, s2)
  BY <1>1, StillCalled DEF Due
<1>5. \A x \in DOMAIN t : (x # 1 /\ 1 \in 1 .. x - 1) => Follows(t[1], t[x])
  BY <1>1 DEF Phased
<1>6. Opened1(c2, p)
  <2> SUFFICES ASSUME NEW y \in DOMAIN p, p[y].call \in Opening PROVE Unbuilt(c2, p)
    BY DEF Opened1
  <2>1. t[1].call \in Opening
    BY <1>5, StillCalled DEF Follows
  <2>2. 1 \in DOMAIN t
    BY DEF PushedOn
  <2>3. PICK x \in DOMAIN t : t[x].call = "enter" /\ t[x].key \notin DOMAIN c
    BY <1>1, <2>1, <2>2 DEF Opened1, Unbuilt
  <2>4. x # 1
    BY <2>1, <2>3
  <2>5. QED
    BY <2>1, <2>3, <2>4, StillCalled DEF Unbuilt
<1>7. Rounded(p)
  <2> SUFFICES ASSUME NEW y \in DOMAIN p, p[y].call = "targets" PROVE Calling(p, "scan")
    BY DEF Rounded, Calling
  <2>1. PICK x \in DOMAIN t : x # 1 /\ 1 \in 1 .. x - 1 /\ p[y] = t[x]
    BY StillCalled
  <2>2. t[1].call # "scan"
    BY <1>5, <2>1 DEF Follows
  <2>3. PICK z \in DOMAIN t : t[z].call = "scan"
    BY <1>1, <2>1 DEF Rounded, Calling
  <2>4. z # 1
    BY <2>2, <2>3
  <2>5. QED
    BY <2>3, <2>4, StillCalled DEF Calling
<1>8. QED
  BY <1>2, <1>3, <1>4, <1>6, <1>7 DEF Arranged

(* The first call is done. *)
LEMMA ArrangedTail ==
  ASSUME NEW t, NEW p, PushedOn(p, << >>, t), NEW c, NEW e, NEW s, Arranged(c, e, t, s),
         NEW c2, t[1].call \in Opening => c2 = c
  PROVE  Arranged(c2, e, p, s)
<1> DEFINE none == << >>
<1>1. \A i \in DOMAIN none : FALSE
  OBVIOUS
<1>2. Len(none) = 0 /\ PushedOn(p, none, t)
  OBVIOUS
<1> HIDE DEF none
<1>3. Phased(none) /\ Paired(e, none) /\ Due(none, s)
  BY <1>1 DEF Phased, Paired, Due
<1>4. t[1].call \in Opening => t[1].call # "enter"
  BY DEF Opening
<1>5. QED
  BY <1>1, <1>2, <1>3, <1>4, ArrangedPush

(* Evaluators that keep their keyword and location keep their records in place. *)
LEMMA ArrangedSame ==
  ASSUME NEW c, NEW e, NEW t, NEW s, Arranged(c, e, t, s), NEW e2,
         \A x \in DOMAIN t : t[x].call = "settle" => t[x].id \in DOMAIN e,
         \A id \in DOMAIN e : id[1] \in s => e2[id].kw = e[id].kw /\ e2[id].key = e[id].key
  PROVE  Arranged(c, e2, t, s)
<1>1. Paired(e, t) /\ Due(t, s)
  BY DEF Arranged
<1>2. \A x \in DOMAIN t : t[x].call = "settle" =>
         TargetKey(e2[t[x].id], t[x].target) = TargetKey(e[t[x].id], t[x].target)
  BY <1>1 DEF Due, TargetKey
<1>3. Paired(e2, t)
  BY <1>1, <1>2 DEF Paired
<1>4. QED
  BY <1>3 DEF Arranged

-----------------------------------------------------------------------------
(* The steps *)

RRunning == Running /\ RInv

\* The first call makes others, none of which walks a document.
Pushing ==
    \E new \in Seq(Calls(world)) : Then(new) /\ \A i \in DOMAIN new : new[i].call \notin {"seed", "walk"}

(* What the invariant says of the calls, with some in the place of the first. *)
LEMMA ThenPushes ==
  ASSUME RRunning, NEW new \in Seq(Calls(world)), Then(new), NEW p, p = todo'
  PROVE  /\ PushedOn(p, new, todo) /\ outcome' = "running" /\ outcome = "running"
         /\ 1 \in DOMAIN todo /\ Call = todo[1]
         /\ Arranged(cache, eval, todo, seen) /\ Noted(world, cache, eval, seen, work)
         /\ Coming(rm, cache, eval, todo, seen, work)
<1>1. /\ todo \in Seq(Calls(world)) /\ todo # << >> /\ outcome = "running" /\ 1 \in DOMAIN todo
      /\ Call = todo[1]
  BY FirstCall DEF RRunning, Running
<1>2. p = new \o Tail(todo) /\ outcome' = outcome
  BY DEF Then
<1>3. PushedOn(p, new, todo)
  BY <1>1, <1>2, Stacked
<1>4. QED
  BY <1>1, <1>2, <1>3 DEF RRunning, RInv, Readying

(* A scan that is still to be made is still to be made after another step. *)
LEMMA ScanStays ==
  ASSUME NEW t, NEW new, NEW p, PushedOn(p, new, t), NEW kind, t[1].call # kind, Calling(t, kind)
  PROVE  Calling(p, kind)
<1>1. PICK x \in DOMAIN t : t[x].call = kind
  BY DEF Calling
<1>2. x # 1
  BY <1>1
<1>3. QED
  BY <1>1, <1>2, StillCalled DEF Calling

(* The invariant after a step, put together. *)
LEMMA Readied1 ==
  ASSUME UNCHANGED given, Arranged(cache', eval', todo', seen'), Noted(world, cache', eval', seen', work'),
         outcome' # "error" => Coming(rm', cache', eval', todo', seen', work')
  PROVE  RInv'
  BY DEF RInv, Readying, given

(* No call is left. *)
LEMMA NothingLeft ==
  ASSUME NEW c, NEW e, NEW s
  PROVE  Arranged(c, e, << >>, s)
<1> DEFINE none == << >>
<1>1. \A i \in DOMAIN none : FALSE
  OBVIOUS
<1> HIDE DEF none
<1>2. Arranged(c, e, none, s)
  BY <1>1 DEF Arranged, Phased, Opened1, Rounded, Paired, Due, Calling
<1>3. QED
  BY <1>2 DEF none

(* A step of the opening of a compilation: the build of the schema is still to
   come, and an error is returned by Compile. *)
LEMMA OpeningStays ==
  ASSUME RRunning, Call.call \in Opening, UNCHANGED << cache, eval, seen, work >>,
         \/ Throw
         \/ \E new \in Seq(Calls(world)) : Then(new) /\ \A i \in DOMAIN new : new[i].call \in Opening
  PROVE  RInv'
<1>1. /\ todo \in Seq(Calls(world)) /\ Call = todo[1] /\ 1 \in DOMAIN todo /\ DOMAIN todo = 1 .. Len(todo)
      /\ Len(todo) \in Nat /\ UNCHANGED given
      /\ Arranged(cache, eval, todo, seen) /\ Noted(world, cache, eval, seen, work)
  BY FirstCall DEF RRunning, Running, RInv, Readying
<1>2. CASE Throw
  <2>1. ASSUME NEW x \in DOMAIN todo, todo[x].call = "settle" PROVE FALSE
    <3>1. x # 1
      BY <1>1, <2>1 DEF Opening
    <3>2. 1 \in 1 .. x - 1
      BY <1>1, <3>1
    <3>3. Follows(todo[1], todo[x])
      BY <1>1, <3>2 DEF Arranged, Phased
    <3>4. QED
      BY <1>1, <2>1, <3>3 DEF Follows, Opening, Inner
  <2>2. todo' = << >> /\ outcome' = "error"
    BY <1>2, <2>1 DEF Throw, Catches
  <2>3. Arranged(cache', eval', todo', seen')
    BY <2>2, NothingLeft
  <2>4. QED
    BY <1>1, <2>2, <2>3, Readied1
<1>3. ASSUME NEW new \in Seq(Calls(world)), Then(new), \A i \in DOMAIN new : new[i].call \in Opening
      PROVE  RInv'
  <2> DEFINE p == todo'
  <2>1. PushedOn(p, new, todo)
    BY <1>3, ThenPushes
  <2> HIDE DEF p
  <2>2. Phased(new) /\ Paired(eval, new) /\ Due(new, seen)
    <3>1. DOMAIN new = 1 .. Len(new) /\ Len(new) \in Nat
      BY <2>1 DEF PushedOn
    <3>2. Phased(new)
      <4> SUFFICES ASSUME NEW j \in DOMAIN new, NEW i \in 1 .. j - 1 PROVE Follows(new[i], new[j])
        BY DEF Phased
      <4>1. i \in DOMAIN new
        BY <3>1
      <4>2. QED
        BY <1>3, <4>1 DEF Follows, Opening
    <3>3. QED
      BY <1>3, <3>2 DEF Paired, Due, Opening
  <2>3. Arranged(cache, eval, p, seen)
    <3>1. \A i \in DOMAIN new :
            /\ new[i].call \notin {"scan", "targets"}
            /\ todo[1].call \in Opening <=> new[i].call \in Opening
            /\ todo[1].call \in Inner \cup {"settle"} => new[i].call \in Inner \cup {"settle"}
      BY <1>1, <1>3 DEF Opening, Inner
    <3>2. todo[1].call \notin {"settle", "enter", "promote"}
      BY <1>1 DEF Opening
    <3>3. QED
      BY <1>1, <2>1, <2>2, <3>1, <3>2, ArrangedPush
  <2>4. Unbuilt(cache, p)
    <3>1. PICK x \in DOMAIN todo : todo[x].call = "enter" /\ todo[x].key \notin DOMAIN cache
      BY <1>1 DEF Arranged, Opened1, Unbuilt
    <3>2. x # 1
      BY <1>1, <3>1 DEF Opening
    <3>3. QED
      BY <2>1, <3>1, <3>2, StillCalled DEF Unbuilt
  <2>5. Coming(rm', cache', eval', todo', seen', work') /\ Arranged(cache', eval', todo', seen')
    BY <2>3, <2>4 DEF Coming, Unsettled, p
  <2>6. QED
    BY <1>1, <2>5, Readied1
<1>4. QED
  BY <1>2, <1>3

(* The steps of the opening: documents are walked and the schema is bound. *)
LEMMA OpeningSteps ==
  ASSUME RRunning, WalkSeed \/ WalkRoot \/ BindNode \/ BindReference \/ Vocabularies
  PROVE  RInv'
<1>1. Call.call \in Opening /\ UNCHANGED << cache, eval, seen, work >>
  BY DEF WalkSeed, WalkRoot, BindNode, BindReference, Vocabularies, Walks, At, Call, Opening
<1>2. << >> \in Seq(Calls(world)) /\ \A i \in DOMAIN << >> : << >>[i].call \in Opening
  OBVIOUS
<1>3. CASE BindNode
  <2>1. Running /\ {"bind", "bindref"} \subseteq Opening
    BY DEF RRunning, Opening
  <2>2. \/ Throw
        \/ \E new \in Seq(Calls(world)) :
              Then(new) /\ \A i \in DOMAIN new : new[i].call \in {"bind", "bindref"}
    BY <1>3, <2>1, BindsNext
  <2>3. QED
    BY <1>1, <2>1, <2>2, OpeningStays
<1>4. CASE WalkSeed \/ WalkRoot
  <2>1. Throw \/ Then(<< >>)
    BY <1>4 DEF WalkSeed, WalkRoot, Walks
  <2>2. QED
    BY <1>1, <1>2, <2>1, OpeningStays
<1>5. CASE BindReference
  <2>1. Throw \/ Then(<< >>)
    BY <1>5 DEF BindReference
  <2>2. QED
    BY <1>1, <1>2, <2>1, OpeningStays
<1>6. CASE Vocabularies
  <2>1. Throw \/ Then(<< >>)
    BY <1>6 DEF Vocabularies
  <2>2. QED
    BY <1>1, <1>2, <2>1, OpeningStays
<1>7. QED
  BY <1>3, <1>4, <1>5, <1>6

(* A target that is built, recorded or still to be recorded remains so while the
   evaluators and the calls that bring it do. *)
LEMMA OffersStay ==
  ASSUME NEW m, NEW e, NEW t, NEW k, Offers(m, e, t, k), NEW e2, \A x \in DOMAIN k : e2[k[x]] = e[k[x]],
         NEW p, \A x \in DOMAIN t : t[x].call \in {"settle", "resource"} => \E y \in DOMAIN p : p[y] = t[x]
  PROVE  Offers(m, e2, p, k)
<1> SUFFICES ASSUME NEW u \in DOMAIN m.byURI, NEW x \in DOMAIN k, NEW v, Offered(m, e2[k[x]], u, v)
             PROVE  \/ v \in e2[k[x]].built \cup e2[k[x]].failed
                    \/ \E y \in DOMAIN p : p[y] = Settle(k[x], v)
                    \/ \E y \in DOMAIN p : p[y].call = "resource" /\ p[y].uri = u
  BY DEF Offers
<1>1. e2[k[x]] = e[k[x]]
  OBVIOUS
<1>2. \/ v \in e[k[x]].built \cup e[k[x]].failed
      \/ \E y \in DOMAIN t : t[y] = Settle(k[x], v)
      \/ \E y \in DOMAIN t : t[y].call = "resource" /\ t[y].uri = u
  BY <1>1 DEF Offers
<1>3. ASSUME NEW y \in DOMAIN t, t[y] = Settle(k[x], v) PROVE \E z \in DOMAIN p : p[z] = Settle(k[x], v)
  <2>1. t[y].call = "settle"
    BY <1>3 DEF Settle
  <2>2. QED
    BY <1>3, <2>1
<1>4. ASSUME NEW y \in DOMAIN t, t[y].call = "resource", t[y].uri = u
      PROVE  \E z \in DOMAIN p : p[z].call = "resource" /\ p[z].uri = u
  BY <1>4
<1>5. QED
  BY <1>1, <1>2, <1>3, <1>4

(* So it does when calls take the place of a first one of another kind. *)
LEMMA OffersPush ==
  ASSUME NEW m, NEW e, NEW t, NEW k, Offers(m, e, t, k), NEW new, NEW p, PushedOn(p, new, t),
         t[1].call \notin {"settle", "resource"}
  PROVE  Offers(m, e, p, k)
<1>1. ASSUME NEW x \in DOMAIN t, t[x].call \in {"settle", "resource"} PROVE \E y \in DOMAIN p : p[y] = t[x]
  <2>1. x # 1
    BY <1>1
  <2>2. QED
    BY <2>1, StillCalled
<1>2. \A x \in DOMAIN k : e[k[x]] = e[k[x]]
  OBVIOUS
<1>3. QED
  BY <1>1, <1>2, OffersStay

(* A subschema is entered: it is known or being built, or its build starts. *)
LEMMA EnterNodeReady ==
  ASSUME RRunning, EnterNode
  PROVE  RInv'
<1> DEFINE p == todo'
<1>1. /\ Call.call = "enter" /\ UNCHANGED << rm, cache, eval, seen, work >> /\ UNCHANGED given
      /\ Call = todo[1] /\ Running
  BY FirstCall DEF EnterNode, At, Call, RRunning, Running
(* It suffices that the calls are arranged and there is more to come. *)
<1>2. ASSUME Arranged(cache, eval, p, seen), Coming(rm, cache, eval, p, seen, work)
      PROVE  RInv'
  <2>1. Noted(world, cache, eval, seen, work)
    BY DEF RRunning, RInv, Readying
  <2>2. Arranged(cache', eval', todo', seen') /\ Coming(rm', cache', eval', todo', seen', work')
        /\ Noted(world, cache', eval', seen', work')
    BY <1>1, <1>2, <2>1
  <2>3. QED
    BY <1>1, <2>2, Readied1
<1>3. CASE Call.key \in DOMAIN cache \/ InFlight(Call.key)
  <2> DEFINE none == << >>
  <2>1. none \in Seq(Calls(world)) /\ Then(none)
    BY <1>3 DEF EnterNode
  <2>2. /\ PushedOn(p, none, todo) /\ Arranged(cache, eval, todo, seen)
        /\ Coming(rm, cache, eval, todo, seen, work)
    BY <2>1, ThenPushes
  <2> HIDE DEF p
  <2>3. Arranged(cache, eval, p, seen)
    BY <2>2, ArrangedTail DEF none
  <2> HIDE DEF none
  <2>4. Coming(rm, cache, eval, p, seen, work)
    <3>1. CASE Calling(todo, "scan")
      BY <1>1, <2>2, <3>1, ScanStays DEF Coming
    <3>2. CASE Calling(todo, "promote")
      BY <1>1, <2>2, <3>2, ScanStays DEF Coming, Unsettled
    <3>3. CASE Unbuilt(cache, todo)
      <4>1. PICK x \in DOMAIN todo : todo[x].call = "enter" /\ todo[x].key \notin DOMAIN cache
        BY <3>3 DEF Unbuilt
      <4>2. CASE x # 1
        <5>1. \E y \in DOMAIN p : p[y] = todo[x]
          BY <2>2, <4>2, StillCalled
        <5>2. QED
          BY <4>1, <5>1 DEF Coming, Unsettled, Unbuilt
      <4>3. CASE x = 1
        <5>1. InFlight(Call.key)
          BY <1>1, <1>3, <4>1, <4>3
        <5>2. Calling(todo, "promote")
          BY <5>1 DEF InFlight, Calling
        <5>3. QED
          BY <3>2, <5>2
      <4>4. QED
        BY <4>2, <4>3
    <3>4. CASE Failing(eval) \/ ~(DOMAIN cache \subseteq seen)
      BY <3>4 DEF Coming, Unsettled
    <3>5. CASE Offers(rm, eval, todo, work)
      <4>1. todo[1].call \notin {"settle", "resource"}
        BY <1>1
      <4>2. Offers(rm, eval, p, work)
        BY <2>2, <3>5, <4>1, OffersPush
      <4>3. QED
        BY <4>2 DEF Coming
    <3>6. QED
      BY <1>1, <2>2, <3>1, <3>2, <3>3, <3>4, <3>5 DEF Coming, Unsettled, Stale
  <2>5. QED
    BY <1>2, <2>3, <2>4 DEF p
<1>4. CASE ~(Call.key \in DOMAIN cache \/ InFlight(Call.key))
  <2>1. PICK pro \in PromoteCall(world) : \E new \in Seq(Calls(world)) :
               pro.key = Call.key /\ Started(new, pro) /\ Then(new)
    BY <1>1, <1>4, EnterStarts
  <2>2. PICK new \in Seq(Calls(world)) : pro.key = Call.key /\ Started(new, pro) /\ Then(new)
    BY <2>1
  <2>3. PushedOn(p, new, todo) /\ Arranged(cache, eval, todo, seen)
    BY <2>2, ThenPushes
  <2> HIDE DEF p
  <2>4. /\ Len(new) \in Nat /\ Len(new) > 0 /\ DOMAIN new = 1 .. Len(new) /\ Len(new) \in DOMAIN new
        /\ new[Len(new)].call = "promote" /\ new[Len(new)].key = Call.key
    BY <2>2 DEF Started, PromoteCall
  <2>5. \A i \in DOMAIN new : new[i].call \in Inner
    <3> SUFFICES ASSUME NEW i \in DOMAIN new PROVE new[i].call \in Inner
      OBVIOUS
    <3>1. i = Len(new) \/ i \in 1 .. Len(new) - 1
      BY <2>4
    <3>2. QED
      BY <2>2, <2>4, <3>1 DEF Started, Inner
  <2>6. Phased(new) /\ Paired(eval, new) /\ Due(new, seen)
    <3>1. Phased(new)
      <4> SUFFICES ASSUME NEW j \in DOMAIN new, NEW i \in 1 .. j - 1 PROVE Follows(new[i], new[j])
        BY DEF Phased
      <4>1. i \in DOMAIN new
        BY <2>4
      <4>2. QED
        BY <2>5, <4>1 DEF Follows, Opening, Inner
    <3>2. QED
      BY <2>5, <3>1 DEF Paired, Due, Inner
  <2>7. Arranged(cache, eval, p, seen)
    <3>1. \A i \in DOMAIN new :
            /\ new[i].call \notin {"scan", "targets"}
            /\ todo[1].call \in Opening <=> new[i].call \in Opening
            /\ todo[1].call \in Inner \cup {"settle"} => new[i].call \in Inner \cup {"settle"}
      BY <1>1, <2>5 DEF Opening, Inner
    <3>2. todo[1].call = "enter" /\ todo[1].call \notin Opening /\ todo[1].key = Call.key
      BY <1>1 DEF Opening
    <3>3. QED
      BY <2>3, <2>4, <2>6, <3>1, <3>2, ArrangedPush
  <2>8. Calling(p, "promote")
    BY <2>3, <2>4, StillCalled DEF Calling
  <2>9. Coming(rm, cache, eval, p, seen, work)
    BY <2>8 DEF Coming, Unsettled
  <2>10. QED
    BY <1>2, <2>7, <2>9 DEF p
<1>5. QED
  BY <1>3, <1>4

(* A call that is done leaves the arrangement of the others, evaluators that keep
   their keyword and location included. *)
LEMMA DoneArranged ==
  ASSUME RRunning, NEW p, p = todo', Then(<< >>), NEW c2, Call.call \in Opening => c2 = cache, NEW e2,
         \A id \in DOMAIN eval : id[1] \in seen => e2[id].kw = eval[id].kw /\ e2[id].key = eval[id].key
  PROVE  PushedOn(p, << >>, todo) /\ Arranged(c2, e2, p, seen)
<1> DEFINE none == << >>
<1>1. none \in Seq(Calls(world)) /\ Then(none)
  OBVIOUS
<1>2. PushedOn(p, none, todo) /\ Arranged(cache, eval, todo, seen) /\ Call = todo[1]
  BY <1>1, ThenPushes
<1>3. Arranged(c2, eval, p, seen)
  BY <1>2, ArrangedTail DEF none
<1>4. \A x \in DOMAIN p : p[x].call = "settle" => p[x].id \in DOMAIN eval
  <2> SUFFICES ASSUME NEW x \in DOMAIN p, p[x].call = "settle" PROVE p[x].id \in DOMAIN eval
    OBVIOUS
  <2>1. ~ \E i \in DOMAIN none : p[x] = none[i]
    OBVIOUS
  <2> HIDE DEF none
  <2>2. PICK y \in DOMAIN todo : p[x] = todo[y]
    BY <1>2, <2>1, StillCalled
  <2>3. CallReady(world, rm, cache, eval, todo[y])
    BY DEF RRunning, Running, BInv, TodoOK
  <2>4. QED
    BY <2>2, <2>3 DEF CallReady
<1>5. Arranged(c2, e2, p, seen)
  BY <1>3, <1>4, ArrangedSame
<1>6. QED
  BY <1>2, <1>5 DEF none

(* A reference is resolved for a subschema that is being built. *)
LEMMA ResolveReferenceReady ==
  ASSUME RRunning, ResolveReference
  PROVE  RInv'
<1> DEFINE p == todo'
           e == eval'
<1>1. /\ Call.call = "resolve" /\ UNCHANGED << cache, seen, work >> /\ UNCHANGED given /\ Then(<< >>)
      /\ Call = todo[1] /\ Running /\ 1 \in DOMAIN todo /\ Call.call \notin Opening
  BY FirstCall DEF ResolveReference, At, Call, RRunning, Running, Opening
<1>2. PICK j \in DOMAIN todo : todo[j].call = "promote" /\ todo[j].key = Call.id[1]
  <2>1. Resolving(world, todo, 1)
    BY <1>1 DEF Running, BInv, TodoOK
  <2>2. QED
    BY <1>1, <2>1 DEF Resolving
<1>3. Call.id[1] \notin seen
  <2>1. CallReady(world, rm, cache, eval, todo[j]) /\ SeenOK(world, cache, eval, todo, seen)
    BY <1>1 DEF Running, BInv, TodoOK
  <2>2. Call.id[1] \notin DOMAIN cache
    BY <1>2, <2>1 DEF CallReady
  <2>3. QED
    BY <2>1, <2>2 DEF SeenOK
<1>4. /\ \A id \in DOMAIN eval : id[1] \in seen => e[id] = eval[id]
      /\ \A id \in DOMAIN e : id[1] \in seen => id \in DOMAIN eval /\ e[id] = eval[id]
  <2>1. e = eval \/ \E v : e = Put(eval, Call.id, v)
    BY DEF ResolveReference
  <2> HIDE DEF e
  <2>2. CASE e = eval
    BY <2>2
  <2>3. ASSUME NEW v, e = Put(eval, Call.id, v)
        PROVE  /\ \A id \in DOMAIN eval : id[1] \in seen => e[id] = eval[id]
               /\ \A id \in DOMAIN e : id[1] \in seen => id \in DOMAIN eval /\ e[id] = eval[id]
    BY <1>3, <2>3 DEF Put
  <2>4. QED
    BY <2>1, <2>2, <2>3
<1> HIDE DEF e
<1>5. PushedOn(p, << >>, todo) /\ Arranged(cache, e, p, seen)
  BY <1>1, <1>4, DoneArranged
<1> HIDE DEF p
<1>6. Calling(p, "promote")
  <2>1. Calling(todo, "promote") /\ todo[1].call # "promote"
    BY <1>1, <1>2 DEF Calling
  <2>2. QED
    BY <1>5, <2>1, ScanStays
<1>7. Noted(world, cache, e, seen, work)
  <2>1. Noted(world, cache, eval, seen, work)
    BY DEF RRunning, RInv, Readying
  <2>2. QED
    BY <1>4, <2>1 DEF Noted
<1>8. Coming(rm', cache, e, p, seen, work)
  BY <1>6 DEF Coming, Unsettled
<1>9. /\ Arranged(cache', eval', todo', seen') /\ Coming(rm', cache', eval', todo', seen', work')
      /\ Noted(world, cache', eval', seen', work')
  BY <1>1, <1>5, <1>7, <1>8 DEF p, e
<1>10. QED
  BY <1>1, <1>9, Readied1

(* An error while a subschema is built returns to the call that records it, which
   finds nothing built, or from Compile. *)
LEMMA AbandonedBuild ==
  ASSUME RRunning, Call.call = "promote", Throw, NEW p, p = todo'
  PROVE  Arranged(cache, eval, p, seen) /\ (outcome' # "error" => Stale(cache, eval, p))
<1>1. /\ todo \in Seq(Calls(world)) /\ Len(todo) \in Nat /\ DOMAIN todo = 1 .. Len(todo) /\ Call = todo[1]
      /\ 1 \in DOMAIN todo /\ outcome = "running" /\ Running
  BY FirstCall DEF RRunning
<1>2. Phased(todo) /\ Rounded(todo) /\ Paired(eval, todo) /\ Due(todo, seen)
  BY DEF RRunning, RInv, Readying, Arranged
<1>3. CASE Catches = {}
  <2>1. p = << >> /\ outcome' = "error"
    BY <1>3 DEF Throw
  <2>2. QED
    BY <2>1, NothingLeft
<1>4. CASE Catches # {}
  <2> DEFINE k == CHOOSE i \in Catches : \A j \in Catches : i <= j
             n == Len(todo)
  <2>1. Catches \in SUBSET Nat
    BY <1>1 DEF Catches
  <2>2. \E i \in Catches : \A j \in Catches : i <= j
    BY <1>4, <2>1, LeastNat
  <2>3. k \in Catches /\ \A j \in Catches : k <= j
    BY <2>2
  <2>4. p = SubSeq(todo, k, n)
    BY <1>4 DEF Throw
  <2> HIDE DEF k
  <2>5. k \in DOMAIN todo /\ todo[k].call = "settle" /\ k # 1 /\ k \in 1 .. n /\ n \in Nat /\ k > 1
    BY <1>1, <2>3 DEF Catches
  <2>6. DOMAIN p = 1 .. n - k + 1 /\ \A i \in DOMAIN p : p[i] = todo[k + i - 1]
    BY <1>1, <2>4, <2>5
  <2> HIDE DEF n
  <2>7. Phased(p) /\ Paired(eval, p)
    <3>1. DOMAIN todo = 1 .. n
      BY <1>1 DEF n
    <3>2. QED
      BY <1>2, <2>5, <2>6, <3>1, FromOnwards
  <2>8. \A i \in DOMAIN p : k + i - 1 \in DOMAIN todo /\ 1 \in 1 .. (k + i - 1) - 1
    <3>1. DOMAIN todo = 1 .. n
      BY <1>1 DEF n
    <3>2. QED
      BY ONLY <2>5, <2>6, <3>1
  <2>9. Opened1(cache, p)
    <3>1. ASSUME NEW i \in DOMAIN p, p[i].call \in Opening PROVE FALSE
      <4>1. Follows(todo[1], p[i])
        BY <1>2, <2>6, <2>8 DEF Phased
      <4>2. QED
        BY <1>1, <3>1, <4>1 DEF Follows, Opening
    <3>2. QED
      BY <3>1 DEF Opened1
  <2>10. Rounded(p)
    <3> SUFFICES ASSUME NEW i \in DOMAIN p, p[i].call = "targets" PROVE Calling(p, "scan")
      BY DEF Rounded, Calling
    <3>1. todo[k + i - 1].call = "targets" /\ k + i - 1 \in DOMAIN todo
      BY <2>6, <2>8
    <3>2. PICK z \in DOMAIN todo : todo[z].call = "scan"
      BY <1>2, <3>1 DEF Rounded, Calling
    <3>3. z # k /\ ~(z \in 1 .. k - 1)
      <4>1. ~(z \in 1 .. k - 1)
        <5>1. z \in 1 .. k - 1 => Follows(todo[z], todo[k])
          BY <1>2, <2>5 DEF Phased
        <5>2. ~Follows(todo[z], todo[k])
          BY <2>5, <3>2 DEF Follows, Inner
        <5>3. QED
          BY <5>1, <5>2
      <4>2. QED
        BY <2>5, <3>2, <4>1
    <3>4. z - k + 1 \in DOMAIN p /\ k + (z - k + 1) - 1 = z
      <4>1. z \in 1 .. n
        BY <1>1 DEF n
      <4>2. QED
        BY ONLY <2>5, <2>6, <3>3, <4>1
    <3>5. p[z - k + 1] = todo[z]
      BY <2>6, <3>4
    <3>6. QED
      BY <3>2, <3>4, <3>5 DEF Calling
  <2>11. Due(p, seen)
    BY <1>2, <2>6, <2>8 DEF Due
  <2>12. Stale(cache, eval, p)
    <3>1. 1 \in DOMAIN p /\ p[1] = todo[k] /\ p # << >>
      <4>1. 1 \in DOMAIN p /\ k + 1 - 1 = k
        BY ONLY <2>5, <2>6
      <4>2. p[1] = todo[k]
        BY <2>6, <4>1
      <4>3. QED
        BY <4>1, <4>2
    <3>2. /\ todo[k - 1].call \in {"enter", "promote"}
          /\ todo[k - 1].key = TargetKey(eval[todo[k].id], todo[k].target)
          /\ todo[k - 1].call = "enter" => k = 2 \/ todo[k - 2].call = "settle"
      BY <1>2, <2>5 DEF Paired
    <3>3. todo[k - 1].call = "promote"
      <4>1. k # 2 => k - 2 \in DOMAIN todo /\ ~(k <= k - 2)
        BY <1>1, <2>5
      <4>2. k # 2 => todo[k - 2].call # "settle"
        BY <2>3, <4>1 DEF Catches
      <4>3. k = 2 => todo[k - 1].call = "promote"
        BY <1>1
      <4>4. QED
        BY <3>2, <4>2, <4>3
    <3>4. k - 1 \in DOMAIN todo
      BY <1>1, <2>5
    <3>5. todo[k - 1].key \notin DOMAIN cache
      BY <1>1, <3>3, <3>4 DEF Running, BInv, TodoOK, CallReady
    <3>6. QED
      BY <2>5, <3>1, <3>2, <3>5 DEF Stale
  <2>13. QED
    BY <2>7, <2>9, <2>10, <2>11, <2>12 DEF Arranged
<1>5. QED
  BY <1>3, <1>4

(* A subschema that was built is still to be visited. *)
LEMMA PromoteReady ==
  ASSUME RRunning, Promote
  PROVE  RInv'
<1>1. /\ Call.call = "promote" /\ UNCHANGED << rm, eval, seen, work >> /\ UNCHANGED given
      /\ Call.call \notin Opening
  BY DEF Promote, At, Call, RRunning, Running, Opening
<1>2. Noted(world, cache, eval, seen, work) /\ SeenOK(world, cache, eval, todo, seen)
  BY DEF RRunning, RInv, Readying, Running, BInv
<1> DEFINE p == todo'
           c == cache'
<1>3. CASE Throw /\ UNCHANGED cache
  <2>1. Arranged(cache, eval, p, seen) /\ (outcome' # "error" => Stale(cache, eval, p))
    BY <1>1, <1>3, AbandonedBuild
  <2>2. outcome' # "error" => Coming(rm, cache, eval, p, seen, work)
    BY <2>1 DEF Coming, Unsettled
  <2>3. /\ Arranged(cache', eval', todo', seen') /\ Noted(world, cache', eval', seen', work')
        /\ outcome' # "error" => Coming(rm', cache', eval', todo', seen', work')
    BY <1>1, <1>2, <1>3, <2>1, <2>2
  <2>4. QED
    BY <1>1, <2>3, Readied1
<1>4. CASE cache' = Put(cache, Call.key, Call.sub) /\ Then(<< >>)
  <2>1. Call.key \notin DOMAIN cache
    BY <1>1, FirstCall DEF RRunning, CallReady
  <2>2. Call.key \notin seen
    BY <1>2, <2>1 DEF SeenOK
  <2>3. Call.key \in DOMAIN c /\ \A k \in seen : c[k] = cache[k]
    BY <1>2, <1>4, <2>2 DEF Put, SeenOK
  <2> HIDE DEF c
  <2>4. Arranged(c, eval, p, seen)
    BY <1>1, <1>4, DoneArranged
  <2>5. Noted(world, c, eval, seen, work)
    BY <1>2, <2>3 DEF Noted
  <2>6. Coming(rm, c, eval, p, seen, work)
    BY <2>2, <2>3 DEF Coming, Unsettled
  <2>7. /\ Arranged(cache', eval', todo', seen') /\ Noted(world, cache', eval', seen', work')
        /\ Coming(rm', cache', eval', todo', seen', work')
    BY <1>1, <2>4, <2>5, <2>6 DEF c
  <2>8. QED
    BY <1>1, <2>7, Readied1
<1>5. QED
  BY <1>3, <1>4 DEF Promote

(* What was built for a reference is kept by it, or why it could not be built. *)
LEMMA SettleTargetReady ==
  ASSUME RRunning, SettleTarget
  PROVE  RInv'
<1> DEFINE p == todo'
           e == eval'
           none == << >>
           id0 == Call.id
           v0 == Call.target
           found == TargetKey(eval[id0], v0) \in DOMAIN cache
<1>1. /\ Call.call = "settle" /\ UNCHANGED << rm, cache, seen, work >> /\ UNCHANGED given /\ Then(none)
      /\ Call.call \notin Opening /\ Call = todo[1] /\ id0 \in DOMAIN eval /\ outcome = "running"
      /\ none \in Seq(Calls(world))
  BY FirstCall DEF SettleTarget, At, Call, RRunning, Running, Opening, CallReady
<1>2. eval[id0] \in Evaluator(world)
  BY <1>1 DEF RRunning, Running, BInv, EvalOK
<1>3. /\ DOMAIN e = DOMAIN eval /\ \A id \in DOMAIN eval : id # id0 => e[id] = eval[id]
      /\ e[id0] = IF found THEN [eval[id0] EXCEPT !.built = eval[id0].built \cup {v0}]
                  ELSE [eval[id0] EXCEPT !.failed = eval[id0].failed \cup {v0}]
  BY <1>1 DEF SettleTarget
<1> HIDE DEF e, found
<1>4. /\ e[id0].kw = eval[id0].kw /\ e[id0].key = eval[id0].key /\ e[id0].name = eval[id0].name
      /\ eval[id0].built \subseteq e[id0].built /\ eval[id0].failed \subseteq e[id0].failed
      /\ found => v0 \in e[id0].built
      /\ ~found => v0 \in e[id0].failed
  BY <1>2, <1>3 DEF Evaluator
<1> HIDE DEF id0, v0
<1>5. \A id \in DOMAIN eval :
         /\ e[id].kw = eval[id].kw /\ e[id].key = eval[id].key /\ e[id].name = eval[id].name
         /\ eval[id].built \subseteq e[id].built /\ eval[id].failed \subseteq e[id].failed
  BY <1>3, <1>4
<1>6. /\ PushedOn(p, none, todo) /\ Arranged(cache, e, p, seen)
      /\ Coming(rm, cache, eval, todo, seen, work) /\ Noted(world, cache, eval, seen, work)
  BY <1>1, <1>5, DoneArranged, ThenPushes
<1>7. Noted(world, cache, e, seen, work)
  BY <1>3, <1>5, <1>6 DEF Noted
<1> HIDE DEF p, none
<1>8. Coming(rm, cache, e, p, seen, work)
  <2>1. CASE ~found
    BY <1>1, <1>3, <1>4, <2>1 DEF Coming, Unsettled, Failing
  <2>2. CASE Calling(todo, "scan")
    BY <1>1, <1>6, <2>2, ScanStays DEF Coming
  <2>3. CASE Calling(todo, "promote")
    BY <1>1, <1>6, <2>3, ScanStays DEF Coming, Unsettled
  <2>4. CASE Unbuilt(cache, todo)
    <3>1. PICK x \in DOMAIN todo : todo[x].call = "enter" /\ todo[x].key \notin DOMAIN cache
      BY <2>4 DEF Unbuilt
    <3>2. x # 1
      BY <1>1, <3>1
    <3>3. \E y \in DOMAIN p : p[y] = todo[x]
      BY <1>6, <3>2, StillCalled
    <3>4. QED
      BY <3>1, <3>3 DEF Coming, Unsettled, Unbuilt
  <2>5. CASE Failing(eval) \/ ~(DOMAIN cache \subseteq seen)
    BY <1>3, <1>5, <2>5 DEF Coming, Unsettled, Failing
  <2>6. CASE Stale(cache, eval, todo)
    BY <1>1, <2>1, <2>6 DEF Stale, found, id0, v0
  <2>7. CASE found /\ Offers(rm, eval, todo, work)
    <3> SUFFICES ASSUME NEW u \in DOMAIN rm.byURI, NEW x \in DOMAIN work, NEW v,
                        Offered(rm, e[work[x]], u, v)
                 PROVE  \/ v \in e[work[x]].built \cup e[work[x]].failed
                        \/ \E y \in DOMAIN p : p[y] = Settle(work[x], v)
                        \/ \E y \in DOMAIN p : p[y].call = "resource" /\ p[y].uri = u
      BY DEF Coming, Offers
    <3>1. work[x] \in DOMAIN eval
      BY DEF RRunning, Running, BInv
    <3>2. Offered(rm, eval[work[x]], u, v)
      BY <1>5, <3>1 DEF Offered
    <3>3. \/ v \in eval[work[x]].built \cup eval[work[x]].failed
          \/ \E y \in DOMAIN todo : todo[y] = Settle(work[x], v)
          \/ \E y \in DOMAIN todo : todo[y].call = "resource" /\ todo[y].uri = u
      BY <2>7, <3>2 DEF Offers
    <3>4. ASSUME NEW y \in DOMAIN todo, todo[y] = Settle(work[x], v)
          PROVE  v \in e[work[x]].built \/ \E z \in DOMAIN p : p[z] = Settle(work[x], v)
      <4>1. CASE y = 1
        <5>1. id0 = work[x] /\ v0 = v
          BY <1>1, <3>4, <4>1 DEF Settle, id0, v0
        <5>2. QED
          BY <1>4, <2>7, <5>1
      <4>2. CASE y # 1
        BY <1>6, <3>4, <4>2, StillCalled
      <4>3. QED
        BY <4>1, <4>2
    <3>5. ASSUME NEW y \in DOMAIN todo, todo[y].call = "resource", todo[y].uri = u
          PROVE  \E z \in DOMAIN p : p[z].call = "resource" /\ p[z].uri = u
      <4>1. y # 1
        BY <1>1, <3>5
      <4>2. \E z \in DOMAIN p : p[z] = todo[y]
        BY <1>6, <4>1, StillCalled
      <4>3. QED
        BY <3>5, <4>2
    <3>6. QED
      BY <1>5, <3>1, <3>3, <3>4, <3>5
  <2>8. QED
    BY <1>6, <2>1, <2>2, <2>3, <2>4, <2>5, <2>6, <2>7 DEF Coming, Unsettled
<1>9. /\ Arranged(cache', eval', todo', seen') /\ Coming(rm', cache', eval', todo', seen', work')
      /\ Noted(world, cache', eval', seen', work')
  BY <1>1, <1>6, <1>7, <1>8 DEF p, e
<1>10. QED
  BY <1>1, <1>9, Readied1

(* Builds of targets take the place of a visit or of the scan of a resource. *)
LEMMA CouplesArranged ==
  ASSUME RRunning, Call.call \in {"targets", "resource"}, NEW new \in Seq(Calls(world)), Then(new),
         Couples(eval, new), NEW s, seen \subseteq s, Due(new, s), NEW p, p = todo'
  PROVE  PushedOn(p, new, todo) /\ Arranged(cache, eval, p, s)
<1>1. PushedOn(p, new, todo) /\ Arranged(cache, eval, todo, seen) /\ Call = todo[1]
  BY ThenPushes
<1>2. Phased(new) /\ Paired(eval, new) /\ \A i \in DOMAIN new : new[i].call \in {"enter", "settle"}
  BY CouplesInOrder
<1>3. \A i \in DOMAIN new :
         /\ new[i].call \notin {"scan", "targets"}
         /\ todo[1].call \in Opening <=> new[i].call \in Opening
         /\ todo[1].call \in Inner \cup {"settle"} => new[i].call \in Inner \cup {"settle"}
  BY <1>1, <1>2 DEF Opening, Inner
<1>4. todo[1].call \notin Opening /\ todo[1].call \notin {"settle", "enter", "promote"}
  BY <1>1 DEF Opening
<1>5. QED
  BY <1>1, <1>2, <1>3, <1>4, ArrangedPush

\* The evaluators of the references at a location.
Listing(e, key, refs, ids) ==
    /\ ids \in Seq(DOMAIN e) /\ \A i \in DOMAIN ids : ids[i][1] = key
    /\ \A i \in DOMAIN refs : << key, i >> \in DOMAIN e => \E j \in 1 .. Len(ids) : ids[j] = << key, i >>

(* The evaluators of a subschema, in the order of its references. *)
LEMMA EvaluatorsOf ==
  ASSUME Running, NEW key \in DOMAIN cache, NEW refs, refs = S(cache[key].node).refs, NEW list,
         list = [i \in DOMAIN refs |-> << key, i >>], NEW ids, ids = Those(list, DOMAIN eval)
  PROVE  Listing(eval, key, refs, ids)
<1> DEFINE A == {<< key, i >> : i \in DOMAIN refs}
<1>1. refs \in Seq(KeywordRef)
  <2>1. cache[key].node \in Node(world) /\ WorldOK(world)
    BY DEF Running, BInv, CacheOK, Subschema
  <2>2. QED
    BY <2>1, Fields
<1>2. DOMAIN list = DOMAIN refs /\ list = [i \in DOMAIN refs |-> list[i]]
      /\ \A i \in DOMAIN refs : list[i] = << key, i >> /\ list[i] \in A
  OBVIOUS
<1>3. \A x \in A : x[1] = key
  OBVIOUS
<1>4. ids = Those(list, DOMAIN eval)
  OBVIOUS
<1> HIDE DEF A
<1>5. list \in Seq(A) /\ Len(list) = Len(refs) /\ DOMAIN refs = 1 .. Len(refs)
  <2>1. DOMAIN list = DOMAIN refs
    BY <1>2
  <2>2. list = [i \in DOMAIN refs |-> list[i]]
    BY <1>2
  <2>3. \A i \in DOMAIN refs : list[i] \in A
    BY <1>2
  <2>4. QED
    BY ONLY <1>1, <2>1, <2>2, <2>3, Lists
<1>6. ids \in Seq(A) /\ \A i \in DOMAIN ids : ids[i] \in A /\ ids[i] \in DOMAIN eval
  BY <1>4, <1>5, ThoseTyped
<1>7. ids \in Seq(DOMAIN eval) /\ \A i \in DOMAIN ids : ids[i][1] = key
  BY <1>3, <1>6
<1>8. ASSUME NEW i \in DOMAIN refs, << key, i >> \in DOMAIN eval
      PROVE  \E j \in 1 .. Len(ids) : ids[j] = << key, i >>
  <2>1. i \in 1 .. Len(list) /\ list[i] \in DOMAIN eval
    BY <1>2, <1>5, <1>8
  <2>2. \E j \in 1 .. Len(ids) : ids[j] = list[i]
    BY ONLY <1>4, <1>5, <2>1, ThoseAll
  <2>3. QED
    BY <1>2, <2>2
<1>9. QED
  BY <1>7, <1>8 DEF Listing

(* The dynamic and recursive references of a subschema are noted when it is visited. *)
LEMMA VisitNoted ==
  ASSUME Running, NEW w, w = world, Noted(w, cache, eval, seen, work), NEW key \in DOMAIN cache, NEW ids,
         ids = Those([i \in DOMAIN S(cache[key].node).refs |-> << key, i >>], DOMAIN eval),
         NEW more, more = Those(ids, {id \in DOMAIN eval : eval[id].kw # "$ref"})
  PROVE  Noted(w, cache, eval, seen \cup {key}, work \o more)
<1> DEFINE refs == S(cache[key].node).refs
           W == {id \in DOMAIN eval : eval[id].kw # "$ref"}
           E == DOMAIN eval
           q == work \o more
<1>1. /\ ids \in Seq(E) /\ \A i \in DOMAIN ids : ids[i][1] = key
      /\ \A i \in DOMAIN refs : << key, i >> \in E => \E j \in 1 .. Len(ids) : ids[j] = << key, i >>
  <2> DEFINE list == [i \in DOMAIN refs |-> << key, i >>]
  <2>1. refs = S(cache[key].node).refs /\ ids = Those(list, DOMAIN eval)
    OBVIOUS
  <2> HIDE DEF refs
  <2>2. list = [i \in DOMAIN refs |-> << key, i >>]
    OBVIOUS
  <2> HIDE DEF list
  <2>3. Listing(eval, key, refs, ids)
    BY <2>1, <2>2, EvaluatorsOf
  <2>4. QED
    BY <2>3 DEF Listing
<1>2. work \in Seq(E) /\ E \subseteq ID /\ more = Those(ids, W)
  BY DEF Running, BInv, EvalOK
<1>3. \A id \in E : id[1] = key /\ id[2] \in DOMAIN w.schema[cache[id[1]].node].refs => id[2] \in DOMAIN refs
  BY DEF S
<1>4. \A id \in E : eval[id].kw # "$ref" <=> id \in W
  OBVIOUS
<1> HIDE DEF refs, W, E
<1>5. more \in Seq(E)
  BY <1>1, <1>2, ThoseTyped
<1>6. \A i \in DOMAIN more : more[i][1] = key
  <2> DEFINE K == {id \in E : id[1] = key}
  <2>1. ids \in Seq(K)
    BY <1>1
  <2>2. \A id \in K : id[1] = key
    OBVIOUS
  <2> HIDE DEF K
  <2>3. more \in Seq(K)
    BY <1>2, <2>1, ThoseTyped
  <2>4. QED
    BY <2>2, <2>3
<1>7. /\ q \in Seq(E) /\ Len(q) = Len(work) + Len(more)
      /\ \A k \in 1 .. Len(work) : k \in 1 .. Len(q) /\ q[k] = work[k]
      /\ \A k \in 1 .. Len(more) : Len(work) + k \in 1 .. Len(q) /\ q[Len(work) + k] = more[k]
  BY <1>2, <1>5, ConcatIndices
<1> HIDE DEF q
<1>8. ASSUME NEW x \in DOMAIN q PROVE q[x][1] \in seen \cup {key}
  <2>1. Len(work) \in Nat /\ Len(more) \in Nat /\ DOMAIN work = 1 .. Len(work) /\ DOMAIN more = 1 .. Len(more)
        /\ DOMAIN q = 1 .. Len(q)
    BY ONLY <1>2, <1>5, <1>7
  <2>2. CASE x \in 1 .. Len(work)
    BY <1>7, <2>1, <2>2 DEF Noted
  <2>3. CASE x \notin 1 .. Len(work)
    <3>1. x - Len(work) \in 1 .. Len(more) /\ Len(work) + (x - Len(work)) = x
      BY <1>7, <2>1, <2>3
    <3>2. q[x] = more[x - Len(work)]
      BY <1>7, <3>1
    <3>3. QED
      BY <1>6, <2>1, <3>1, <3>2
  <2>4. QED
    BY <2>2, <2>3
<1>9. ASSUME NEW id \in E, id[1] \in seen \cup {key}, id[2] \in DOMAIN w.schema[cache[id[1]].node].refs,
             eval[id].kw # "$ref"
      PROVE  id \in ToSet(q)
  <2>1. CASE id[1] \in seen
    <3>1. PICK x \in DOMAIN work : id = work[x]
      BY <1>9, <2>1 DEF Noted, ToSet, E
    <3>2. x \in 1 .. Len(work)
      BY <1>2, <3>1
    <3>3. x \in DOMAIN q /\ q[x] = id
      BY <1>7, <3>1, <3>2
    <3>4. QED
      BY <3>3 DEF ToSet
  <2>2. CASE id[1] = key
    <3>1. id = << key, id[2] >> /\ id[2] \in DOMAIN refs
      BY <1>2, <1>3, <1>9, <2>2 DEF ID
    <3>2. PICK j \in 1 .. Len(ids) : ids[j] = id
      BY <1>1, <3>1
    <3>3. ids[j] \in W
      BY <1>4, <1>9, <3>2
    <3>4. PICK x \in 1 .. Len(more) : more[x] = id
      BY ONLY <1>1, <1>2, <3>2, <3>3, ThoseAll
    <3>5. Len(work) + x \in DOMAIN q /\ q[Len(work) + x] = id
      BY <1>7, <3>4
    <3>6. QED
      BY <3>5 DEF ToSet
  <2>3. QED
    BY <1>9, <2>1, <2>2
<1>10. QED
  BY <1>8, <1>9 DEF Noted, q, E

(* A subschema is visited: the scan that ends the round is still to come. *)
LEMMA BuildTargetsReady ==
  ASSUME RRunning, BuildTargets
  PROVE  RInv' /\ Pushing
<1> DEFINE key == Call.key
           refs == S(cache[key].node).refs
           list == [i \in DOMAIN refs |-> << key, i >>]
           T == {id \in DOMAIN eval : eval[id].target # None}
           ids == Those(list, DOMAIN eval)
           known == Those(ids, T)
           more == Those(ids, {id \in DOMAIN eval : eval[id].kw # "$ref"})
           new == FlattenSeq([i \in DOMAIN known |-> Prebuild(known[i], eval[known[i]].target)])
           p == todo'
<1>1. /\ Call.call = "targets" /\ UNCHANGED << rm, cache, eval >> /\ UNCHANGED given
      /\ seen' = seen \cup {key} /\ key \in DOMAIN cache /\ Call = todo[1] /\ 1 \in DOMAIN todo
      /\ Running
  BY FirstCall DEF BuildTargets, At, Call, CallReady, RRunning, Running
<1>2. Then(new) /\ work' = work \o more
  BY DEF BuildTargets
<1>3. Noted(world, cache, eval, seen \cup {key}, work \o more)
  <2>1. Noted(world, cache, eval, seen, work)
    BY DEF RRunning, RInv, Readying
  <2> HIDE DEF key
  <2>2. QED
    BY <1>1, <2>1, VisitNoted
<1>4. Listing(eval, key, refs, ids)
  <2> HIDE DEF key, list, refs
  <2>1. refs = S(cache[key].node).refs /\ list = [i \in DOMAIN refs |-> << key, i >>]
    BY DEF refs, list
  <2>2. QED
    BY <1>1, <2>1, EvaluatorsOf
<1>5. known \in Seq(DOMAIN eval) /\ \A i \in DOMAIN known : known[i] \in T /\ known[i][1] = key
  <2> DEFINE K == {id \in DOMAIN eval : id[1] = key}
  <2>1. ids \in Seq(K)
    <3> HIDE DEF ids
    <3>1. QED
      BY <1>4 DEF Listing
  <2>2. \A id \in K : id[1] = key /\ id \in DOMAIN eval
    OBVIOUS
  <2> HIDE DEF ids, K, T
  <2>3. known \in Seq(K) /\ \A i \in DOMAIN known : known[i] \in K /\ known[i] \in T
    BY <2>1, ThoseTyped
  <2>4. QED
    BY <2>2, <2>3
<1> HIDE DEF known
<1> DEFINE target == [i \in DOMAIN known |-> eval[known[i]].target]
           made == FlattenSeq([i \in DOMAIN known |-> Prebuild(known[i], target[i])])
<1>6. \A i \in DOMAIN known : target[i] \in Node(world) /\ target[i] = eval[known[i]].target
  BY <1>1, <1>5 DEF T, Running, BInv, EvalOK, Evaluator
<1>7. new = made
  <2> HIDE DEF target
  <2>1. [i \in DOMAIN known |-> Prebuild(known[i], eval[known[i]].target)]
          = [i \in DOMAIN known |-> Prebuild(known[i], target[i])]
    BY <1>6
  <2>2. QED
    BY <2>1
<1> HIDE DEF new, target
<1>8. made \in Seq(Settled(eval, world)) /\ Couples(eval, made) /\ RecordsOf(made, known)
  <2>1. made = FlattenSeq([i \in DOMAIN known |-> Prebuild(known[i], target[i])])
    OBVIOUS
  <2> HIDE DEF made
  <2>2. made \in Seq(Settled(eval, world))
    BY <1>1, <1>5, <1>6, <2>1, PrebuildsTyped
  <2>3. Couples(eval, made) /\ RecordsOf(made, known)
    BY <1>1, <1>5, <1>6, <2>1, PrebuildsCouple
  <2>4. QED
    BY <2>2, <2>3
<1> HIDE DEF made
<1>9. Due(new, seen \cup {key}) /\ new \in Seq(Calls(world)) /\ Couples(eval, new)
  <2>1. new \in Seq(Calls(world))
    BY <1>1, <1>7, <1>8, SettledMayFollow
  <2>2. Due(new, seen \cup {key})
    BY <1>5, <1>7, <1>8 DEF Due, RecordsOf
  <2>3. QED
    BY <1>7, <1>8, <2>1, <2>2
<1>10. PushedOn(p, new, todo) /\ Arranged(cache, eval, p, seen \cup {key})
  <2>1. seen \subseteq seen \cup {key} /\ Call.call \in {"targets", "resource"}
    BY <1>1
  <2>2. QED
    BY <1>2, <1>9, <2>1, CouplesArranged
<1>11. Calling(p, "scan")
  <2> HIDE DEF p
  <2>1. Calling(todo, "targets")
    BY <1>1 DEF Calling
  <2>2. Calling(todo, "scan") /\ todo[1].call # "scan"
    BY <1>1, <2>1 DEF RRunning, RInv, Readying, Arranged, Rounded
  <2>3. QED
    BY <1>10, <2>2, ScanStays
<1>12. /\ Arranged(cache', eval', todo', seen') /\ Coming(rm', cache', eval', todo', seen', work')
       /\ Noted(world, cache', eval', seen', work')
  <2>1. Coming(rm, cache, eval, p, seen \cup {key}, work \o more)
    BY <1>11 DEF Coming
  <2>2. /\ cache' = cache /\ eval' = eval /\ rm' = rm /\ seen' = seen \cup {key} /\ work' = work \o more
        /\ todo' = p
    BY <1>1, <1>2
  <2> HIDE DEF p, more, key
  <2>3. QED
    BY ONLY <1>3, <1>10, <2>1, <2>2
<1>13. Pushing
  <2>1. \A x \in Settled(eval, world) : x.call \notin {"seed", "walk"}
    BY DEF Settled, EnterCall, SettleCall
  <2>2. \A i \in DOMAIN new : new[i].call \notin {"seed", "walk"}
    BY <1>7, <1>8, <2>1
  <2>3. QED
    BY <1>2, <1>9, <2>2 DEF Pushing
<1>14. QED
  BY <1>1, <1>12, <1>13, Readied1

(* The resources of the map are to be scanned, all of them. *)
LEMMA ScanReady ==
  ASSUME RRunning, Scan
  PROVE  RInv' /\ Pushing
<1> DEFINE list == rm.order
           new == [i \in DOMAIN list |-> [call |-> "resource", uri |-> list[i]]]
           p == todo'
<1>1. /\ Call.call = "scan" /\ UNCHANGED << rm, cache, eval, seen, work >> /\ UNCHANGED given /\ Then(new)
      /\ Call = todo[1] /\ Running
  BY FirstCall DEF Scan, At, Call, RRunning, Running
<1>2. list \in Seq(Path) /\ ToSet(list) = DOMAIN rm.byURI
  BY <1>1 DEF Running, BInv, MapOK, Listed
<1> HIDE DEF list
<1>3. /\ DOMAIN new = DOMAIN list /\ new = [i \in DOMAIN list |-> new[i]]
      /\ \A i \in DOMAIN list : new[i] \in Calls(world) /\ new[i].call = "resource" /\ new[i].uri = list[i]
  <2>1. \A i \in DOMAIN list : list[i] \in Path
    BY <1>2
  <2>2. QED
    BY <2>1 DEF Calls, ResourceCall
<1> HIDE DEF new
<1>4. new \in Seq(Calls(world))
  BY <1>2, <1>3, Lists
<1>5. /\ PushedOn(p, new, todo) /\ Arranged(cache, eval, todo, seen) /\ Noted(world, cache, eval, seen, work)
  BY <1>1, <1>4, ThenPushes
<1> HIDE DEF p
<1>6. Arranged(cache, eval, p, seen)
  <2>1. Phased(new) /\ Paired(eval, new) /\ Due(new, seen)
    <3>1. DOMAIN new = 1 .. Len(new) /\ Len(new) \in Nat
      BY <1>4
    <3>2. Phased(new)
      <4> SUFFICES ASSUME NEW j \in DOMAIN new, NEW i \in 1 .. j - 1 PROVE Follows(new[i], new[j])
        BY DEF Phased
      <4>1. i \in DOMAIN new
        BY <3>1
      <4>2. QED
        BY <1>3, <4>1 DEF Follows, Opening
    <3>3. QED
      BY <1>3, <3>2 DEF Paired, Due
  <2>2. \A i \in DOMAIN new :
          /\ new[i].call \notin {"scan", "targets"}
          /\ todo[1].call \in Opening <=> new[i].call \in Opening
          /\ todo[1].call \in Inner \cup {"settle"} => new[i].call \in Inner \cup {"settle"}
    BY <1>1, <1>3 DEF Opening, Inner
  <2>3. todo[1].call \notin Opening /\ todo[1].call \notin {"settle", "enter", "promote"}
    BY <1>1 DEF Opening
  <2>4. QED
    BY <1>5, <2>1, <2>2, <2>3, ArrangedPush
<1>7. Offers(rm, eval, p, work)
  <2> SUFFICES ASSUME NEW u \in DOMAIN rm.byURI
               PROVE  \E y \in DOMAIN p : p[y].call = "resource" /\ p[y].uri = u
    BY DEF Offers
  <2>1. PICK i \in DOMAIN list : list[i] = u
    BY <1>2 DEF ToSet
  <2>2. \E y \in DOMAIN p : p[y] = new[i]
    BY <1>3, <1>5, <2>1, StillCalled
  <2>3. QED
    BY <1>3, <2>1, <2>2
<1>8. /\ Arranged(cache', eval', todo', seen') /\ Coming(rm', cache', eval', todo', seen', work')
      /\ Noted(world, cache', eval', seen', work')
  BY <1>1, <1>5, <1>6, <1>7 DEF p, Coming
<1>9. Pushing
  BY <1>1, <1>3, <1>4 DEF Pushing
<1>10. QED
  BY <1>1, <1>8, <1>9, Readied1

\* The calls that build and record the targets of a list of references.
Prebuilt(e, w, new, ids, target) ==
    new \in Seq(Settled(e, w)) /\ Couples(e, new) /\ RecordsOf(new, ids) /\ Recorded(new, ids, target)

(* They are what buildDynamicTargets leaves for the references noted that a resource
   offers a target. *)
LEMMA PrebuiltOf ==
  ASSUME Running, NEW X, NEW ids, ids = Those(work, X), NEW target, \A i \in DOMAIN ids : target[i] \in Node(world),
         NEW new, new = FlattenSeq([i \in DOMAIN ids |-> Prebuild(ids[i], target[i])])
  PROVE  /\ Prebuilt(eval, world, new, ids, target)
         /\ \A i \in DOMAIN ids : ids[i] \in ToSet(work)
         /\ \A x \in DOMAIN work : work[x] \in X => \E i \in DOMAIN ids : ids[i] = work[x]
<1>1. work \in Seq(DOMAIN eval)
  BY DEF Running, BInv
<1>2. ids \in Seq(DOMAIN eval)
  BY <1>1, ThoseTyped
<1>3. new \in Seq(Settled(eval, world)) /\ Recorded(new, ids, target)
  BY <1>2, PrebuildsTyped
<1>4. Couples(eval, new) /\ RecordsOf(new, ids)
  BY <1>2, PrebuildsCouple
<1>5. \A i \in DOMAIN ids : ids[i] \in ToSet(work)
  <2> DEFINE K == ToSet(work)
  <2>1. work \in Seq(K)
    BY <1>1 DEF ToSet
  <2> HIDE DEF K
  <2>2. \A i \in DOMAIN ids : ids[i] \in K
    BY <2>1, ThoseTyped
  <2>3. QED
    BY <2>2 DEF K
<1>6. ASSUME NEW x \in DOMAIN work, work[x] \in X PROVE \E i \in DOMAIN ids : ids[i] = work[x]
  <2>1. x \in 1 .. Len(work) /\ DOMAIN ids = 1 .. Len(ids)
    BY <1>1, <1>2
  <2>2. \E i \in 1 .. Len(ids) : ids[i] = work[x]
    BY <1>1, <1>6, <2>1, ThoseAll
  <2>3. QED
    BY <2>1, <2>2
<1>7. QED
  BY <1>3, <1>4, <1>5, <1>6 DEF Prebuilt

\* The calls of two lists.
Both(q, a, b) ==
    /\ \A x \in DOMAIN q : (\E i \in DOMAIN a : q[x] = a[i]) \/ \E i \in DOMAIN b : q[x] = b[i]
    /\ \A i \in DOMAIN a : \E x \in DOMAIN q : q[x] = a[i]
    /\ \A i \in DOMAIN b : \E x \in DOMAIN q : q[x] = b[i]

(* One list of such calls after another. *)
LEMMA BothBuilt ==
  ASSUME NEW w, NEW e, NEW a, NEW ids, NEW f, Prebuilt(e, w, a, ids, f),
         NEW b, NEW more, NEW g, Prebuilt(e, w, b, more, g), NEW q, q = a \o b
  PROVE  q \in Seq(Settled(e, w)) /\ Couples(e, q) /\ Both(q, a, b)
<1> DEFINE A == Settled(e, w)
<1>1. a \in Seq(A) /\ b \in Seq(A) /\ Couples(e, a) /\ Couples(e, b)
  BY DEF Prebuilt
<1> HIDE DEF A
<1>2. Couples(e, q)
  BY <1>1, CouplesJoined
<1>3. /\ q \in Seq(A) /\ Len(q) = Len(a) + Len(b)
      /\ \A k \in 1 .. Len(a) : k \in 1 .. Len(q) /\ q[k] = a[k]
      /\ \A k \in 1 .. Len(b) : Len(a) + k \in 1 .. Len(q) /\ q[Len(a) + k] = b[k]
  BY <1>1, ConcatIndices
<1>4. /\ DOMAIN q = 1 .. Len(q) /\ DOMAIN a = 1 .. Len(a) /\ DOMAIN b = 1 .. Len(b)
      /\ Len(a) \in Nat /\ Len(b) \in Nat
  BY ONLY <1>1, <1>3
<1>5. ASSUME NEW x \in DOMAIN q PROVE (\E i \in DOMAIN a : q[x] = a[i]) \/ \E i \in DOMAIN b : q[x] = b[i]
  <2>1. CASE x \in 1 .. Len(a)
    BY <1>3, <1>4, <2>1
  <2>2. CASE x \notin 1 .. Len(a)
    <3>1. x - Len(a) \in 1 .. Len(b) /\ Len(a) + (x - Len(a)) = x
      BY ONLY <1>3, <1>4, <2>2, x \in DOMAIN q
    <3>2. q[x] = b[x - Len(a)]
      BY <1>3, <3>1
    <3>3. QED
      BY <1>4, <3>1, <3>2
  <2>3. QED
    BY <2>1, <2>2
<1>6. \A i \in DOMAIN a : \E x \in DOMAIN q : q[x] = a[i]
  BY <1>3, <1>4
<1>7. \A i \in DOMAIN b : \E x \in DOMAIN q : q[x] = b[i]
  BY <1>3, <1>4
<1>8. QED
  BY <1>2, <1>3, <1>5, <1>6, <1>7 DEF A, Both

(* What the dynamic scope could select in a resource is to be built and recorded. *)
LEMMA ScanResourceReady ==
  ASSUME RRunning, ScanResource
  PROVE  RInv' /\ Pushing
<1> DEFINE r == rm.byURI[Call.uri]
           data == rm.reg[r]
           D == {id \in DOMAIN eval : eval[id].kw = "$dynamicRef" /\ eval[id].name \in DOMAIN data.dynamic}
           R == {id \in DOMAIN eval : eval[id].kw = "$recursiveRef" /\ data.recursive}
           dynamic == Those(work, D)
           recursive == Those(work, R)
           first == FlattenSeq([i \in DOMAIN dynamic |->
                                  Prebuild(dynamic[i], data.dynamic[eval[dynamic[i]].name])])
           last == FlattenSeq([i \in DOMAIN recursive |-> Prebuild(recursive[i], r.root)])
           new == first \o last
           p == todo'
<1>1. /\ Call.call = "resource" /\ UNCHANGED << rm, cache, eval, seen, work >> /\ UNCHANGED given
      /\ Call.uri \in DOMAIN rm.byURI /\ Call = todo[1] /\ Running /\ Then(new)
  BY FirstCall DEF ScanResource, At, Call, CallReady, RRunning, Running
<1>2. MapOK(world, rm) /\ work \in Seq(DOMAIN eval)
  BY <1>1 DEF Running, BInv
<1>3. r.root \in Node(world) /\ \A x \in DOMAIN data.dynamic : data.dynamic[x] \in Node(world)
  <2>1. r \in DOMAIN rm.reg
    BY <1>1, <1>2 DEF MapOK, UrisOK
  <2>2. QED
    BY <1>2, <2>1 DEF MapOK, ResourcesOK, DataOK, Resource
<1> DEFINE named == [i \in DOMAIN dynamic |-> data.dynamic[eval[dynamic[i]].name]]
           roots == [i \in DOMAIN recursive |-> r.root]
<1>4. /\ \A i \in DOMAIN dynamic : named[i] \in Node(world) /\ named[i] = data.dynamic[eval[dynamic[i]].name]
      /\ \A i \in DOMAIN recursive : roots[i] \in Node(world) /\ roots[i] = r.root
  <2>1. \A i \in DOMAIN dynamic : dynamic[i] \in D
    <3> HIDE DEF D
    <3>1. QED
      BY <1>2, ThoseTyped
  <2> HIDE DEF dynamic, recursive
  <2>2. QED
    BY <1>3, <2>1
<1>5. /\ first = FlattenSeq([i \in DOMAIN dynamic |-> Prebuild(dynamic[i], named[i])])
      /\ last = FlattenSeq([i \in DOMAIN recursive |-> Prebuild(recursive[i], roots[i])])
  <2> HIDE DEF dynamic, recursive, named, roots
  <2>1. [i \in DOMAIN dynamic |-> Prebuild(dynamic[i], data.dynamic[eval[dynamic[i]].name])]
           = [i \in DOMAIN dynamic |-> Prebuild(dynamic[i], named[i])]
    BY <1>4
  <2>2. [i \in DOMAIN recursive |-> Prebuild(recursive[i], r.root)]
           = [i \in DOMAIN recursive |-> Prebuild(recursive[i], roots[i])]
    BY <1>4
  <2>3. QED
    BY <2>1, <2>2
<1>6. dynamic = Those(work, D) /\ recursive = Those(work, R)
  OBVIOUS
<1>7. \A id \in DOMAIN eval :
         /\ id \in D <=> eval[id].kw = "$dynamicRef" /\ eval[id].name \in DOMAIN data.dynamic
         /\ id \in R <=> eval[id].kw = "$recursiveRef" /\ data.recursive
  OBVIOUS
<1> HIDE DEF first, last, named, roots, dynamic, recursive, D, R
<1>8. /\ Prebuilt(eval, world, first, dynamic, named)
      /\ \A i \in DOMAIN dynamic : dynamic[i] \in ToSet(work)
      /\ \A x \in DOMAIN work : work[x] \in D => \E i \in DOMAIN dynamic : dynamic[i] = work[x]
  BY <1>1, <1>4, <1>5, <1>6, PrebuiltOf
<1>9. /\ Prebuilt(eval, world, last, recursive, roots)
      /\ \A i \in DOMAIN recursive : recursive[i] \in ToSet(work)
      /\ \A x \in DOMAIN work : work[x] \in R => \E i \in DOMAIN recursive : recursive[i] = work[x]
  BY <1>1, <1>4, <1>5, <1>6, PrebuiltOf
<1>10. new \in Seq(Settled(eval, world)) /\ Couples(eval, new) /\ Both(new, first, last)
  <2>1. new = first \o last
    OBVIOUS
  <2> HIDE DEF new
  <2>2. QED
    BY ONLY <1>8, <1>9, <2>1, BothBuilt
<1> HIDE DEF new
<1>11. new \in Seq(Calls(world))
  BY <1>1, <1>10, SettledMayFollow
<1>12. /\ Noted(world, cache, eval, seen, work) /\ Coming(rm, cache, eval, todo, seen, work)
       /\ Arranged(cache, eval, todo, seen)
  BY <1>1, <1>11, ThenPushes
<1>13. Due(new, seen)
  <2>1. \A id \in ToSet(work) : id[1] \in seen
    BY <1>12 DEF Noted, ToSet
  <2>2. \A i \in DOMAIN first : first[i].call = "settle" => first[i].id \in ToSet(work)
    BY <1>8 DEF Prebuilt, RecordsOf
  <2>3. \A i \in DOMAIN last : last[i].call = "settle" => last[i].id \in ToSet(work)
    BY <1>9 DEF Prebuilt, RecordsOf
  <2>4. QED
    BY <1>10, <2>1, <2>2, <2>3 DEF Due, Both
<1>14. PushedOn(p, new, todo) /\ Arranged(cache, eval, p, seen)
  <2>1. seen \subseteq seen /\ Call.call \in {"targets", "resource"}
    BY <1>1
  <2>2. QED
    BY <1>1, <1>10, <1>11, <1>13, <2>1, CouplesArranged
<1> HIDE DEF p
<1>15. Coming(rm, cache, eval, p, seen, work)
  <2>1. CASE Calling(todo, "scan")
    BY <1>1, <1>14, <2>1, ScanStays DEF Coming
  <2>2. CASE Calling(todo, "promote")
    BY <1>1, <1>14, <2>2, ScanStays DEF Coming, Unsettled
  <2>3. CASE Unbuilt(cache, todo)
    <3>1. PICK x \in DOMAIN todo : todo[x].call = "enter" /\ todo[x].key \notin DOMAIN cache
      BY <2>3 DEF Unbuilt
    <3>2. x # 1
      BY <1>1, <3>1
    <3>3. \E y \in DOMAIN p : p[y] = todo[x]
      BY <1>14, <3>2, StillCalled
    <3>4. QED
      BY <3>1, <3>3 DEF Coming, Unsettled, Unbuilt
  <2>4. CASE Failing(eval) \/ ~(DOMAIN cache \subseteq seen)
    BY <2>4 DEF Coming, Unsettled
  <2>5. CASE Offers(rm, eval, todo, work)
    <3> SUFFICES ASSUME NEW u \in DOMAIN rm.byURI, NEW x \in DOMAIN work, NEW v,
                        Offered(rm, eval[work[x]], u, v)
                 PROVE  \/ v \in eval[work[x]].built \cup eval[work[x]].failed
                        \/ \E y \in DOMAIN p : p[y] = Settle(work[x], v)
                        \/ \E y \in DOMAIN p : p[y].call = "resource" /\ p[y].uri = u
      BY DEF Coming, Offers
    <3>1. \/ v \in eval[work[x]].built \cup eval[work[x]].failed
          \/ \E y \in DOMAIN todo : todo[y] = Settle(work[x], v)
          \/ \E y \in DOMAIN todo : todo[y].call = "resource" /\ todo[y].uri = u
      BY <2>5 DEF Offers
    <3>2. ASSUME NEW y \in DOMAIN todo, todo[y] = Settle(work[x], v)
          PROVE  \E z \in DOMAIN p : p[z] = Settle(work[x], v)
      <4>1. y # 1
        BY <1>1, <3>2 DEF Settle
      <4>2. QED
        BY <1>14, <3>2, <4>1, StillCalled
    <3>3. ASSUME NEW y \in DOMAIN todo, y # 1, todo[y].call = "resource", todo[y].uri = u
          PROVE  \E z \in DOMAIN p : p[z].call = "resource" /\ p[z].uri = u
      BY <1>14, <3>3, StillCalled
    <3>4. ASSUME todo[1].uri = u PROVE \E z \in DOMAIN p : p[z] = Settle(work[x], v)
      <4>1. u = Call.uri /\ work[x] \in DOMAIN eval
        BY <1>1, <1>2, <3>4
      <4>2. CASE work[x] \in D /\ v = data.dynamic[eval[work[x]].name]
        <5>1. PICK i \in DOMAIN dynamic : dynamic[i] = work[x]
          BY <1>8, <4>2
        <5>2. PICK k \in DOMAIN first : first[k] = Settle(dynamic[i], named[i])
          BY <1>8 DEF Prebuilt, Recorded
        <5>3. named[i] = v
          BY <1>4, <4>2, <5>1
        <5>4. PICK z \in DOMAIN new : new[z] = first[k]
          BY <1>10 DEF Both
        <5>5. QED
          BY <1>14, <5>1, <5>2, <5>3, <5>4, StillCalled
      <4>3. CASE work[x] \in R /\ v = r.root
        <5>1. PICK i \in DOMAIN recursive : recursive[i] = work[x]
          BY <1>9, <4>3
        <5>2. PICK k \in DOMAIN last : last[k] = Settle(recursive[i], roots[i])
          BY <1>9 DEF Prebuilt, Recorded
        <5>3. roots[i] = v
          BY <1>4, <4>3
        <5>4. PICK z \in DOMAIN new : new[z] = last[k]
          BY <1>10 DEF Both
        <5>5. QED
          BY <1>14, <5>1, <5>2, <5>3, <5>4, StillCalled
      <4>4. QED
        BY <1>7, <4>1, <4>2, <4>3 DEF Offered
    <3>5. QED
      BY <3>1, <3>2, <3>3, <3>4
  <2>6. QED
    BY <1>1, <1>12, <2>1, <2>2, <2>3, <2>4, <2>5 DEF Coming, Unsettled, Stale
<1>16. /\ Arranged(cache', eval', todo', seen') /\ Coming(rm', cache', eval', todo', seen', work')
       /\ Noted(world, cache', eval', seen', work')
  BY <1>1, <1>12, <1>14, <1>15 DEF p
<1>17. Pushing
  <2>1. \A x \in Settled(eval, world) : x.call \notin {"seed", "walk"}
    BY DEF Settled, EnterCall, SettleCall
  <2>2. \A i \in DOMAIN new : new[i].call \notin {"seed", "walk"}
    BY <1>10, <2>1
  <2>3. QED
    BY <1>1, <1>11, <2>2 DEF Pushing
<1>18. QED
  BY <1>1, <1>16, <1>17, Readied1

\* The calls of a round: visits, a scan, and the next round.
Rounding(t) ==
    \E n \in Nat :
        /\ DOMAIN t = 1 .. n + 2 /\ \A i \in 1 .. n : t[i].call = "targets"
        /\ t[n + 1].call = "scan" /\ t[n + 2].call = "round"

(* They are arranged. *)
LEMMA RoundArranged ==
  ASSUME NEW t, Rounding(t), NEW c, NEW e, NEW s
  PROVE  Arranged(c, e, t, s) /\ Calling(t, "scan")
<1>1. PICK n \in Nat :
        /\ DOMAIN t = 1 .. n + 2 /\ \A i \in 1 .. n : t[i].call = "targets"
        /\ t[n + 1].call = "scan" /\ t[n + 2].call = "round"
  BY DEF Rounding
<1>2. \A i \in DOMAIN t : i \in 1 .. n \/ i = n + 1 \/ i = n + 2
  BY <1>1
<1>3. \A i \in DOMAIN t : t[i].call \in {"targets", "scan", "round"}
  BY <1>1, <1>2
<1>4. Calling(t, "scan")
  BY <1>1 DEF Calling
<1>5. Phased(t)
  <2> SUFFICES ASSUME NEW j \in DOMAIN t, NEW i \in 1 .. j - 1 PROVE Follows(t[i], t[j])
    BY DEF Phased
  <2>1. i \in DOMAIN t /\ i < j
    BY <1>1
  <2>2. t[i].call = "scan" => i = n + 1
    <3>1. i \in 1 .. n => t[i].call = "targets"
      BY <1>1
    <3>2. i = n + 2 => t[i].call = "round"
      BY <1>1
    <3>3. QED
      BY <1>2, <2>1, <3>1, <3>2
  <2>3. i = n + 1 => j = n + 2
    BY <1>1, <1>2, <2>1
  <2>4. QED
    BY <1>1, <1>3, <2>2, <2>3 DEF Follows, Opening
<1>6. Opened1(c, t) /\ Rounded(t) /\ Paired(e, t) /\ Due(t, s)
  BY <1>3, <1>4 DEF Opened1, Rounded, Paired, Due, Opening
<1>7. QED
  BY <1>4, <1>5, <1>6 DEF Arranged

(* The next round visits what is new; without any, all that was noted has its
   targets or something could not be built. *)
LEMMA RoundReady ==
  ASSUME RRunning, Round
  PROVE  RInv' /\ \A p : p = todo' => p = << >> \/ Rounding(p)
<1>1. /\ Call.call = "round" /\ UNCHANGED << rm, cache, eval, seen, work >> /\ UNCHANGED given
      /\ Call = todo[1] /\ Running /\ DOMAIN todo = 1 .. Len(todo) /\ Len(todo) \in Nat /\ Len(todo) > 0
  BY FirstCall DEF Round, At, Call, RRunning, Running
<1>2. /\ Noted(world, cache, eval, seen, work)
      /\ outcome = "running" => Coming(rm, cache, eval, todo, seen, work)
  BY DEF RRunning, RInv, Readying
<1>3. \A x \in DOMAIN todo : todo[x].call = "round"
  <2>1. ASSUME NEW x \in DOMAIN todo, x # 1 PROVE FALSE
    <3>1. 1 \in 1 .. x - 1
      BY <1>1, <2>1
    <3>2. InOrder(todo[1], todo[x])
      BY <1>1, <3>1 DEF Running, BInv, TodoOK, Ordered
    <3>3. QED
      BY <1>1, <3>2 DEF InOrder
  <2>2. QED
    BY <1>1, <2>1
<1> DEFINE pending == Sorted(Pending)
<1>4. pending \in Seq(Pending) /\ (pending = << >> => Pending = {})
  <2>1. Pending \subseteq Path /\ IsFiniteSet(Pending)
    BY <1>1, FS_Subset DEF Running, BInv, CacheOK, Pending
  <2>2. QED
    BY <2>1, SortedElements
<1>5. CASE pending = << >>
  <2> DEFINE none == << >>
  <2>1. todo' = none /\ DOMAIN cache \subseteq seen
    BY <1>4, <1>5 DEF Round, Pending
  <2>2. outcome = "running"
    BY FirstCall DEF RRunning
  <2>3. Failing(eval) \/ Offers(rm, eval, todo, work)
    <3>1. ~Calling(todo, "scan") /\ ~Calling(todo, "promote") /\ ~Unbuilt(cache, todo)
      BY <1>3 DEF Calling, Unbuilt
    <3>2. ~Stale(cache, eval, todo)
      BY <1>1 DEF Stale
    <3>3. QED
      BY <1>2, <2>1, <2>2, <3>1, <3>2 DEF Coming, Unsettled
  <2> HIDE DEF none
  <2>4. Failing(eval) \/ Offers(rm, eval, none, work)
    <3>1. \A x \in DOMAIN todo : todo[x].call \in {"settle", "resource"} => \E y \in DOMAIN none : none[y] = todo[x]
      BY <1>3
    <3>2. \A x \in DOMAIN work : eval[work[x]] = eval[work[x]]
      OBVIOUS
    <3>3. Offers(rm, eval, todo, work) => Offers(rm, eval, none, work)
      BY <3>1, <3>2, OffersStay
    <3>4. QED
      BY <2>3, <3>3
  <2>5. Coming(rm, cache, eval, none, seen, work)
    BY <2>4 DEF Coming, Unsettled
  <2>6. Arranged(cache, eval, none, seen)
    BY NothingLeft DEF none
  <2>7. /\ Arranged(cache', eval', todo', seen') /\ Coming(rm', cache', eval', todo', seen', work')
        /\ Noted(world, cache', eval', seen', work')
    BY <1>1, <1>2, <2>1, <2>5, <2>6
  <2>8. QED
    BY <1>1, <2>1, <2>7, Readied1 DEF none
<1>6. CASE pending # << >>
  <2> DEFINE visits == [i \in DOMAIN pending |-> [call |-> "targets", key |-> pending[i]]]
             rest == << Just("scan"), Just("round") >>
             p == visits \o rest
  <2>1. todo' = p
    BY <1>6 DEF Round
  <2> HIDE DEF pending
  <2>2. /\ DOMAIN visits = DOMAIN pending /\ visits = [i \in DOMAIN pending |-> visits[i]]
        /\ \A i \in DOMAIN pending : visits[i].call = "targets" /\ visits[i] \in {visits[j] : j \in DOMAIN pending}
    OBVIOUS
  <2>3. rest[1].call = "scan" /\ rest[2].call = "round" /\ rest \in Seq({rest[1], rest[2]}) /\ Len(rest) = 2
    BY DEF Just
  <2> DEFINE A == {visits[j] : j \in DOMAIN pending}
             C == A \cup {rest[1], rest[2]}
  <2> HIDE DEF visits, rest
  <2>4. visits \in Seq(C) /\ rest \in Seq(C) /\ Len(visits) = Len(pending)
    <3>1. \A i \in DOMAIN pending : visits[i] \in C
      BY <2>2
    <3>2. DOMAIN visits = DOMAIN pending
      BY <2>2
    <3>3. visits = [i \in DOMAIN pending |-> visits[i]]
      BY <2>2
    <3> HIDE DEF A
    <3>4. rest \in Seq(C)
      BY <2>3
    <3> HIDE DEF C
    <3>5. visits \in Seq(C) /\ Len(visits) = Len(pending)
      BY ONLY <1>4, <3>1, <3>2, <3>3, Lists
    <3>6. QED
      BY <3>4, <3>5
  <2> HIDE DEF A, C
  <2>5. /\ p \in Seq(C) /\ Len(p) = Len(visits) + Len(rest)
        /\ \A k \in 1 .. Len(visits) : p[k] = visits[k]
        /\ \A k \in 1 .. Len(rest) : p[Len(visits) + k] = rest[k]
    <3>1. visits \in Seq(C) /\ rest \in Seq(C)
      BY <2>4
    <3>2. QED
      BY ONLY <3>1, ConcatIndices
  <2> DEFINE n == Len(visits)
  <2>6. n \in Nat /\ DOMAIN visits = 1 .. n /\ DOMAIN p = 1 .. n + 2
    BY ONLY <2>3, <2>4, <2>5
  <2>7. p[n + 1] = rest[1] /\ p[n + 2] = rest[2]
    <3>1. 1 \in 1 .. Len(rest) /\ 2 \in 1 .. Len(rest)
      BY <2>3
    <3>2. QED
      BY <2>5, <3>1
  <2> HIDE DEF p
  <2>8. \A i \in 1 .. n : p[i].call = "targets"
    BY <2>2, <2>5, <2>6
  <2> HIDE DEF n
  <2>9. Rounding(p)
    BY <2>3, <2>6, <2>7, <2>8 DEF Rounding
  <2>10. Arranged(cache, eval, p, seen) /\ Coming(rm, cache, eval, p, seen, work)
    BY <2>9, RoundArranged DEF Coming
  <2>11. /\ Arranged(cache', eval', todo', seen') /\ Coming(rm', cache', eval', todo', seen', work')
         /\ Noted(world, cache', eval', seen', work')
    BY <1>1, <1>2, <2>1, <2>10
  <2>12. QED
    BY <1>1, <2>1, <2>9, <2>11, Readied1
<1>7. QED
  BY <1>5, <1>6

(* Compile begins with the registered documents, then opens the schema's own
   resource, and builds its root before it looks for targets. *)
LEMMA FirstInOrder ==
  ASSUME Init
  PROVE  \E n \in Nat :
            /\ DOMAIN todo = 1 .. n + 5 /\ n = Len(world.seeds) /\ todo[n + 1] = Just("walk")
            /\ \A k \in 1 .. n : todo[k] = Seed(world.seeds[k]) /\ todo[k].call = "seed"
            /\ todo[n + 1].call = "walk" /\ todo[n + 2].call = "bind" /\ todo[n + 3].call = "vocabularies"
            /\ todo[n + 4].call = "enter" /\ todo[n + 4].key = << "#" >> /\ todo[n + 5].call = "round"
<1>1. WorldOK(world)
  BY WorldAssumption DEF Init
<1> DEFINE D == [uri : Path, doc : DOMAIN world.docs \ {world.doc}]
           s == world.seeds
           seeds == [i \in DOMAIN s |-> Seed(s[i])]
           a == Just("walk")
           b == Bind(Root, RootURI, {}, RootDraft)
           c == Just("vocabularies")
           d == Enter(Root, << "#" >>, RootURI, TRUE)
           e == Just("round")
           rest == << a, b, c, d, e >>
           A == {seeds[i] : i \in DOMAIN s}
           C == A \cup {a, b, c, d, e}
<1>2. todo = seeds \o rest
  BY DEF Init
<1>3. /\ a.call = "walk" /\ b.call = "bind" /\ c.call = "vocabularies" /\ d.call = "enter" /\ e.call = "round"
      /\ d.key = << "#" >>
  BY DEF Just, Bind, Enter
<1>4. s \in Seq(D)
  BY <1>1 DEF WorldOK
<1>5. /\ DOMAIN seeds = DOMAIN s /\ seeds = [i \in DOMAIN s |-> seeds[i]]
      /\ \A i \in DOMAIN s : seeds[i] \in C /\ seeds[i] = Seed(s[i]) /\ seeds[i].call = "seed"
  BY DEF Seed
<1> HIDE DEF a, b, c, d, e, seeds, A, D, s
<1>6. /\ rest \in Seq(C) /\ Len(rest) = 5
      /\ rest[1] = a /\ rest[2] = b /\ rest[3] = c /\ rest[4] = d /\ rest[5] = e
  OBVIOUS
<1> HIDE DEF rest, C
<1>7. \A i \in DOMAIN s : seeds[i] \in C
  BY <1>5
<1>8. seeds \in Seq(C) /\ Len(seeds) = Len(s) /\ DOMAIN seeds = 1 .. Len(seeds) /\ Len(seeds) \in Nat
  <2>1. seeds \in Seq(C) /\ Len(seeds) = Len(s)
    BY ONLY <1>4, <1>5, <1>7, Lists
  <2>2. QED
    BY ONLY <2>1
<1> DEFINE n == Len(seeds)
           p == seeds \o rest
<1>9. /\ p \in Seq(C) /\ Len(p) = Len(seeds) + Len(rest)
      /\ \A k \in 1 .. Len(seeds) : p[k] = seeds[k]
      /\ \A k \in 1 .. Len(rest) : p[Len(seeds) + k] = rest[k]
  <2>1. seeds \in Seq(C) /\ rest \in Seq(C)
    BY <1>6, <1>8
  <2>2. QED
    BY ONLY <2>1, ConcatIndices
<1> HIDE DEF p
<1>10. /\ DOMAIN p = 1 .. n + 5 /\ n \in Nat /\ \A k \in 1 .. 5 : p[n + k] = rest[k]
       /\ \A k \in 1 .. n : p[k] = seeds[k]
  BY ONLY <1>6, <1>8, <1>9
<1>11. p[n + 1] = a /\ p[n + 2] = b /\ p[n + 3] = c /\ p[n + 4] = d /\ p[n + 5] = e
  BY ONLY <1>6, <1>10
<1>12. n = Len(s) /\ \A k \in 1 .. n : p[k] = Seed(s[k]) /\ p[k].call = "seed"
  BY <1>5, <1>8, <1>10
<1>13. todo = p
  BY <1>2 DEF p
<1> HIDE DEF n
<1>14. QED
  BY <1>3, <1>10, <1>11, <1>12, <1>13 DEF a, s

(* The invariant holds when Compile is called: nothing is built. *)
LEMMA InitReady ==
  ASSUME Init
  PROVE  RInv
<1>1. /\ rm = EmptyMap /\ cache = Empty /\ eval = Empty /\ seen = {} /\ work = << >> /\ outcome = "running"
  BY DEF Init
<1>2. PICK n \in Nat :
         /\ DOMAIN todo = 1 .. n + 5
         /\ \A k \in 1 .. n : todo[k].call = "seed"
         /\ todo[n + 1].call = "walk" /\ todo[n + 2].call = "bind" /\ todo[n + 3].call = "vocabularies"
         /\ todo[n + 4].call = "enter" /\ todo[n + 4].key = << "#" >> /\ todo[n + 5].call = "round"
  BY FirstInOrder
<1>3. ASSUME NEW k \in DOMAIN todo
      PROVE  /\ k \in 1 .. n \/ k = n + 1 \/ k = n + 2 \/ k = n + 3 \/ k = n + 4 \/ k = n + 5
             /\ k \in Nat
  BY <1>2
<1>4. DOMAIN Empty = {} /\ \A id \in DOMAIN << >> : FALSE
  BY DEF Empty
<1>5. \A k \in DOMAIN todo : todo[k].call \in Opening \cup {"enter", "round"}
  BY <1>2, <1>3 DEF Opening
<1>6. \A k \in DOMAIN todo : k <= n + 3 => todo[k].call \in Opening
  BY <1>2, <1>3 DEF Opening
<1>7. \A k \in DOMAIN todo : k > n + 3 => todo[k].call \notin Opening
  BY <1>2, <1>3 DEF Opening
<1>8. Phased(todo)
  <2> SUFFICES ASSUME NEW j \in DOMAIN todo, NEW i \in 1 .. j - 1 PROVE Follows(todo[i], todo[j])
    BY DEF Phased
  <2>1. i \in DOMAIN todo /\ i < j /\ j \in Nat /\ i \in Nat
    BY <1>2
  <2>2. todo[j].call \in Opening => todo[i].call \in Opening
    BY <1>2, <1>6, <1>7, <2>1
  <2>3. todo[i].call # "scan" /\ todo[j].call # "settle"
    BY <1>5, <2>1 DEF Opening
  <2>4. QED
    BY <2>2, <2>3 DEF Follows
<1>9. Unbuilt(cache, todo)
  <2>1. n + 4 \in DOMAIN todo
    BY <1>2
  <2>2. QED
    BY <1>1, <1>2, <1>4, <2>1 DEF Unbuilt
<1>10. Rounded(todo) /\ Paired(eval, todo) /\ Due(todo, seen)
  BY <1>5 DEF Rounded, Calling, Paired, Due, Opening
<1>11. Noted(world, cache, eval, seen, work)
  BY <1>1, <1>4 DEF Noted
<1>12. QED
  BY <1>8, <1>9, <1>10, <1>11 DEF RInv, Readying, Arranged, Opened1, Coming, Unsettled

(* Every step keeps it. *)
LEMMA NextReady ==
  ASSUME BInv, RInv, [Next]_vars
  PROVE  RInv'
<1>1. CASE UNCHANGED vars
  <2>1. /\ world' = world /\ rm' = rm /\ eval' = eval /\ cache' = cache /\ todo' = todo
        /\ seen' = seen /\ work' = work /\ outcome' = outcome
    BY <1>1 DEF vars, given
  <2>2. QED
    BY <2>1 DEF RInv
<1>2. CASE Step
  <2>1. todo # << >> /\ UNCHANGED given
    BY <1>2 DEF Step, At, Walks, WalkSeed, WalkRoot, BindNode, BindReference, Vocabularies, EnterNode,
                ResolveReference, Promote, Round, BuildTargets, Scan, ScanResource, SettleTarget
  <2>2. RRunning
    BY <2>1 DEF Running, RRunning
  <2>3. QED
    BY <1>2, <2>2, OpeningSteps, EnterNodeReady, ResolveReferenceReady, PromoteReady, RoundReady,
       BuildTargetsReady, ScanReady, ScanResourceReady, SettleTargetReady DEF Step
<1>3. CASE Returned
  BY <1>1, <1>3 DEF Returned
<1>4. QED
  BY <1>1, <1>2, <1>3 DEF Next

-----------------------------------------------------------------------------
(* What a validation selects *)

(* What comes first in a scope among some resources of the map is one of them. *)
LEMMA OutermostIsOne ==
  ASSUME NEW scope \in Seq(Path), NEW uris, Outermost(scope, uris) # None
  PROVE  \E u \in uris : Outermost(scope, uris) = rm.byURI[u]
<1> DEFINE found == Those(scope, uris)
<1>1. found \in Seq(Path) /\ \A i \in DOMAIN found : found[i] \in uris
  BY ThoseTyped
<1> HIDE DEF found
<1>2. found # << >>
  BY DEF Outermost, found
<1>3. 1 \in DOMAIN found
  BY ONLY <1>1, <1>2
<1>4. Outermost(scope, uris) = rm.byURI[found[1]]
  BY <1>2 DEF Outermost, found
<1>5. QED
  BY <1>1, <1>3, <1>4

\* Whatever the dynamic scope, however deep, what a reference of the subschemas
\* that were built evaluates is built.
EveryScopeReady ==
    (Compiled /\ \A id \in DOMAIN eval : eval[id].failed = {}) =>
        \A k \in DOMAIN cache : \A id \in EvalsAt(k) : \A scope \in Seq(Path) :
            Selected(eval[id], scope) \in {None} \cup eval[id].built

(* When Compile has returned there is no other round: what can be selected was
   offered when the resources were scanned for the last time, or is the target. *)
LEMMA ReadyInEveryScope ==
  ASSUME BInv, RInv
  PROVE  EveryScopeReady
<1> SUFFICES ASSUME Compiled, \A id \in DOMAIN eval : eval[id].failed = {},
                    NEW k \in DOMAIN cache, NEW id \in EvalsAt(k), NEW scope \in Seq(Path)
             PROVE  Selected(eval[id], scope) \in {None} \cup eval[id].built
  BY DEF EveryScopeReady
<1>1. /\ SeenOK(world, cache, eval, todo, seen) /\ EndOK(cache, todo, seen, outcome)
      /\ EvalOK(world, eval) /\ outcome = "compiled"
  BY DEF BInv, Compiled
<1>2. todo = << >> /\ k \in seen /\ DOMAIN cache \subseteq seen /\ \A x \in DOMAIN todo : FALSE
  BY <1>1 DEF EndOK
<1>3. id \in DOMAIN eval /\ id[1] = k /\ id[2] \in DOMAIN world.schema[cache[k].node].refs
  BY DEF EvalsAt, S
<1>4. id = << k, id[2] >>
  BY <1>1, <1>3 DEF EvalOK, ID
<1> DEFINE e == eval[id]
<1>5. e.failed = {} /\ e.kw \in {"$ref", "$dynamicRef", "$recursiveRef"}
  BY <1>1, <1>3 DEF EvalOK, Evaluator
<1>6. e.target \in {None} \cup e.built
  BY <1>1, <1>2, <1>3, <1>4, <1>5 DEF SeenOK
<1>7. Noted(world, cache, eval, seen, work) /\ Coming(rm, cache, eval, todo, seen, work)
  BY <1>1 DEF RInv, Readying
<1>8. Offers(rm, eval, todo, work)
  BY <1>2, <1>7 DEF Coming, Calling, Unsettled, Failing, Unbuilt, Stale
<1>9. ASSUME NEW u \in DOMAIN rm.byURI, NEW v, Offered(rm, e, u, v)
      PROVE  v \in e.built
  <2>1. e.kw # "$ref"
    BY <1>9 DEF Offered
  <2>2. id \in ToSet(work)
    BY <1>2, <1>3, <1>7, <2>1 DEF Noted
  <2>3. PICK x \in DOMAIN work : id = work[x]
    BY <2>2 DEF ToSet
  <2>4. v \in e.built \cup e.failed
    BY <1>2, <1>8, <1>9, <2>3 DEF Offers
  <2>5. QED
    BY <1>5, <2>4
<1> DEFINE named == {u \in DOMAIN rm.byURI : e.name \in DOMAIN rm.reg[rm.byURI[u]].dynamic}
           marked == {u \in DOMAIN rm.byURI : rm.reg[rm.byURI[u]].recursive}
<1>10. ASSUME e.kw = "$dynamicRef", Outermost(scope, named) # None
       PROVE  rm.reg[Outermost(scope, named)].dynamic[e.name] \in e.built
  <2>1. PICK u \in named : Outermost(scope, named) = rm.byURI[u]
    BY <1>10, OutermostIsOne
  <2>2. Offered(rm, e, u, rm.reg[rm.byURI[u]].dynamic[e.name])
    BY <1>10 DEF Offered
  <2>3. QED
    BY <1>9, <2>1, <2>2
<1>11. ASSUME e.kw = "$recursiveRef", Outermost(scope, marked) # None
       PROVE  Outermost(scope, marked).root \in e.built
  <2>1. PICK u \in marked : Outermost(scope, marked) = rm.byURI[u]
    BY <1>11, OutermostIsOne
  <2>2. Offered(rm, e, u, rm.byURI[u].root)
    BY <1>11 DEF Offered
  <2>3. QED
    BY <1>9, <2>1, <2>2
<1> HIDE DEF e
<1>12. Selected(e, scope) \in {None} \cup e.built
  <2>1. CASE e.kw = "$dynamicRef" /\ Outermost(scope, named) # None
    BY <1>10, <2>1 DEF Selected
  <2>2. CASE ~(e.kw = "$dynamicRef" /\ Outermost(scope, named) # None)
             /\ e.kw = "$recursiveRef" /\ Outermost(scope, marked) # None
    BY <1>6, <1>11, <2>2 DEF Selected
  <2>3. CASE ~(e.kw = "$dynamicRef" /\ Outermost(scope, named) # None)
             /\ ~(e.kw = "$recursiveRef" /\ Outermost(scope, marked) # None)
    BY <1>6, <2>3 DEF Selected
  <2>4. QED
    BY <2>1, <2>2, <2>3
<1>13. QED
  BY <1>12 DEF e

(* The invariants hold together. *)
LEMMA BothInvariants == Spec => [](BInv /\ RInv)
<1>1. Init => BInv /\ RInv
  BY InitKeeps, InitReady
<1>2. (BInv /\ RInv) /\ [Next]_vars => (BInv /\ RInv)'
  BY NextKeeps, NextReady
<1>3. QED
  BY <1>1, <1>2, PTL DEF Spec

(* Whatever the documents and the failures of the loader, when Compile returns
   and could build all it tried to, each target that a validation can select in
   the dynamic scope (dynamicRefEval, recursiveRefEval) is built: it is never
   built by a validation, although targets bring subschemas, these references,
   and references documents, whose resources may be selected in turn. *)
THEOREM WhateverIsSelectedIsBuilt == Spec => []EveryScopeReady
<1>1. BInv /\ RInv => EveryScopeReady
  BY ReadyInEveryScope
<1>2. QED
  BY <1>1, BothInvariants, PTL

(* So it is when one resource is in the scope. *)
THEOREM ReadyWhenCompiled == Spec => []ValidationReady
<1>1. BInv /\ EveryScopeReady => ValidationReady
  <2> SUFFICES ASSUME BInv, EveryScopeReady, Compiled, \A id \in DOMAIN eval : eval[id].failed = {},
                      NEW k \in DOMAIN cache, NEW id \in EvalsAt(k),
                      NEW scope \in {<< >>} \cup {<< u >> : u \in DOMAIN rm.byURI}
               PROVE  Selected(eval[id], scope) \in {None} \cup eval[id].built
    BY DEF ValidationReady
  <2>1. DOMAIN rm.byURI \subseteq Path
    BY DEF BInv, MapOK, UrisOK
  <2>2. scope \in Seq(Path)
    <3>1. CASE scope = << >>
      BY <3>1
    <3>2. ASSUME NEW u \in DOMAIN rm.byURI, scope = << u >> PROVE scope \in Seq(Path)
      <4>1. u \in Path
        BY <2>1
      <4> HIDE DEF Path
      <4>2. QED
        BY <3>2, <4>1
    <3>3. QED
      BY <3>1, <3>2
  <2>3. QED
    BY <2>2 DEF EveryScopeReady
<1>2. QED
  BY <1>1, BothInvariants, WhateverIsSelectedIsBuilt, PTL
-----------------------------------------------------------------------------
(* Who answers for a URI                                                     *)

Same(w, a, b) == w.schema[a.root].content = w.schema[b.root].content
RootOf(w) == w.docs[w.doc][1]

\* While documents are still to come: the schema being compiled answers for its
\* URI once it has it.
Owned(w, m, u) == w.policy # "last" /\ u = m.rootURI /\ [uri |-> u, root |-> RootOf(w)] \in DOMAIN m.reg
Answering(w, m, l, u) ==
    IF Owned(w, m, u) THEN {[uri |-> u, root |-> RootOf(w)]}
    ELSE IF w.policy = "last" THEN LastClaim(w, m, l, u) ELSE FirstClaim(w, m, l, u)
Decided(w, m, l) == \A u \in DOMAIN m.byURI : \E r \in Answering(w, m, l, u) : Same(w, m.byURI[u], r)

\* Every resource is of a document that was met; is an old one, of a document met
\* before d, or of the first i nodes of d (the walk of which begins with its root).
Placed(w, m, l) == \A r \in DOMAIN m.reg : \E j \in DOMAIN Met(w, l) : Met(w, l)[j] = w.schema[r.root].doc
Reached(w, m, l, old, d, i) ==
    \A r \in DOMAIN m.reg :
        \/ r \in old /\ DocEarlier(w, l, w.schema[r.root].doc, d)
        \/ \E j \in {1} \cup 1 .. i : w.docs[d][j] = r.root

\* The registered documents are walked in their order, the schema after them.
OfSeeds(w, m, k) == \A r \in DOMAIN m.reg : \E j \in 1 .. k : w.seeds[j].doc = w.schema[r.root].doc
Lined(w, t, k) ==
    /\ Len(w.seeds) - k + 1 \in DOMAIN t
    /\ \A x \in 1 .. Len(w.seeds) - k : t[x] = Seed(w.seeds[k + x])
    /\ t[Len(w.seeds) - k + 1] = Just("walk")
    /\ \A x \in DOMAIN t : x > Len(w.seeds) - k + 1 => t[x].call \notin {"seed", "walk"}
Seeding(w, m, t) == \E k \in 0 .. Len(w.seeds) : Lined(w, t, k) /\ OfSeeds(w, m, k)
RootKnown(w, m) == [uri |-> m.rootURI, root |-> RootOf(w)] \in DOMAIN m.reg
WalksOver(t) == \A x \in DOMAIN t : t[x].call \notin {"seed", "walk"}
Seeded(w, m, t, o) == WalksOver(t) /\ (o # "error" => RootKnown(w, m))

Deciding(w, m, l, t, o) == Decided(w, m, l) /\ Placed(w, m, l) /\ (Seeding(w, m, t) \/ Seeded(w, m, t, o))
DInv == Deciding(world, rm, loads, todo, outcome)

\* What opening resource r makes of map m.
Registers(w, m, r, q) ==
    /\ DOMAIN q.reg = DOMAIN m.reg \cup {r} /\ q.rootURI = m.rootURI
    /\ DOMAIN q.byURI = DOMAIN m.byURI \cup {r.uri}
    /\ \A u \in DOMAIN m.byURI : u # r.uri => q.byURI[u] = m.byURI[u]
    /\ Same(w, q.byURI[r.uri], IF r.uri \in DOMAIN m.byURI /\ w.policy # "last" THEN m.byURI[r.uri] ELSE r)

(* Under two of the policies a resource that collides with another loses its URI,
   under RefCollisionLastWins it takes it. *)
LEMMA AddRegisters ==
  ASSUME NEW m, MapOK(world, m), NEW r \in Resource(world), NEW draft, NEW external, NEW q,
         q = Add(NewResource(m, r, draft, external), r)
  PROVE  Registers(world, m, r, q)
<1> DEFINE new == NewResource(m, r, draft, external)
<1>1. /\ new = [byURI |-> m.byURI, order |-> m.order, rootURI |-> m.rootURI, owner |-> m.owner,
                reg |-> Put(m.reg, r, Fresh(draft, external)), failed |-> m.failed,
                collided |-> m.collided]
  <2>1. Shaped(m)
    BY DEF MapOK
  <2>2. QED
    BY <2>1 DEF Shaped, NewResource, Fresh
<1>2. DOMAIN new.reg = DOMAIN m.reg \cup {r} /\ new.rootURI = m.rootURI /\ new.byURI = m.byURI
  BY <1>1 DEF Put
<1> HIDE DEF new
<1> DEFINE holder == m.byURI[r.uri]
<1>3. CASE r.uri \notin DOMAIN m.byURI
  <2>1. q = [new EXCEPT !.byURI = Put(@, r.uri, r), !.order = Append(@, r.uri)]
    BY <1>2, <1>3 DEF Add, new
  <2>2. q.byURI = Put(m.byURI, r.uri, r) /\ q.reg = new.reg /\ q.rootURI = m.rootURI
    BY <1>1, <2>1
  <2>3. /\ DOMAIN q.byURI = DOMAIN m.byURI \cup {r.uri} /\ q.byURI[r.uri] = r
        /\ \A u \in DOMAIN m.byURI : u # r.uri => q.byURI[u] = m.byURI[u]
    BY <2>2 DEF Put
  <2>4. QED
    BY <1>2, <1>3, <2>2, <2>3 DEF Registers, Same
<1>4. CASE r.uri \in DOMAIN m.byURI
  <2> DEFINE takes == S(holder.root).content = S(r.root).content \/ world.policy = "last"
  <2>1. /\ q.byURI = [m.byURI EXCEPT ![r.uri] = IF takes THEN r ELSE holder]
        /\ q.reg = new.reg /\ q.rootURI = m.rootURI
    <3>1. CASE S(holder.root).content = S(r.root).content
      <4>1. q = [new EXCEPT !.byURI[r.uri] = r]
        BY <1>2, <1>4, <3>1 DEF Add, new
      <4>2. q.byURI = [m.byURI EXCEPT ![r.uri] = r] /\ q.reg = new.reg /\ q.rootURI = m.rootURI
        BY <1>1, <4>1
      <4>3. QED
        BY <3>1, <4>2
    <3>2. CASE S(holder.root).content # S(r.root).content
      <4>1. q = [new EXCEPT !.byURI[r.uri] = IF world.policy = "last" THEN r ELSE @,
                            !.failed = (world.policy = "error"), !.collided = TRUE]
        BY <1>2, <1>4, <3>2 DEF Add, new
      <4>2. /\ q.byURI = [m.byURI EXCEPT ![r.uri] = IF world.policy = "last" THEN r ELSE holder]
            /\ q.reg = new.reg /\ q.rootURI = m.rootURI
        BY <1>1, <4>1
      <4>3. QED
        BY <3>2, <4>2
    <3>3. QED
      BY <3>1, <3>2
  <2>2. /\ DOMAIN q.byURI = DOMAIN m.byURI \cup {r.uri} /\ q.byURI[r.uri] = (IF takes THEN r ELSE holder)
        /\ \A u \in DOMAIN m.byURI : u # r.uri => q.byURI[u] = m.byURI[u]
    BY <1>4, <2>1
  <2>3. Same(world, q.byURI[r.uri], IF world.policy # "last" THEN holder ELSE r)
    BY <2>2 DEF Same, S
  <2>4. QED
    BY <1>2, <1>4, <2>1, <2>2, <2>3 DEF Registers
<1>5. QED
  BY <1>3, <1>4

(* A resource of a schema met after all those that claim its URI leaves the
   policies' decisions right. *)
LEMMA RegistersDecides ==
  ASSUME NEW w, NEW m, MapOK(w, m), NEW r, NEW q, Registers(w, m, r, q), NEW l, Decided(w, m, l),
         r = [uri |-> m.rootURI, root |-> RootOf(w)] => r \in DOMAIN m.reg,
         \A o \in Claims(m, r.uri) : o = r \/ Earlier(w, l, o.root, r.root)
  PROVE  Decided(w, q, l)
<1> SUFFICES ASSUME NEW u \in DOMAIN q.byURI PROVE \E a \in Answering(w, q, l, u) : Same(w, q.byURI[u], a)
  BY DEF Decided
<1>1. /\ Claims(q, r.uri) = Claims(m, r.uri) \cup {r} /\ q.rootURI = m.rootURI
      /\ DOMAIN q.reg = DOMAIN m.reg \cup {r}
  BY DEF Registers, Claims
<1>2. CASE u # r.uri
  <2>1. u \in DOMAIN m.byURI /\ q.byURI[u] = m.byURI[u] /\ Claims(q, u) = Claims(m, u)
    BY <1>2 DEF Registers, Claims
  <2>2. Owned(w, q, u) <=> Owned(w, m, u)
    BY <1>1, <1>2 DEF Owned
  <2>3. Answering(w, q, l, u) = Answering(w, m, l, u)
    BY <2>1, <2>2 DEF Answering, LastClaim, FirstClaim
  <2>4. QED
    BY <2>1, <2>3 DEF Decided
<1>3. CASE u = r.uri /\ r.uri \notin DOMAIN m.byURI
  <2>1. Claims(m, r.uri) = {}
    BY <1>3 DEF Claims, MapOK, ResourcesOK
  <2>2. Same(w, q.byURI[u], r) /\ Claims(q, u) = {r}
    BY <1>1, <1>3, <2>1 DEF Registers
  <2>3. CASE Owned(w, q, u)
    <3>1. [uri |-> u, root |-> RootOf(w)] \in Claims(q, u)
      BY <2>3 DEF Owned, Claims
    <3>2. QED
      BY <2>2, <2>3, <3>1 DEF Answering
  <2>4. CASE ~Owned(w, q, u)
    <3>1. LastClaim(w, q, l, u) = {r} /\ FirstClaim(w, q, l, u) = {r}
      BY <2>2 DEF LastClaim, FirstClaim
    <3>2. QED
      BY <2>2, <2>4, <3>1 DEF Answering
  <2>5. QED
    BY <2>3, <2>4
<1>4. CASE u = r.uri /\ r.uri \in DOMAIN m.byURI /\ w.policy = "last"
  <2>1. r \in LastClaim(w, q, l, u)
    BY <1>1, <1>4 DEF LastClaim
  <2>2. Same(w, q.byURI[u], r)
    BY <1>4 DEF Registers
  <2>3. QED
    BY <1>4, <2>1, <2>2 DEF Answering, Owned
<1>5. CASE u = r.uri /\ r.uri \in DOMAIN m.byURI /\ w.policy # "last"
  <2>1. PICK a \in Answering(w, m, l, u) : Same(w, m.byURI[u], a)
    BY <1>5 DEF Decided
  <2>2. Same(w, q.byURI[u], a)
    BY <1>5, <2>1 DEF Registers, Same
  <2>3. Owned(w, q, u) <=> Owned(w, m, u)
    BY <1>1, <1>5 DEF Owned
  <2>4. CASE Owned(w, m, u)
    BY <2>1, <2>2, <2>3, <2>4 DEF Answering
  <2>5. CASE ~Owned(w, m, u)
    <3>1. a \in FirstClaim(w, m, l, u)
      BY <1>5, <2>1, <2>5 DEF Answering
    <3>2. a \in FirstClaim(w, q, l, u)
      BY <1>1, <1>5, <3>1 DEF FirstClaim
    <3>3. QED
      BY <1>5, <2>2, <2>3, <2>5, <3>2 DEF Answering
  <2>6. QED
    BY <2>4, <2>5
<1>6. QED
  BY <1>2, <1>3, <1>4, <1>5 DEF Registers

\* As maps of URIs and resources, the two are one.
SameMap(m, q) == q.byURI = m.byURI /\ DOMAIN q.reg = DOMAIN m.reg /\ q.rootURI = m.rootURI

(* What is decided and where resources are placed depends on no more. *)
LEMMA SameMapDecides ==
  ASSUME NEW w, NEW m, NEW q, SameMap(m, q), NEW l
  PROVE  /\ Decided(w, m, l) => Decided(w, q, l)
         /\ Placed(w, m, l) => Placed(w, q, l)
         /\ RootKnown(w, m) => RootKnown(w, q)
         /\ \A old, d, i : Reached(w, m, l, old, d, i) => Reached(w, q, l, old, d, i)
<1>1. \A u : Claims(q, u) = Claims(m, u) /\ (Owned(w, q, u) <=> Owned(w, m, u))
  BY DEF SameMap, Claims, Owned
<1>2. ASSUME NEW u PROVE Answering(w, q, l, u) = Answering(w, m, l, u)
  <2>1. LastClaim(w, q, l, u) = LastClaim(w, m, l, u) /\ FirstClaim(w, q, l, u) = FirstClaim(w, m, l, u)
    BY <1>1 DEF LastClaim, FirstClaim
  <2>2. QED
    BY <1>1, <2>1 DEF Answering
<1>3. Decided(w, m, l) => Decided(w, q, l)
  BY <1>2 DEF Decided, SameMap
<1>4. (Placed(w, m, l) => Placed(w, q, l)) /\ (RootKnown(w, m) => RootKnown(w, q))
  BY DEF SameMap, Placed, RootKnown
<1>5. ASSUME NEW old, NEW d, NEW i, Reached(w, m, l, old, d, i) PROVE Reached(w, q, l, old, d, i)
  BY <1>5 DEF SameMap, Reached
<1>6. QED
  BY <1>3, <1>4, <1>5

\* The walk of document d after its i-th node, uri being that of the schema compiled.
Progress(w, m, l, old, d, i, uri) ==
    /\ Decided(w, m, l) /\ Reached(w, m, l, old, d, i)
    /\ m.rootURI = uri /\ (d = w.doc => RootKnown(w, m))

(* The resource a node opens comes after all that claim its URI. *)
LEMMA OpenedDecides ==
  ASSUME WorldOK(world), NEW m, MapOK(world, m), NEW d \in DOMAIN world.docs,
         NEW i \in 1 .. Len(world.docs[d]), NEW n, n = world.docs[d][i],
         NEW current \in DOMAIN m.reg, NEW draft \in Draft, NEW l, NEW old, NEW uri,
         Progress(world, m, l, old, d, i - 1, uri), NEW q, q = Opened(m, n, current, draft)
  PROVE  Progress(world, q, l, old, d, i, uri)
<1> DEFINE nodes == world.docs[d]
           r == [uri |-> Named(S(n), current.uri), root |-> n]
<1>1. n \in Node(world) /\ S(n).doc = d /\ Len(nodes) \in Nat /\ DOMAIN nodes = 1 .. Len(nodes)
  <2>1. nodes \in Seq(Node(world)) /\ DocumentOK(world, d)
    BY Roots DEF WorldOK
  <2>2. QED
    BY <2>1 DEF DocumentOK, S
<1>2. r \in Resource(world)
  <2>1. current.uri \in Path
    BY DEF MapOK, ResourcesOK, Resource
  <2>2. QED
    BY <1>1, <2>1, NamedPath DEF Resource
<1>3. Reached(world, m, l, old, d, i)
  <2>1. \A j \in {1} \cup 1 .. i - 1 : j \in {1} \cup 1 .. i
    OBVIOUS
  <2>2. QED
    BY <2>1 DEF Progress, Reached
<1>4. CASE q = m
  BY <1>3, <1>4 DEF Progress
<1>5. CASE q # m
  <2>1. q = Add(NewResource(m, r, draft, m.reg[current].external), r)
    BY <1>5 DEF Opened
  <2>2. r.root = n /\ S(r.root).doc = d
    BY <1>1
  <2>3. ASSUME NEW o \in Claims(m, r.uri) PROVE o = r \/ Earlier(world, l, o.root, r.root)
    <3>1. o \in DOMAIN m.reg /\ o.uri = r.uri
      BY DEF Claims
    <3>2. CASE DocEarlier(world, l, S(o.root).doc, d)
      BY <2>2, <3>2 DEF Earlier, S
    <3>3. ASSUME NEW j \in {1} \cup 1 .. i - 1, nodes[j] = o.root
          PROVE  o = r \/ Earlier(world, l, o.root, r.root)
      <4>1. CASE j \in 1 .. i - 1
        <5>1. i \in DOMAIN nodes /\ nodes[i] = r.root /\ world.docs[world.schema[r.root].doc] = nodes
          BY <1>1, <2>2 DEF S
        <5> HIDE DEF nodes, r
        <5>2. QED
          BY <3>3, <4>1, <5>1 DEF Earlier
      <4>2. CASE j \notin 1 .. i - 1
        <5>1. j = i
          BY <3>3, <4>2
        <5>2. o.root = r.root /\ o \in Resource(world)
          BY <2>2, <3>1, <3>3, <5>1 DEF MapOK, ResourcesOK
        <5>3. o = [uri |-> o.uri, root |-> o.root] /\ r = [uri |-> r.uri, root |-> r.root]
          BY <5>2 DEF Resource
        <5> HIDE DEF r
        <5>4. QED
          BY <3>1, <5>2, <5>3
      <4>3. QED
        BY <4>1, <4>2
    <3> HIDE DEF r
    <3>4. QED
      BY <3>1, <3>2, <3>3 DEF Progress, Reached, S
  <2>4. r = [uri |-> m.rootURI, root |-> RootOf(world)] => r \in DOMAIN m.reg
    <3> SUFFICES ASSUME r = [uri |-> m.rootURI, root |-> RootOf(world)] PROVE r \in DOMAIN m.reg
      OBVIOUS
    <3>1. n = RootOf(world)
      BY <2>2
    <3>2. d = world.doc
      <4>1. world.doc \in DOMAIN world.docs
        BY DEF WorldOK
      <4>2. S(RootOf(world)).doc = world.doc
        BY <4>1, Roots DEF RootOf
      <4>3. QED
        BY <1>1, <3>1, <4>2
    <3>3. QED
      BY <3>2 DEF Progress, RootKnown
  <2> HIDE DEF r
  <2>5. Registers(world, m, r, q)
    BY <1>2, <2>1, AddRegisters
  <2>6. Decided(world, q, l)
    BY <2>3, <2>4, <2>5, RegistersDecides DEF Progress
  <2>7. Reached(world, q, l, old, d, i)
    <3> SUFFICES ASSUME NEW x \in DOMAIN q.reg
                 PROVE  \/ x \in old /\ DocEarlier(world, l, world.schema[x.root].doc, d)
                        \/ \E j \in {1} \cup 1 .. i : world.docs[d][j] = x.root
      BY DEF Reached
    <3>1. CASE x \in DOMAIN m.reg
      BY <1>3, <3>1 DEF Reached
    <3>2. CASE x = r
      BY <2>2, <3>2
    <3>3. QED
      BY <2>5, <3>1, <3>2 DEF Registers
  <2>8. QED
    BY <2>5, <2>6, <2>7 DEF Progress, Registers, RootKnown
<1>6. QED
  BY <1>4, <1>5

(* Nothing is decided by recording a node and its anchors. *)
LEMMA AnchoredSameMap ==
  ASSUME NEW m, NEW n, NEW current \in DOMAIN m.reg, NEW target \in DOMAIN m.reg, NEW draft,
         Shaped(m), NEW q, q = Anchored(m, n, current, target, draft)
  PROVE  SameMap(m, q)
<1> DEFINE plain == Entry(IF draft = "legacy" THEN S(n).plain ELSE None, n)
           first == [m.reg[current] EXCEPT !.anchors = Over(plain, m.reg[current].anchors)]
           reg == [m.reg EXCEPT ![current] = first]
           last == Scoped(reg[target], Entry(S(n).anchor, n), Entry(S(n).dyn, n), target.root = n /\ S(n).recursive)
           owner == Over(m.owner, [x \in {n} |-> target])
<1>1. q = [m EXCEPT !.owner = owner, !.reg = [reg EXCEPT ![target] = last]]
  BY DEF Anchored
<1>2. DOMAIN reg = DOMAIN m.reg
  OBVIOUS
<1> HIDE DEF reg, last, owner
<1>3. q = [byURI |-> m.byURI, order |-> m.order, rootURI |-> m.rootURI, owner |-> owner,
           reg |-> [reg EXCEPT ![target] = last], failed |-> m.failed, collided |-> m.collided]
  BY <1>1 DEF Shaped
<1>4. q.byURI = m.byURI /\ q.reg = [reg EXCEPT ![target] = last] /\ q.rootURI = m.rootURI
  BY <1>3
<1>5. QED
  BY <1>2, <1>4 DEF SameMap

(* One step of a walk. *)
LEMMA NodeDecides ==
  ASSUME WorldOK(world), NEW m, NEW d \in DOMAIN world.docs,
         NEW i \in 1 .. Len(world.docs[d]), NEW n, n = world.docs[d][i],
         NEW entry, Walkable(world, m, n, entry),
         NEW l, NEW old, NEW uri, Progress(world, m, l, old, d, i - 1, uri), NEW q, q = WalkNode(m, n, entry)
  PROVE  Progress(world, q, l, old, d, i, uri)
<1> DEFINE current == IF S(n).parent = None THEN entry ELSE m.owner[S(n).parent]
           draft == Drafted(S(n), m.reg[current].draft)
           target == IF Opens(S(n), draft) THEN [uri |-> Named(S(n), current.uri), root |-> n] ELSE current
           o == Opened(m, n, current, draft)
<1>1. MapOK(world, m) /\ n \in Node(world)
  BY Roots DEF Walkable
<1>2. current \in DOMAIN m.reg
  BY <1>1 DEF MapOK, OwnersOK, Walkable, S
<1>3. q = IF o.failed THEN o ELSE Anchored(o, n, current, target, draft)
  BY DEF WalkNode, Unless
<1> HIDE DEF current
<1>4. draft \in Draft
  BY <1>1, <1>2, DraftedIn DEF MapOK, ResourcesOK, DataOK
<1> HIDE DEF draft
<1>5. /\ MapOK(world, o) /\ DOMAIN m.reg \subseteq DOMAIN o.reg
      /\ Opens(S(n), draft) => [uri |-> Named(S(n), current.uri), root |-> n] \in DOMAIN o.reg
  BY <1>1, <1>2, <1>4, OpenedKeeps
<1>6. target \in DOMAIN o.reg /\ current \in DOMAIN o.reg
  BY <1>2, <1>5
<1>7. Progress(world, o, l, old, d, i, uri)
  BY <1>1, <1>2, <1>4, OpenedDecides
<1> HIDE DEF o, target
<1>8. CASE o.failed
  BY <1>3, <1>7, <1>8
<1>9. CASE ~o.failed
  <2>1. Shaped(o) /\ q = Anchored(o, n, current, target, draft)
    BY <1>3, <1>5, <1>9 DEF MapOK
  <2>2. SameMap(o, q)
    BY <1>6, <2>1, AnchoredSameMap
  <2>3. /\ Decided(world, q, l) /\ Reached(world, q, l, old, d, i)
        /\ RootKnown(world, o) => RootKnown(world, q)
    BY <1>7, <2>2, SameMapDecides DEF Progress
  <2>4. QED
    BY <1>7, <2>2, <2>3 DEF Progress, SameMap
<1>10. QED
  BY <1>8, <1>9

(* A walk decides as the policy has it. *)
LEMMA WalkDecides ==
  ASSUME WorldOK(world), NEW m, MapOK(world, m), NEW d \in DOMAIN world.docs, Unwalked(world, m, d),
         NEW entry \in DOMAIN m.reg, NEW l, NEW old, NEW uri, Progress(world, m, l, old, d, 0, uri),
         NEW q, q = Walk(m, d, entry)
  PROVE  Progress(world, q, l, old, d, Len(world.docs[d]), uri) /\ DOMAIN m.reg \subseteq DOMAIN q.reg
<1> DEFINE nodes == world.docs[d]
           L == Len(nodes)
<1>1. L \in Nat
  BY Roots
<1>2. Grown(world, m, q, d) /\ \E f : Through(world, nodes, entry, m, q, f)
  BY WalkSteps
<1>3. PICK f : Through(world, nodes, entry, m, q, f)
  BY <1>2
<1> DEFINE I == {i \in Nat : i <= L => Progress(world, f[i], l, old, d, i, uri)}
<1>4. 0 \in I
  BY <1>3 DEF Through
<1>5. ASSUME NEW i \in Nat, i \in I PROVE i + 1 \in I
  <2> SUFFICES ASSUME i + 1 <= L PROVE Progress(world, f[i + 1], l, old, d, i + 1, uri)
    OBVIOUS
  <2>1. PICK k \in 1 .. L : k = i + 1 /\ k - 1 = i
    BY <1>1
  <2>2. Progress(world, f[k - 1], l, old, d, k - 1, uri)
    BY <1>1, <1>5, <2>1
  <2>3. CASE f[k] = f[k - 1]
    <3>1. \A j \in {1} \cup 1 .. k - 1 : j \in {1} \cup 1 .. k
      OBVIOUS
    <3>2. Reached(world, f[k], l, old, d, k)
      BY <2>2, <2>3, <3>1 DEF Progress, Reached
    <3>3. QED
      BY <2>1, <2>2, <2>3, <3>2 DEF Progress
  <2>4. CASE Walkable(world, f[k - 1], nodes[k], entry) /\ f[k] = WalkNode(f[k - 1], nodes[k], entry)
    BY <2>1, <2>2, <2>4, NodeDecides
  <2>5. QED
    BY <1>3, <2>1, <2>3, <2>4 DEF Through
<1> HIDE DEF I
<1>6. \A i \in Nat : i \in I
  BY <1>4, <1>5, SetInduction
<1>7. Progress(world, f[L], l, old, d, L, uri)
  BY <1>1, <1>6 DEF I
<1>8. QED
  BY <1>2, <1>3, <1>7 DEF Through, Grown

-----------------------------------------------------------------------------
(* The order of the documents                                                *)

Preceding(w, m, l, d) == \A r \in DOMAIN m.reg : DocEarlier(w, l, w.schema[r.root].doc, d)

IsMet(w, l, d) == \E j \in DOMAIN Met(w, l) : Met(w, l)[j] = d

InTurn(w, l) ==
    /\ \A i \in DOMAIN w.seeds : IsMet(w, l, w.seeds[i].doc) /\ DocEarlier(w, l, w.seeds[i].doc, w.doc)
    /\ \A i \in DOMAIN w.seeds : \A j \in 1 .. i - 1 : DocEarlier(w, l, w.seeds[j].doc, w.seeds[i].doc)
    /\ IsMet(w, l, w.doc)

(* Registered documents come in their order, the schema compiled after them. *)
LEMMA SeedsPrecede ==
  ASSUME WorldOK(world), NEW T, NEW l \in Seq(T)
  PROVE  InTurn(world, l)
<1> DEFINE n == Len(world.seeds) + 1
           k == Len(l)
           met == Met(world, l)
<1>1. n \in Nat /\ k \in Nat /\ DOMAIN world.seeds = 1 .. n - 1
  <2>1. world.seeds \in Seq([uri : Path, doc : DOMAIN world.docs \ {world.doc}])
    BY DEF WorldOK
  <2> DEFINE C == [uri : Path, doc : DOMAIN world.docs \ {world.doc}]
  <2> HIDE DEF C
  <2>2. world.seeds \in Seq(C)
    BY <2>1 DEF C
  <2>3. Len(world.seeds) \in Nat /\ DOMAIN world.seeds = 1 .. Len(world.seeds)
    BY ONLY <2>2
  <2>4. QED
    BY <2>3
<1>2. met = [i \in 1 .. n + k |-> IF i < n THEN world.seeds[i].doc ELSE IF i = n THEN world.doc
                                  ELSE world.remote[l[i - n]]]
  BY DEF Met
<1> HIDE DEF n, k, met
<1>3. /\ DOMAIN met = 1 .. n + k /\ met[n] = world.doc /\ n \in DOMAIN met
      /\ \A i \in 1 .. n - 1 : i \in DOMAIN met /\ met[i] = world.seeds[i].doc
  BY <1>1, <1>2 DEF n
<1>4. \A i \in DOMAIN world.seeds : \A j \in 1 .. i - 1 :
         i \in DOMAIN met /\ met[j] = world.seeds[j].doc /\ met[i] = world.seeds[i].doc
  <2>1. \A i \in 1 .. n - 1 : \A j \in 1 .. i - 1 : j \in 1 .. n - 1
    BY <1>1
  <2>2. QED
    BY <1>1, <1>3, <2>1
<1>5. QED
  BY <1>1, <1>3, <1>4 DEF DocEarlier, IsMet, InTurn, met

(* A document that is fetched comes after all others; and what was decided was
   decided rightly, whatever is fetched later. *)
LEMMA FetchedLast ==
  ASSUME NEW w, w = world, WorldOK(world), NEW T, NEW l \in Seq(T), NEW u \in T, NEW m,
         NEW p, p = Append(l, u)
  PROVE  /\ Placed(w, m, l) => Preceding(w, m, p, w.remote[u]) /\ Placed(w, m, p)
         /\ IsMet(w, p, w.remote[u])
         /\ Decided(w, m, l) => Decided(w, m, p)
<1> DEFINE n == Len(w.seeds) + 1
           k == Len(l)
           met == Met(w, l)
           more == Met(w, p)
<1>1. n \in Nat /\ n > 0
  <2> DEFINE C == [uri : Path, doc : DOMAIN world.docs \ {world.doc}]
  <2>1. world.seeds \in Seq(C)
    BY DEF WorldOK
  <2> HIDE DEF C
  <2>2. Len(world.seeds) \in Nat
    BY ONLY <2>1
  <2>3. QED
    BY <2>2
<1>2. k \in Nat /\ p \in Seq(T) /\ Len(p) = k + 1 /\ p[k + 1] = u /\ \A i \in 1 .. k : p[i] = l[i]
  OBVIOUS
<1>3. met = [i \in 1 .. n + k |-> IF i < n THEN w.seeds[i].doc ELSE IF i = n THEN w.doc
                                  ELSE w.remote[l[i - n]]]
  BY DEF Met
<1>4. more = [i \in 1 .. n + (k + 1) |-> IF i < n THEN w.seeds[i].doc ELSE IF i = n THEN w.doc
                                         ELSE w.remote[p[i - n]]]
  BY <1>2 DEF Met
<1> HIDE DEF n, k, met, more
<1>5. /\ DOMAIN met = 1 .. n + k /\ DOMAIN more = 1 .. n + k + 1 /\ more[n + k + 1] = w.remote[u]
      /\ \A i \in DOMAIN met : i \in DOMAIN more /\ i \in 1 .. n + k + 1 - 1 /\ more[i] = met[i]
  <2>1. n + k + 1 \in 1 .. n + (k + 1) /\ ~(n + k + 1 < n) /\ n + k + 1 # n /\ n + k + 1 - n = k + 1
    BY <1>1, <1>2
  <2>2. more[n + k + 1] = w.remote[u]
    <3> DEFINE last == n + k + 1
    <3>1. last \in 1 .. n + (k + 1) /\ ~(last < n) /\ last # n /\ p[last - n] = u
      <4>1. p[k + 1] = u
        BY <1>2
      <4>2. QED
        BY <1>1, <1>2, <4>1
    <3> HIDE DEF last
    <3>2. more[last] = w.remote[p[last - n]]
      BY <1>4, <3>1, Zenon
    <3>3. QED
      BY <3>1, <3>2 DEF last
  <2>3. ASSUME NEW i \in 1 .. n + k PROVE more[i] = met[i]
    <3>1. i \in 1 .. n + (k + 1) /\ (~(i < n) /\ i # n => i - n \in 1 .. k)
      BY <1>1, <1>2
    <3>2. ~(i < n) /\ i # n => p[i - n] = l[i - n]
      BY <1>2, <3>1
    <3>3. QED
      BY <1>3, <1>4, <3>1, <3>2
  <2>4. DOMAIN met = 1 .. n + k /\ DOMAIN more = 1 .. n + (k + 1)
    BY <1>3, <1>4
  <2>5. QED
    BY <1>1, <1>2, <2>2, <2>3, <2>4
<1>6. n + k + 1 \in DOMAIN more
  BY <1>1, <1>2, <1>5
<1>7. Placed(w, m, l) => Preceding(w, m, p, w.remote[u]) /\ Placed(w, m, p)
  <2> SUFFICES ASSUME Placed(w, m, l), NEW r \in DOMAIN m.reg
               PROVE  /\ DocEarlier(w, p, w.schema[r.root].doc, w.remote[u])
                      /\ \E j \in DOMAIN Met(w, p) : Met(w, p)[j] = w.schema[r.root].doc
    BY DEF Placed, Preceding
  <2>1. PICK j \in DOMAIN met : met[j] = w.schema[r.root].doc
    BY DEF Placed, met
  <2>2. j \in 1 .. n + k + 1 - 1 /\ more[j] = w.schema[r.root].doc /\ j \in DOMAIN more
    BY <1>5, <2>1
  <2> DEFINE last == n + k + 1
  <2>3. last \in DOMAIN more /\ more[last] = w.remote[u] /\ j \in 1 .. last - 1
    BY <1>1, <1>2, <1>5, <1>6, <2>2
  <2> HIDE DEF last
  <2>4. \E i \in 1 .. last - 1 : more[i] = w.schema[r.root].doc /\ more[last] = w.remote[u]
    BY <2>2, <2>3, Zenon
  <2>5. QED
    BY <2>2, <2>3, <2>4, Zenon DEF DocEarlier, more
<1>8. ASSUME NEW d, NEW e, DocEarlier(w, l, d, e) PROVE DocEarlier(w, p, d, e)
  <2>1. PICK j \in DOMAIN met : \E i \in 1 .. j - 1 : met[i] = d /\ met[j] = e
    BY <1>8 DEF DocEarlier, met
  <2>2. PICK i \in 1 .. j - 1 : met[i] = d /\ met[j] = e
    BY <2>1
  <2>3. i \in DOMAIN met
    BY <1>1, <1>2, <1>5, <2>1, <2>2
  <2>4. j \in DOMAIN more /\ more[i] = d /\ more[j] = e
    BY <1>5, <2>1, <2>2, <2>3
  <2>5. QED
    BY <2>2, <2>4 DEF DocEarlier, more
<1>9. \A a, b : Earlier(w, l, a, b) => Earlier(w, p, a, b)
  BY <1>8 DEF Earlier
<1>10. Decided(w, m, l) => Decided(w, m, p)
  <2> SUFFICES ASSUME Decided(w, m, l), NEW v \in DOMAIN m.byURI
               PROVE  \E r \in Answering(w, m, p, v) : Same(w, m.byURI[v], r)
    BY DEF Decided
  <2>1. PICK r \in Answering(w, m, l, v) : Same(w, m.byURI[v], r)
    BY DEF Decided
  <2>2. LastClaim(w, m, l, v) \subseteq LastClaim(w, m, p, v)
    BY <1>9 DEF LastClaim
  <2>3. FirstClaim(w, m, l, v) \subseteq FirstClaim(w, m, p, v)
    BY <1>9 DEF FirstClaim
  <2>4. r \in Answering(w, m, p, v)
    BY <2>1, <2>2, <2>3 DEF Answering
  <2>5. QED
    BY <2>1, <2>4
<1>11. QED
  BY <1>5, <1>6, <1>7, <1>10 DEF more, IsMet

\* What a walk of document d leaves decided.
Walked(w, m, l, old, d, uri) ==
    /\ Decided(w, m, l) /\ m.rootURI = uri
    /\ \A r \in DOMAIN m.reg :
          (r \in old /\ DocEarlier(w, l, w.schema[r.root].doc, d)) \/ w.schema[r.root].doc = d

(* The last node of a walk leaves the walk done. *)
LEMMA ProgressEnds ==
  ASSUME WorldOK(world), NEW m, NEW d \in DOMAIN world.docs, NEW l, NEW old, NEW uri,
         NEW i \in {0, Len(world.docs[d])}, Progress(world, m, l, old, d, i, uri)
  PROVE  Walked(world, m, l, old, d, uri)
<1>1. DocumentOK(world, d)
  BY DEF WorldOK
<1>2. \A j \in DOMAIN world.docs[d] : world.schema[world.docs[d][j]].doc = d
  BY <1>1 DEF DocumentOK
<1>3. {1} \cup 1 .. i \subseteq DOMAIN world.docs[d]
  <2>1. world.docs[d] \in Seq(DOMAIN world.schema) /\ world.docs[d] # << >>
    BY <1>1 DEF DocumentOK
  <2>2. QED
    BY <2>1
<1>4. QED
  BY <1>2, <1>3 DEF Progress, Reached, Walked

(* The walk of a document that the caller registered or the loader returned. *)
LEMMA DocumentDecides ==
  ASSUME WorldOK(world), NEW m, MapOK(world, m), NEW d \in DOMAIN world.docs, Unwalked(world, m, d),
         d # world.doc, NEW l, Decided(world, m, l), Preceding(world, m, l, d),
         NEW uri \in Path, NEW draft \in Draft, NEW q, q = WalkDocument(m, d, uri, draft),
         NEW old, old = DOMAIN m.reg
  PROVE  Walked(world, q, l, old, d, m.rootURI) /\ DOMAIN m.reg \subseteq DOMAIN q.reg
<1> DEFINE r == [uri |-> uri, root |-> world.docs[d][1]]
           yes == TRUE
           o == Add(NewResource(m, r, draft, yes), r)
<1>1. r \in Resource(world) /\ r.uri = uri /\ r.root = world.docs[d][1] /\ world.schema[r.root].doc = d
  BY Roots DEF Resource, S
<1>2. q = IF o.failed THEN o ELSE Walk(o, d, r)
  BY DEF WalkDocument, Unless
<1>3. r.root # RootOf(world)
  <2>1. world.doc \in DOMAIN world.docs
    BY DEF WorldOK
  <2>2. S(RootOf(world)).doc = world.doc
    BY <2>1, Roots DEF RootOf
  <2>3. QED
    BY <1>1, <2>2 DEF S
<1> HIDE DEF r, yes
<1>4. /\ MapOK(world, o) /\ o.owner = m.owner /\ r \in DOMAIN o.reg /\ Registers(world, m, r, o)
  BY <1>1, AddNew, AddRegisters
<1> HIDE DEF o
<1>5. \A x \in Claims(m, r.uri) : Earlier(world, l, x.root, r.root)
  BY <1>1 DEF Claims, Preceding, Earlier
<1>6. Decided(world, o, l)
  <2>1. r # [uri |-> m.rootURI, root |-> RootOf(world)]
    BY <1>3
  <2>2. QED
    BY <1>4, <1>5, <2>1, RegistersDecides
<1>7. Reached(world, o, l, old, d, 0) /\ o.rootURI = m.rootURI /\ DOMAIN m.reg \subseteq DOMAIN o.reg
  BY <1>1, <1>4 DEF Registers, Reached, Preceding
<1>8. Progress(world, o, l, old, d, 0, m.rootURI) /\ Unwalked(world, o, d)
  BY <1>4, <1>6, <1>7 DEF Progress, Unwalked
<1>9. CASE o.failed
  BY <1>2, <1>7, <1>8, <1>9, ProgressEnds
<1>10. CASE ~o.failed
  <2>1. q = Walk(o, d, r)
    BY <1>2, <1>10
  <2>2. Progress(world, q, l, old, d, Len(world.docs[d]), m.rootURI) /\ DOMAIN o.reg \subseteq DOMAIN q.reg
    BY <1>4, <1>8, <2>1, WalkDecides
  <2>3. QED
    BY <1>7, <2>2, ProgressEnds
<1>11. QED
  BY <1>9, <1>10

(* The walk of the schema that is compiled, which takes its URI. *)
LEMMA ResourceDecides ==
  ASSUME WorldOK(world), NEW m, MapOK(world, m), Unwalked(world, m, world.doc),
         NEW l, Decided(world, m, l), Preceding(world, m, l, world.doc),
         \A x \in DOMAIN m.reg : world.schema[x.root].doc # world.doc,
         NEW uri \in Path, NEW draft \in Draft, NEW q, q = WalkResource(m, uri, draft),
         NEW old, old = DOMAIN m.reg
  PROVE  Walked(world, q, l, old, world.doc, uri) /\ RootKnown(world, q)
<1> DEFINE r == [uri |-> uri, root |-> Root]
           no == FALSE
           new == NewResource(m, r, draft, no)
           o == [new EXCEPT !.byURI = Put(@, uri, r), !.rootURI = uri,
                            !.order = IF uri \in DOMAIN m.byURI THEN @ ELSE Append(@, uri)]
           d == world.doc
<1>1. /\ r \in Resource(world) /\ r.uri = uri /\ r.root = Root /\ d \in DOMAIN world.docs
      /\ world.schema[Root].doc = d /\ Root = RootOf(world)
  BY RootTyped, Roots DEF Resource, WorldOK, Root, RootOf, S
<1>2. q = Walk(o, d, r)
  BY DEF WalkResource
<1>3. Shaped(m) /\ UrisOK(m) /\ Listed(m)
  BY DEF MapOK
<1> HIDE DEF r, no
<1>4. new = [byURI |-> m.byURI, order |-> m.order, rootURI |-> m.rootURI, owner |-> m.owner,
             reg |-> Put(m.reg, r, Fresh(draft, no)), failed |-> m.failed, collided |-> m.collided]
  BY <1>3 DEF Shaped, NewResource, Fresh
<1> HIDE DEF new
<1>5. /\ o.byURI = Put(m.byURI, uri, r) /\ o.owner = m.owner /\ o.rootURI = uri
      /\ o.order = (IF uri \in DOMAIN m.byURI THEN m.order ELSE Append(m.order, uri))
      /\ o.reg = Put(m.reg, r, Fresh(draft, no)) /\ Shaped(o)
  <2> DEFINE list == IF uri \in DOMAIN m.byURI THEN m.order ELSE Append(m.order, uri)
             put == Put(m.byURI, uri, r)
  <2>1. o = [new EXCEPT !.byURI = put, !.rootURI = uri, !.order = list]
    BY <1>4
  <2> HIDE DEF o, list, put
  <2>2. o = [byURI |-> put, order |-> list, rootURI |-> uri, owner |-> m.owner,
             reg |-> Put(m.reg, r, Fresh(draft, no)), failed |-> m.failed, collided |-> m.collided]
    BY <1>4, <2>1
  <2>3. o.byURI = put /\ o.order = list /\ o.owner = m.owner /\ o.reg = Put(m.reg, r, Fresh(draft, no))
        /\ o.rootURI = uri /\ Shaped(o)
    BY <2>2 DEF Shaped
  <2>4. QED
    BY <2>3 DEF list, put
<1> HIDE DEF o
<1>6. /\ DOMAIN o.byURI = DOMAIN m.byURI \cup {uri} /\ o.byURI[uri] = r
      /\ \A u \in DOMAIN m.byURI : u # uri => o.byURI[u] = m.byURI[u]
      /\ DOMAIN o.reg = DOMAIN m.reg \cup {r}
  BY <1>5 DEF Put
<1>7. Listed(o)
  <2>1. CASE uri \in DOMAIN m.byURI
    <3>1. o.order = m.order /\ DOMAIN o.byURI = DOMAIN m.byURI
      BY <1>5, <1>6, <2>1
    <3>2. QED
      BY <1>3, <3>1 DEF Listed
  <2>2. CASE uri \notin DOMAIN m.byURI
    BY <1>3, <1>5, <1>6, <2>2, Appended
  <2>3. QED
    BY <2>1, <2>2
<1>8. MapOK(world, o) /\ Unwalked(world, o, d)
  <2>1. UrisOK(o)
    BY <1>1, <1>3, <1>6 DEF UrisOK
  <2>2. QED
    BY <1>1, <1>5, <1>6, <1>7, <2>1, Registered DEF Unwalked
<1>9. Decided(world, o, l)
  <2> SUFFICES ASSUME NEW u \in DOMAIN o.byURI
               PROVE  \E a \in Answering(world, o, l, u) : Same(world, o.byURI[u], a)
    BY DEF Decided
  <2>1. CASE u # uri
    <3>1. Claims(o, u) = Claims(m, u)
      BY <1>1, <1>6, <2>1 DEF Claims
    <3>2. ~Owned(world, m, u) /\ ~Owned(world, o, u)
      <4>1. \A x \in DOMAIN m.reg : x.root # Root
        BY <1>1
      <4>2. [uri |-> u, root |-> RootOf(world)].root = Root
        BY <1>1
      <4>3. QED
        BY <1>5, <2>1, <4>1, <4>2 DEF Owned
    <3>3. Answering(world, o, l, u) = Answering(world, m, l, u)
      <4>1. /\ LastClaim(world, o, l, u) = LastClaim(world, m, l, u)
            /\ FirstClaim(world, o, l, u) = FirstClaim(world, m, l, u)
        BY <3>1 DEF LastClaim, FirstClaim
      <4>2. QED
        BY <3>2, <4>1 DEF Answering
    <3>4. u \in DOMAIN m.byURI /\ o.byURI[u] = m.byURI[u]
      BY <1>6, <2>1
    <3>5. QED
      BY <3>3, <3>4 DEF Decided
  <2>2. CASE u = uri
    <3>1. Same(world, o.byURI[u], r)
      BY <1>6, <2>2 DEF Same
    <3>2. CASE world.policy = "last"
      <4>1. r \in LastClaim(world, o, l, u)
        BY <1>1, <1>6, <2>2 DEF LastClaim, Claims, Preceding, Earlier
      <4>2. QED
        BY <3>1, <3>2, <4>1 DEF Answering, Owned
    <3>3. CASE world.policy # "last"
      <4>1. r = [uri |-> u, root |-> RootOf(world)]
        BY <1>1, <2>2 DEF r
      <4>2. Owned(world, o, u)
        BY <1>5, <1>6, <2>2, <3>3, <4>1 DEF Owned
      <4>3. QED
        BY <3>1, <4>1, <4>2 DEF Answering
    <3>4. QED
      BY <3>2, <3>3
  <2>3. QED
    BY <2>1, <2>2
<1>10. Reached(world, o, l, old, d, 0) /\ RootKnown(world, o)
  <2>1. r = [uri |-> o.rootURI, root |-> RootOf(world)] /\ world.docs[d][1] = r.root
    BY <1>1, <1>5 DEF r, RootOf
  <2>2. QED
    BY <1>6, <2>1 DEF Reached, Preceding, RootKnown
<1>11. Progress(world, o, l, old, d, 0, uri)
  BY <1>5, <1>9, <1>10 DEF Progress
<1>12. Progress(world, q, l, old, d, Len(world.docs[d]), uri)
  BY <1>1, <1>2, <1>6, <1>8, <1>11, WalkDecides
<1>13. QED
  BY <1>1, <1>12, ProgressEnds DEF Progress

(* After a walk every resource is of a document that was met. *)
LEMMA WalkedPlaced ==
  ASSUME WorldOK(world), NEW T, NEW l \in Seq(T), NEW m, NEW old, NEW d, NEW uri,
         Walked(world, m, l, old, d, uri),
         IsMet(world, l, d)
  PROVE  Placed(world, m, l)
<1> DEFINE n == Len(world.seeds) + 1
           k == Len(l)
           met == Met(world, l)
<1>1. n \in Nat /\ k \in Nat
  <2> DEFINE C == [uri : Path, doc : DOMAIN world.docs \ {world.doc}]
  <2>1. world.seeds \in Seq(C)
    BY DEF WorldOK
  <2> HIDE DEF C
  <2>2. Len(world.seeds) \in Nat
    BY ONLY <2>1
  <2>3. QED
    BY <2>2
<1>2. DOMAIN met = 1 .. n + k
  BY DEF Met
<1> HIDE DEF n, k, met
<1>3. \A j \in DOMAIN met : \A i \in 1 .. j - 1 : i \in DOMAIN met
  BY ONLY <1>1, <1>2
<1>4. ASSUME NEW e, DocEarlier(world, l, e, d) PROVE \E j \in DOMAIN met : met[j] = e
  BY <1>3, <1>4 DEF DocEarlier, met
<1>5. QED
  BY <1>4 DEF Walked, Placed, IsMet, met

(* What a fetch leaves decided, and the map as it was kept. *)
LEMMA ResolutionsDecide ==
  ASSUME WorldOK(world), MapOK(world, rm), Fetching(world, rm, loads),
         Decided(world, rm, loads), Placed(world, rm, loads),
         NEW base \in Path, NEW keywords, NEW ref \in RefTo(keywords), NEW stack, NEW draft \in Draft,
         NEW got \in Resolutions(base, ref, stack, draft)
  PROVE  /\ Decided(world, got.rm, got.loads) /\ Placed(world, got.rm, got.loads)
         /\ RootKnown(world, rm) => RootKnown(world, got.rm)
<1> DEFINE uri == Resolved(base, ref.uri)
           lazy == uri \o ref.frag \in stack
           absent == ~lazy /\ uri \notin DOMAIN rm.byURI /\ uri \in DOMAIN world.remote
           inherited == Drafted(S(world.docs[world.remote[uri]][1]), draft)
           walked == WalkDocument(rm, world.remote[uri], uri, inherited)
<1>1. uri \in Path
  BY ResolvedPath DEF RefTo
<1>2. PICK up \in {TRUE} \cup (IF absent /\ faults > 0 THEN {FALSE} ELSE {}) :
        got = Resolution(IF absent /\ up THEN walked ELSE rm, uri, ref, lazy, absent /\ up, up)
  BY DEF Resolutions
<1> DEFINE m == IF absent /\ up THEN walked ELSE rm
           list == IF absent /\ up THEN Append(loads, uri) ELSE loads
<1>3. got.rm = Kept(m) /\ got.loads = list
  BY <1>2 DEF Resolution
<1>4. /\ MapOK(world, m) /\ Decided(world, m, list) /\ Placed(world, m, list)
      /\ RootKnown(world, rm) => RootKnown(world, m)
  <2>1. CASE absent /\ up
    <3> DEFINE d == world.remote[uri]
               T == DOMAIN rm.byURI \cup {uri}
               old == DOMAIN rm.reg
    <3>1. uri \in DOMAIN world.remote /\ uri \notin DOMAIN rm.byURI /\ m = walked /\ list = Append(loads, uri)
      BY <2>1
    <3>2. d \in DOMAIN world.docs /\ d # world.doc
      BY <3>1 DEF WorldOK
    <3>3. inherited \in Draft
      BY <3>2, Roots, DraftedIn
    <3>4. Unwalked(world, rm, d)
      BY <3>1 DEF Fetching
    <3> HIDE DEF inherited
    <3>5. walked = WalkDocument(rm, d, uri, inherited)
      OBVIOUS
    <3> HIDE DEF uri, m, list, walked
    <3>6. loads \in Seq(T) /\ uri \in T
      BY DEF Fetching
    <3> HIDE DEF T
    <3>7. list \in Seq(T)
      BY <3>1, <3>6
    <3>8. Preceding(world, rm, list, d) /\ Decided(world, rm, list) /\ IsMet(world, list, d)
      BY <3>1, <3>6, FetchedLast
    <3> HIDE DEF d, old
    <3>9. Walked(world, m, list, old, d, rm.rootURI) /\ old \subseteq DOMAIN m.reg
      BY <1>1, <3>1, <3>2, <3>3, <3>4, <3>5, <3>8, DocumentDecides DEF old
    <3>10. MapOK(world, m)
      BY <1>1, <3>1, <3>2, <3>3, <3>4, <3>5, DocumentWalked
    <3>11. Placed(world, m, list)
      BY <3>7, <3>8, <3>9, WalkedPlaced
    <3>12. RootKnown(world, rm) => RootKnown(world, m)
      BY <3>9 DEF RootKnown, Walked, old
    <3>13. QED
      BY <3>9, <3>10, <3>11, <3>12 DEF Walked
  <2>2. CASE ~(absent /\ up)
    BY <2>2
  <2>3. QED
    BY <2>1, <2>2
<1> HIDE DEF m, list
<1>5. SameMap(m, got.rm)
  BY <1>3, <1>4, KeptFacts DEF SameMap
<1>6. QED
  BY <1>3, <1>4, <1>5, SameMapDecides

-----------------------------------------------------------------------------
(* No walk begins again                                                      *)

(* Calls that are made when the documents are walked walk none. *)
LEMMA OverWhenPushed ==
  ASSUME RRunning, WalksOver(todo), Pushing, NEW p, p = todo'
  PROVE  WalksOver(p)
<1>1. PICK new \in Seq(Calls(world)) : Then(new) /\ \A i \in DOMAIN new : new[i].call \notin {"seed", "walk"}
  BY DEF Pushing
<1>2. PushedOn(p, new, todo)
  BY <1>1, ThenPushes
<1>3. \A y \in DOMAIN p : (\E i \in DOMAIN new : p[y] = new[i]) \/ (\E x \in DOMAIN todo : p[y] = todo[x])
  BY <1>2, StillCalled
<1>4. QED
  BY <1>1, <1>3 DEF WalksOver

(* Nor do those that an error leaves. *)
LEMMA OverWhenThrown ==
  ASSUME RRunning, WalksOver(todo), Throw, NEW p, p = todo'
  PROVE  WalksOver(p)
<1>1. CASE Catches = {}
  <2>1. p = << >>
    BY <1>1 DEF Throw
  <2>2. QED
    BY <2>1 DEF WalksOver
<1>2. CASE Catches # {}
  <2>1. todo \in Seq(Calls(world)) /\ Len(todo) \in Nat
    BY FirstCall DEF RRunning
  <2>2. \A i \in Catches : i \in 1 .. Len(todo)
    BY <2>1 DEF Catches
  <2> DEFINE i == CHOOSE k \in Catches : \A j \in Catches : k <= j
  <2>3. i \in 1 .. Len(todo)
    <3>1. Catches \subseteq Nat
      BY <2>1, <2>2
    <3>2. \E k \in Catches : \A j \in Catches : k <= j
      BY <1>2, <3>1, LeastNat
    <3>3. QED
      BY <2>2, <3>2
  <2>4. p = SubSeq(todo, i, Len(todo))
    BY <1>2 DEF Throw
  <2> HIDE DEF i
  <2>5. \A y \in DOMAIN p : i + y - 1 \in DOMAIN todo /\ p[y] = todo[i + y - 1]
    BY ONLY <2>1, <2>3, <2>4
  <2>6. QED
    BY <2>5 DEF WalksOver
<1>3. QED
  BY <1>1, <1>2

(* No other step walks a document of those that were there from the start. *)
LEMMA OverForGood ==
  ASSUME RRunning, Step, WalksOver(todo), NEW p, p = todo'
  PROVE  WalksOver(p)
<1>1. Running /\ 1 \in DOMAIN todo /\ Call = todo[1]
  BY FirstCall DEF RRunning
<1>2. ~WalkSeed /\ ~WalkRoot
  BY <1>1 DEF WalksOver, WalkSeed, WalkRoot, At, Call
<1>3. CASE Then(<< >>)
  <2> DEFINE none == << >>
  <2>1. /\ none \in Seq(Calls(world)) /\ Then(none)
        /\ \A i \in DOMAIN none : none[i].call \notin {"seed", "walk"}
    BY <1>3
  <2> HIDE DEF none
  <2>2. Pushing
    BY <2>1 DEF Pushing
  <2>3. QED
    BY <2>2, OverWhenPushed
<1>4. CASE Throw
  BY <1>4, OverWhenThrown
<1>5. CASE BindNode
  <2>1. CASE Throw
    BY <2>1, OverWhenThrown
  <2>2. ASSUME NEW new \in Seq(Calls(world)), Then(new),
               \A i \in DOMAIN new : new[i].call \in {"bind", "bindref"}
        PROVE  WalksOver(p)
    BY <2>2, OverWhenPushed DEF Pushing
  <2>3. QED
    BY <1>1, <1>5, <2>1, <2>2, BindsNext
<1>6. CASE BindReference \/ Vocabularies
  <2>1. Throw \/ Then(<< >>)
    BY <1>6 DEF BindReference, Vocabularies
  <2>2. QED
    BY <1>3, <1>4, <2>1
<1>7. CASE EnterNode
  <2>1. CASE Call.key \in DOMAIN cache \/ InFlight(Call.key)
    <3>1. Then(<< >>)
      BY <1>7, <2>1 DEF EnterNode
    <3>2. QED
      BY <1>3, <3>1
  <2>2. CASE ~(Call.key \in DOMAIN cache \/ InFlight(Call.key))
    <3>1. PICK pro \in PromoteCall(world), new \in Seq(Calls(world)) : Started(new, pro) /\ Then(new)
      BY <1>1, <1>7, <2>2, EnterStarts
    <3>2. \A i \in DOMAIN new : new[i].call \in {"resolve", "enter", "promote"}
      <4>1. pro.call = "promote"
        BY DEF PromoteCall
      <4>2. \A i \in DOMAIN new : i \in 1 .. Len(new) - 1 \/ new[i] = pro
        BY <3>1 DEF Started
      <4>3. QED
        BY <3>1, <4>1, <4>2 DEF Started
    <3>3. Pushing
      BY <3>1, <3>2 DEF Pushing
    <3>4. QED
      BY <3>3, OverWhenPushed
  <2>3. QED
    BY <2>1, <2>2
<1>8. CASE ResolveReference \/ Promote \/ SettleTarget
  <2>1. Throw \/ Then(<< >>)
    BY <1>8 DEF ResolveReference, Promote, SettleTarget
  <2>2. QED
    BY <1>3, <1>4, <2>1
<1>9. CASE Round
  <2>1. p = << >> \/ Rounding(p)
    BY <1>9, RoundReady
  <2>2. CASE p = << >>
    BY <2>2 DEF WalksOver
  <2>3. CASE Rounding(p)
    <3>1. PICK n \in Nat :
            /\ DOMAIN p = 1 .. n + 2 /\ \A i \in 1 .. n : p[i].call = "targets"
            /\ p[n + 1].call = "scan" /\ p[n + 2].call = "round"
      BY <2>3 DEF Rounding
    <3>2. \A i \in DOMAIN p : i \in 1 .. n \/ i = n + 1 \/ i = n + 2
      BY <3>1
    <3>3. QED
      BY <3>1, <3>2 DEF WalksOver
  <2>4. QED
    BY <2>1, <2>2, <2>3
<1>10. CASE BuildTargets \/ Scan \/ ScanResource
  <2>1. Pushing
    BY <1>10, BuildTargetsReady, ScanReady, ScanResourceReady
  <2>2. QED
    BY <2>1, OverWhenPushed
<1>11. QED
  BY <1>2, <1>5, <1>6, <1>7, <1>8, <1>9, <1>10 DEF Step

\* What the map is when the documents are walked.
Mapped(w, m, l) == RootKnown(w, m) /\ Decided(w, m, l) /\ Placed(w, m, l)

(* A reference is resolved, which may fetch a document. *)
LEMMA LearnDecides ==
  ASSUME Running, Mapped(world, rm, loads),
         NEW base \in Path, NEW stack, NEW draft \in Draft, NEW keywords, NEW ref \in RefTo(keywords),
         NEW got \in Resolutions(base, ref, stack, draft), Learn(got), NEW m, m = rm', NEW l, l = loads'
  PROVE  Mapped(world, m, l)
<1>1. WorldOK(world) /\ MapOK(world, rm) /\ Fetching(world, rm, loads)
  BY DEF Running, BInv
<1>2. m = got.rm /\ l = got.loads
  BY DEF Learn
<1>3. Decided(world, rm, loads) /\ Placed(world, rm, loads) /\ RootKnown(world, rm)
  BY DEF Mapped
<1>4. /\ Decided(world, got.rm, got.loads) /\ Placed(world, got.rm, got.loads)
      /\ RootKnown(world, rm) => RootKnown(world, got.rm)
  BY <1>1, <1>3, ResolutionsDecide
<1>5. QED
  BY <1>2, <1>3, <1>4 DEF Mapped

(* The steps that follow the walks. *)
LEMMA OtherSteps ==
  ASSUME RRunning, DInv, Step, Call.call \notin {"seed", "walk"}
  PROVE  DInv'
<1>1. /\ Running /\ 1 \in DOMAIN todo /\ Call = todo[1] /\ outcome = "running" /\ UNCHANGED given
      /\ WorldOK(world) /\ MapOK(world, rm) /\ Fetching(world, rm, loads)
  BY FirstCall DEF RRunning, Running, BInv
<1>2. ~Seeding(world, rm, todo)
  <2> SUFFICES ASSUME NEW k \in 0 .. Len(world.seeds),
                      \A x \in 1 .. Len(world.seeds) - k : todo[x] = Seed(world.seeds[k + x]),
                      todo[Len(world.seeds) - k + 1] = Just("walk")
               PROVE  FALSE
    BY DEF Seeding, Lined
  <2> DEFINE n == Len(world.seeds) - k
  <2>1. n \in Nat
    <3> DEFINE C == [uri : Path, doc : DOMAIN world.docs \ {world.doc}]
    <3>1. world.seeds \in Seq(C)
      BY <1>1 DEF WorldOK
    <3> HIDE DEF C
    <3>2. Len(world.seeds) \in Nat
      BY ONLY <3>1
    <3>3. QED
      BY <3>2
  <2>2. (\A x \in 1 .. n : todo[x].call = "seed") /\ todo[n + 1].call = "walk"
    <3>1. (\A x \in 1 .. n : todo[x] = Seed(world.seeds[k + x])) /\ todo[n + 1] = Just("walk")
      OBVIOUS
    <3> HIDE DEF n
    <3>2. (\A s : Seed(s).call = "seed") /\ Just("walk").call = "walk"
      BY DEF Seed, Just
    <3>3. QED
      BY <3>1, <3>2, Zenon
  <2> HIDE DEF n
  <2>3. n = 0 \/ 1 \in 1 .. n
    BY <2>1
  <2>4. QED
    BY <1>1, <2>2, <2>3
<1>3. WalksOver(todo) /\ RootKnown(world, rm) /\ Decided(world, rm, loads) /\ Placed(world, rm, loads)
  BY <1>1, <1>2 DEF DInv, Deciding, Seeded
<1> DEFINE p == todo'
           m == rm'
           l == loads'
<1>4. WalksOver(p)
  BY <1>3, OverForGood
<1>5. Mapped(world, rm, loads)
  BY <1>3 DEF Mapped
<1>6. UNCHANGED << rm, loads >> => Mapped(world, m, l)
  BY <1>5
<1>7. Mapped(world, m, l)
  <2>1. CASE BindReference
    <3>1. Call \in BindRefCall
      BY <1>1, <2>1, FirstCall, CallKinds DEF BindReference, At, Call
    <3>2. Call.base \in Path /\ Call.ref \in RefTo({"$ref", "$dynamicRef", "$recursiveRef"})
             /\ Call.draft \in Draft
      BY <3>1 DEF BindRefCall, KeywordRef
    <3>3. \/ UNCHANGED << rm, loads >>
          \/ \E got \in Resolutions(Call.base, Call.ref, Call.stack, Call.draft) : Learn(got)
      BY <2>1 DEF BindReference
    <3>4. QED
      BY <1>1, <1>5, <1>6, <3>2, <3>3, LearnDecides
  <2>2. CASE Vocabularies
    <3>1. << >> \in Path /\ world.meta \in RefTo({"$schema"}) /\ RootDraft \in Draft
      BY <1>1, RootTyped DEF WorldOK, Path
    <3>2. \/ UNCHANGED << rm, loads >>
          \/ \E got \in Resolutions(<< >>, world.meta, {}, RootDraft) : Learn(got)
      BY <2>2 DEF Vocabularies
    <3>3. QED
      BY <1>1, <1>5, <1>6, <3>1, <3>2, LearnDecides
  <2>3. CASE ResolveReference
    <3>1. Call \in ResolveCall
      BY <1>1, <2>3, FirstCall, CallKinds DEF ResolveReference, At, Call
    <3> DEFINE base == IF Call.base = << >> THEN RootURI ELSE Call.base
    <3>2. /\ base \in Path /\ Call.ref \in RefTo({"$ref", "$dynamicRef", "$recursiveRef"})
          /\ Call.draft \in Draft
      BY <1>1, <3>1, RootTyped DEF ResolveCall, KeywordRef
    <3>3. UNCHANGED << rm, loads >> \/ \E got \in Resolutions(base, Call.ref, {}, Call.draft) : Learn(got)
      BY <2>3 DEF ResolveReference
    <3> HIDE DEF base
    <3>4. QED
      BY <1>1, <1>5, <1>6, <3>2, <3>3, LearnDecides
  <2>4. CASE BindNode \/ EnterNode \/ Promote \/ Round \/ BuildTargets \/ Scan \/ ScanResource \/ SettleTarget
    <3>1. UNCHANGED << rm, loads >>
      BY <2>4 DEF BindNode, EnterNode, Promote, Round, BuildTargets, Scan, ScanResource, SettleTarget
    <3>2. QED
      BY <1>6, <3>1
  <2>5. ~WalkSeed /\ ~WalkRoot
    BY DEF WalkSeed, WalkRoot, At, Call
  <2>6. QED
    BY <2>1, <2>2, <2>3, <2>4, <2>5 DEF Step
<1>8. \A o : Deciding(world, m, l, p, o)
  <2> HIDE DEF m, l, p
  <2>1. QED
    BY <1>4, <1>7 DEF Deciding, Seeded, Mapped
<1>9. QED
  BY <1>1, <1>8 DEF DInv, given

-----------------------------------------------------------------------------
(* The walks, one after the other                                            *)

(* How many registered documents there are, and what they are. *)
LEMMA SeedsTyped ==
  ASSUME WorldOK(world)
  PROVE  /\ Len(world.seeds) \in Nat /\ DOMAIN world.seeds = 1 .. Len(world.seeds)
         /\ \A i \in DOMAIN world.seeds : world.seeds[i].doc \in DOMAIN world.docs \ {world.doc}
<1> DEFINE C == [uri : Path, doc : DOMAIN world.docs \ {world.doc}]
<1>1. world.seeds \in Seq(C) /\ \A x \in C : x.doc \in DOMAIN world.docs \ {world.doc}
  BY DEF WorldOK
<1> HIDE DEF C
<1>2. QED
  BY <1>1

(* With the document of a walk gone, the next is the first. *)
LEMMA LinedPops ==
  ASSUME NEW w, Len(w.seeds) \in Nat, NEW k \in 0 .. Len(w.seeds), k # Len(w.seeds),
         NEW t, Lined(w, t, k), NEW p, PushedOn(p, << >>, t)
  PROVE  Lined(w, p, k + 1)
<1> DEFINE n == Len(w.seeds)
           none == << >>
           b == n - k
           L == Len(t)
<1>1. /\ b \in Nat /\ b > 0 /\ n - (k + 1) = b - 1 /\ n - (k + 1) + 1 = b /\ n \in Nat /\ k \in Nat
  OBVIOUS
<1>2. /\ b + 1 \in DOMAIN t /\ t[b + 1] = Just("walk")
      /\ \A x \in 1 .. b : t[x] = Seed(w.seeds[k + x])
      /\ \A x \in DOMAIN t : x > b + 1 => t[x].call \notin {"seed", "walk"}
  BY DEF Lined
<1>3. /\ DOMAIN t = 1 .. L /\ L \in Nat /\ DOMAIN p = 1 .. L - 1
      /\ \A j \in 2 .. L : p[j - 1] = t[j]
  <2>1. Len(none) = 0
    OBVIOUS
  <2>2. PushedOn(p, none, t)
    OBVIOUS
  <2> HIDE DEF none
  <2>3. /\ DOMAIN t = 1 .. L /\ L \in Nat /\ DOMAIN p = 1 .. Len(p) /\ Len(p) = Len(none) + L - 1
        /\ \A j \in 2 .. L : p[Len(none) + j - 1] = t[j]
    BY <2>2 DEF PushedOn
  <2> HIDE DEF L
  <2>4. QED
    BY <2>1, <2>3
<1> HIDE DEF n, none, b, L
<1>4. \A x \in DOMAIN p : x + 1 \in 2 .. L /\ x + 1 - 1 = x /\ x + 1 \in DOMAIN t /\ x \in Nat
  BY <1>3
<1>5. \A x \in DOMAIN p : p[x] = t[x + 1]
  BY <1>3, <1>4
<1>6. b \in DOMAIN p /\ p[b] = Just("walk")
  <2>1. b \in DOMAIN p
    BY <1>1, <1>2, <1>3
  <2>2. QED
    BY <1>2, <1>5, <2>1
<1>7. ASSUME NEW x \in 1 .. b - 1 PROVE p[x] = Seed(w.seeds[k + 1 + x])
  <2>1. x \in DOMAIN p /\ x + 1 \in 1 .. b /\ k + (x + 1) = k + 1 + x
    BY <1>1, <1>2, <1>3
  <2>2. p[x] = t[x + 1] /\ t[x + 1] = Seed(w.seeds[k + (x + 1)])
    BY <1>2, <1>5, <2>1
  <2>3. QED
    BY <2>1, <2>2
<1>8. ASSUME NEW x \in DOMAIN p, x > b PROVE p[x].call \notin {"seed", "walk"}
  <2>1. x + 1 \in DOMAIN t /\ x + 1 > b + 1
    BY <1>1, <1>4, <1>8
  <2>2. QED
    BY <1>2, <1>5, <2>1
<1>9. QED
  BY <1>1, <1>6, <1>7, <1>8 DEF Lined, n

(* With the schema's own walk gone there is none. *)
LEMMA LinedEnds ==
  ASSUME NEW w, Len(w.seeds) \in Nat, NEW t, Lined(w, t, Len(w.seeds)), NEW p, PushedOn(p, << >>, t)
  PROVE  WalksOver(p)
<1> DEFINE none == << >>
<1>1. \A x \in DOMAIN t : x > 1 => t[x].call \notin {"seed", "walk"}
  <2>1. Len(w.seeds) - Len(w.seeds) + 1 = 1
    OBVIOUS
  <2>2. QED
    BY <2>1 DEF Lined
<1>2. PushedOn(p, none, t) /\ \A i \in DOMAIN none : FALSE
  OBVIOUS
<1> HIDE DEF none
<1>3. DOMAIN t = 1 .. Len(t) /\ Len(t) \in Nat
  BY <1>2 DEF PushedOn
<1>4. \A y \in DOMAIN p : \E x \in DOMAIN t : x # 1 /\ p[y] = t[x]
  BY <1>2, StillCalled
<1>5. QED
  BY <1>1, <1>3, <1>4 DEF WalksOver

(* Which walk is the next. *)
LEMMA NextWalk ==
  ASSUME Len(world.seeds) \in Nat, NEW k \in 0 .. Len(world.seeds), NEW t, Lined(world, t, k)
  PROVE  IF k = Len(world.seeds) THEN t[1] = Just("walk") /\ t[1].call = "walk"
         ELSE t[1] = Seed(world.seeds[k + 1]) /\ t[1].call = "seed"
<1> DEFINE n == Len(world.seeds) - k
<1>1. n \in Nat /\ (k = Len(world.seeds) <=> n = 0)
  OBVIOUS
<1>2. t[n + 1] = Just("walk") /\ \A x \in 1 .. n : t[x] = Seed(world.seeds[k + x])
  BY DEF Lined
<1> HIDE DEF n
<1>3. IF n = 0 THEN t[1] = Just("walk") ELSE t[1] = Seed(world.seeds[k + 1])
  BY <1>1, <1>2
<1>4. (\A s : Seed(s).call = "seed") /\ Just("walk").call = "walk"
  BY DEF Seed, Just
<1>5. QED
  BY <1>1, <1>3, <1>4

(* A walk is done, or its error is returned by Compile. *)
LEMMA WalksEnd ==
  ASSUME RRunning, Call.call \in {"seed", "walk"}, NEW m, Walks(m), NEW p, p = todo'
  PROVE  \/ p = << >> /\ outcome' = "error"
         \/ PushedOn(p, << >>, todo)
<1>1. /\ todo \in Seq(Calls(world)) /\ Call = todo[1] /\ 1 \in DOMAIN todo /\ DOMAIN todo = 1 .. Len(todo)
      /\ Len(todo) \in Nat /\ Arranged(cache, eval, todo, seen)
  BY FirstCall DEF RRunning, Running, RInv, Readying
<1>2. CASE Throw
  <2>1. ASSUME NEW x \in DOMAIN todo, todo[x].call = "settle" PROVE FALSE
    <3>1. x # 1
      BY <1>1, <2>1
    <3>2. 1 \in 1 .. x - 1
      BY <1>1, <3>1
    <3>3. Follows(todo[1], todo[x])
      BY <1>1, <3>2 DEF Arranged, Phased
    <3>4. QED
      BY <1>1, <2>1, <3>3 DEF Follows, Inner
  <2>2. QED
    BY <1>2, <2>1 DEF Throw, Catches
<1>3. CASE Then(<< >>)
  <2> DEFINE none == << >>
  <2>1. none \in Seq(Calls(world)) /\ Then(none)
    BY <1>3
  <2> HIDE DEF none
  <2>2. PushedOn(p, none, todo)
    BY <2>1, ThenPushes
  <2>3. QED
    BY <2>2 DEF none
<1>4. QED
  BY <1>2, <1>3 DEF Walks

(* While a walk is to come, the documents walked so far are the first ones
   registered. *)
LEMMA WalksToCome ==
  ASSUME RRunning, DInv, Call.call \in {"seed", "walk"}
  PROVE  \E k \in 0 .. Len(world.seeds) :
            /\ Lined(world, todo, k) /\ OfSeeds(world, rm, k)
            /\ IF Call.call = "walk" THEN k = Len(world.seeds)
               ELSE k # Len(world.seeds) /\ Call = Seed(world.seeds[k + 1])
<1>1. /\ Running /\ 1 \in DOMAIN todo /\ Call = todo[1] /\ WorldOK(world)
  BY FirstCall DEF RRunning
<1>2. ~WalksOver(todo)
  BY <1>1 DEF WalksOver
<1>3. PICK k \in 0 .. Len(world.seeds) : Lined(world, todo, k) /\ OfSeeds(world, rm, k)
  BY <1>2 DEF DInv, Deciding, Seeded, Seeding
<1>4. IF k = Len(world.seeds) THEN todo[1] = Just("walk") /\ todo[1].call = "walk"
      ELSE todo[1] = Seed(world.seeds[k + 1]) /\ todo[1].call = "seed"
  BY <1>1, <1>3, SeedsTyped, NextWalk
<1>5. QED
  BY <1>1, <1>3, <1>4

(* seedResources walks one registered document. *)
LEMMA WalkSeedDecides ==
  ASSUME RRunning, DInv, WalkSeed
  PROVE  DInv'
<1>1. /\ Running /\ Call.call = "seed" /\ Call \in SeedCall(world) /\ UNCHANGED given
      /\ WorldOK(world) /\ MapOK(world, rm) /\ Fetching(world, rm, loads) /\ Unwalked(world, rm, Call.doc)
  BY FirstCall, CallKinds DEF WalkSeed, At, Call, CallReady, RRunning, Running, BInv
<1>2. Decided(world, rm, loads)
  BY DEF DInv, Deciding
<1>3. PICK k \in 0 .. Len(world.seeds) :
         /\ Lined(world, todo, k) /\ OfSeeds(world, rm, k)
         /\ k # Len(world.seeds) /\ Call = Seed(world.seeds[k + 1])
  BY <1>1, WalksToCome
<1> DEFINE n == Len(world.seeds)
           T == DOMAIN rm.byURI
           d == Call.doc
           draft == "modern"
           old == DOMAIN rm.reg
           q == WalkDocument(rm, d, Call.uri, draft)
           p == todo'
           m == rm'
<1>4. /\ n \in Nat /\ DOMAIN world.seeds = 1 .. n /\ k + 1 \in DOMAIN world.seeds /\ k + 1 - 1 = k
      /\ k + 1 \in 0 .. n /\ d = world.seeds[k + 1].doc
      /\ \A j \in 1 .. k : j \in 1 .. k + 1
  BY <1>1, <1>3, SeedsTyped DEF Seed
<1>5. d \in DOMAIN world.docs /\ d # world.doc /\ Call.uri \in Path /\ draft \in Draft
  BY <1>1 DEF SeedCall, Draft
<1>6. Walks(q) /\ loads' = loads
  BY DEF WalkSeed, Walks
<1>7. loads \in Seq(T)
  BY <1>1 DEF Fetching
<1> HIDE DEF T, d, draft, n
<1>8. InTurn(world, loads)
  BY <1>1, <1>7, SeedsPrecede
<1>9. IsMet(world, loads, d) /\ \A j \in 1 .. k : DocEarlier(world, loads, world.seeds[j].doc, d)
  BY <1>4, <1>8 DEF InTurn
<1>10. Preceding(world, rm, loads, d)
  BY <1>3, <1>9 DEF Preceding, OfSeeds
<1> HIDE DEF old
<1>11. Walked(world, q, loads, old, d, rm.rootURI) /\ MapOK(world, q)
  <2>1. Unwalked(world, rm, d) /\ q = WalkDocument(rm, d, Call.uri, draft) /\ old = DOMAIN rm.reg
    BY <1>1 DEF d, old
  <2> HIDE DEF q
  <2>2. Walked(world, q, loads, old, d, rm.rootURI)
    BY <1>1, <1>2, <1>5, <1>10, <2>1, DocumentDecides
  <2>3. MapOK(world, q)
    BY <1>1, <1>5, <2>1, DocumentWalked
  <2>4. QED
    BY <2>2, <2>3
<1> HIDE DEF q
<1>12. Placed(world, q, loads)
  BY <1>1, <1>7, <1>9, <1>11, WalkedPlaced
<1>13. OfSeeds(world, q, k + 1)
  <2> SUFFICES ASSUME NEW r \in DOMAIN q.reg
               PROVE  \E j \in 1 .. k + 1 : world.seeds[j].doc = world.schema[r.root].doc
    BY DEF OfSeeds
  <2>1. CASE r \in old
    BY <1>3, <1>4, <2>1 DEF OfSeeds, old
  <2>2. CASE r \notin old
    <3>1. k + 1 \in 1 .. k + 1
      OBVIOUS
    <3>2. QED
      BY <1>4, <1>11, <2>2, <3>1 DEF Walked
  <2>3. QED
    BY <2>1, <2>2
<1>14. SameMap(q, m)
  <2>1. m = Kept(q)
    BY <1>6 DEF Walks
  <2> HIDE DEF m
  <2>2. QED
    BY <1>11, <2>1, KeptFacts DEF SameMap
<1>15. (p = << >> /\ outcome' = "error") \/ PushedOn(p, << >>, todo)
  BY <1>1, <1>6, WalksEnd
<1> HIDE DEF m, p
<1>16. Decided(world, m, loads) /\ Placed(world, m, loads) /\ OfSeeds(world, m, k + 1)
  <2>1. Decided(world, m, loads) /\ Placed(world, m, loads)
    BY <1>11, <1>12, <1>14, SameMapDecides DEF Walked
  <2>2. QED
    BY <1>13, <1>14, <2>1 DEF SameMap, OfSeeds
<1>17. Seeding(world, m, p) \/ (p = << >> /\ outcome' = "error")
  <2>1. CASE PushedOn(p, << >>, todo)
    <3>1. Lined(world, p, k + 1)
      BY <1>3, <1>4, <2>1, LinedPops DEF n
    <3>2. QED
      BY <1>4, <1>16, <3>1 DEF Seeding, n
  <2>2. QED
    BY <1>15, <2>1
<1>18. ASSUME NEW o, Seeding(world, m, p) \/ (p = << >> /\ o = "error") PROVE Deciding(world, m, loads, p, o)
  BY <1>16, <1>18 DEF Deciding, Seeded, WalksOver
<1>19. Deciding(world, m, loads, p, outcome')
  BY <1>17, <1>18
<1>20. QED
  BY <1>1, <1>6, <1>19 DEF DInv, given, m, p

(* compile walks the schema itself, which takes its URI. *)
LEMMA WalkRootDecides ==
  ASSUME RRunning, DInv, WalkRoot
  PROVE  DInv'
<1>1. /\ Running /\ Call.call = "walk" /\ UNCHANGED given
      /\ WorldOK(world) /\ MapOK(world, rm) /\ Fetching(world, rm, loads) /\ Unwalked(world, rm, world.doc)
  BY FirstCall DEF WalkRoot, At, Call, CallReady, RRunning, Running, BInv
<1>2. Decided(world, rm, loads)
  BY DEF DInv, Deciding
<1>3. Lined(world, todo, Len(world.seeds)) /\ OfSeeds(world, rm, Len(world.seeds))
  BY <1>1, WalksToCome
<1> DEFINE n == Len(world.seeds)
           T == DOMAIN rm.byURI
           d == world.doc
           old == DOMAIN rm.reg
           q == WalkResource(rm, RootURI, RootDraft)
           p == todo'
           m == rm'
<1>4. /\ n \in Nat /\ DOMAIN world.seeds = 1 .. n
      /\ \A i \in DOMAIN world.seeds : world.seeds[i].doc # d
  BY <1>1, SeedsTyped
<1>5. RootURI \in Path /\ RootDraft \in Draft
  BY <1>1, RootTyped
<1>6. Walks(q) /\ loads' = loads
  BY DEF WalkRoot, Walks
<1>7. loads \in Seq(T)
  BY <1>1 DEF Fetching
<1> HIDE DEF T
<1>8. InTurn(world, loads)
  BY <1>1, <1>7, SeedsPrecede
<1>9. IsMet(world, loads, d) /\ \A j \in 1 .. n : DocEarlier(world, loads, world.seeds[j].doc, d)
  BY <1>4, <1>8 DEF InTurn
<1>10. Preceding(world, rm, loads, d) /\ \A r \in DOMAIN rm.reg : world.schema[r.root].doc # d
  BY <1>3, <1>4, <1>9 DEF Preceding, OfSeeds
<1> HIDE DEF old
<1>11. Walked(world, q, loads, old, d, RootURI) /\ RootKnown(world, q) /\ MapOK(world, q)
  <2>1. q = WalkResource(rm, RootURI, RootDraft) /\ old = DOMAIN rm.reg
    BY DEF old
  <2> HIDE DEF q
  <2>2. Walked(world, q, loads, old, d, RootURI) /\ RootKnown(world, q)
    BY <1>1, <1>2, <1>5, <1>10, <2>1, ResourceDecides
  <2>3. MapOK(world, q)
    BY <1>1, <1>5, <2>1, ResourceWalked
  <2>4. QED
    BY <2>2, <2>3
<1> HIDE DEF q, d
<1>12. Placed(world, q, loads)
  BY <1>1, <1>7, <1>9, <1>11, WalkedPlaced
<1>13. SameMap(q, m)
  <2>1. m = Kept(q)
    BY <1>6 DEF Walks
  <2> HIDE DEF m
  <2>2. QED
    BY <1>11, <2>1, KeptFacts DEF SameMap
<1>14. WalksOver(p)
  <2>1. p = << >> \/ PushedOn(p, << >>, todo)
    BY <1>1, <1>6, WalksEnd
  <2> HIDE DEF p
  <2>2. CASE p = << >>
    BY <2>2 DEF WalksOver
  <2>3. CASE PushedOn(p, << >>, todo)
    BY <1>3, <1>4, <2>3, LinedEnds
  <2>4. QED
    BY <2>1, <2>2, <2>3
<1> HIDE DEF m, p
<1>15. Decided(world, m, loads) /\ Placed(world, m, loads) /\ RootKnown(world, m)
  BY <1>11, <1>12, <1>13, SameMapDecides DEF Walked
<1>16. \A o : Deciding(world, m, loads, p, o)
  BY <1>14, <1>15 DEF Deciding, Seeded
<1>17. QED
  BY <1>1, <1>6, <1>16 DEF DInv, given, m, p

-----------------------------------------------------------------------------
(* What is decided when Compile returns                                      *)

(* Nothing is decided when Compile is called. *)
LEMMA InitDecides ==
  ASSUME Init
  PROVE  DInv
<1>1. rm = EmptyMap /\ loads = << >> /\ WorldOK(world)
  BY WorldAssumption DEF Init
<1>2. DOMAIN rm.byURI = {} /\ DOMAIN rm.reg = {}
  BY <1>1 DEF EmptyMap, Empty
<1>3. PICK n \in Nat :
         /\ DOMAIN todo = 1 .. n + 5 /\ n = Len(world.seeds) /\ todo[n + 1] = Just("walk")
         /\ \A k \in 1 .. n : todo[k] = Seed(world.seeds[k])
         /\ todo[n + 2].call = "bind" /\ todo[n + 3].call = "vocabularies"
         /\ todo[n + 4].call = "enter" /\ todo[n + 5].call = "round"
  BY FirstInOrder
<1>4. Lined(world, todo, 0)
  <2>1. n - 0 = n /\ n + 1 \in DOMAIN todo /\ \A x \in 1 .. n : 0 + x = x
    BY <1>3
  <2>2. \A x \in DOMAIN todo : x > n + 1 => x = n + 2 \/ x = n + 3 \/ x = n + 4 \/ x = n + 5
    BY <1>3
  <2>3. \A x \in DOMAIN todo : x > n + 1 => todo[x].call \notin {"seed", "walk"}
    BY <1>3, <2>2
  <2>4. QED
    BY <1>3, <2>1, <2>3 DEF Lined
<1>5. Decided(world, rm, loads) /\ Placed(world, rm, loads) /\ OfSeeds(world, rm, 0)
  BY <1>2 DEF Decided, Placed, OfSeeds
<1>6. 0 \in 0 .. Len(world.seeds)
  BY <1>3
<1>7. QED
  BY <1>4, <1>5, <1>6 DEF DInv, Deciding, Seeding

(* Every step leaves what is decided right. *)
LEMMA NextDecides ==
  ASSUME BInv, RInv, DInv, [Next]_vars
  PROVE  DInv'
<1>1. CASE UNCHANGED vars
  <2>1. world' = world /\ rm' = rm /\ loads' = loads /\ todo' = todo /\ outcome' = outcome
    BY <1>1 DEF vars, given
  <2>2. QED
    BY <2>1 DEF DInv
<1>2. CASE Step
  <2>1. todo # << >> /\ UNCHANGED given
    BY <1>2 DEF Step, At, Walks, WalkSeed, WalkRoot, BindNode, BindReference, Vocabularies, EnterNode,
                ResolveReference, Promote, Round, BuildTargets, Scan, ScanResource, SettleTarget
  <2>2. RRunning
    BY <2>1 DEF Running, RRunning
  <2>3. CASE Call.call \notin {"seed", "walk"}
    BY <1>2, <2>2, <2>3, OtherSteps
  <2>4. CASE Call.call = "seed"
    <3>1. WalkSeed
      BY <1>2, <2>4 DEF Step, At, Call, WalkRoot, BindNode, BindReference, Vocabularies, EnterNode,
                ResolveReference, Promote, Round, BuildTargets, Scan, ScanResource, SettleTarget
    <3>2. QED
      BY <2>2, <3>1, WalkSeedDecides
  <2>5. CASE Call.call = "walk"
    <3>1. WalkRoot
      BY <1>2, <2>5 DEF Step, At, Call, WalkSeed, BindNode, BindReference, Vocabularies, EnterNode,
                ResolveReference, Promote, Round, BuildTargets, Scan, ScanResource, SettleTarget
    <3>2. QED
      BY <2>2, <3>1, WalkRootDecides
  <2>6. QED
    BY <2>3, <2>4, <2>5
<1>3. CASE Returned
  BY <1>1, <1>3 DEF Returned
<1>4. QED
  BY <1>1, <1>2, <1>3 DEF Next

(* The three invariants hold together. *)
LEMMA ThreeInvariants == Spec => [](BInv /\ RInv /\ DInv)
<1>1. Init => BInv /\ RInv /\ DInv
  BY InitKeeps, InitReady, InitDecides
<1>2. (BInv /\ RInv /\ DInv) /\ [Next]_vars => (BInv /\ RInv /\ DInv)'
  BY NextKeeps, NextReady, NextDecides
<1>3. QED
  BY <1>1, <1>2, PTL DEF Spec

(* Whatever was registered, nested or fetched, and in whichever order, a compiled
   schema has each URI stand for the schema the collision policy names: under
   RefCollisionLastWins the last that claims it; under the others the first,
   unless it is the URI of the schema compiled, which keeps its own
   (resourceMap.add, buildResourceMap). *)
THEOREM PolicyAlone == Spec => []PolicyDecides
<1>1. BInv /\ DInv => PolicyDecides
  <2> SUFFICES ASSUME BInv, DInv, outcome = "compiled", NEW u \in DOMAIN rm.byURI
               PROVE  \E r \in Entitled(world, rm, loads, u) :
                         S(rm.byURI[u].root).content = S(r.root).content
    BY DEF PolicyDecides, Compiled
  <2>1. todo = << >>
    BY DEF BInv, EndOK
  <2>2. ~Seeding(world, rm, todo)
    BY <2>1 DEF Seeding, Lined
  <2>3. RootKnown(world, rm) /\ Decided(world, rm, loads)
    BY <2>2 DEF DInv, Deciding, Seeded
  <2>4. PICK r \in Answering(world, rm, loads, u) : Same(world, rm.byURI[u], r)
    BY <2>3 DEF Decided
  <2>5. r \in Entitled(world, rm, loads, u)
    <3>1. Owned(world, rm, u) <=> world.policy # "last" /\ u = rm.rootURI
      BY <2>3 DEF Owned, RootKnown
    <3>2. QED
      BY <2>4, <3>1 DEF Answering, Entitled, RootOf
  <2>6. QED
    BY <2>4, <2>5 DEF Same, S
<1>2. QED
  BY <1>1, ThreeInvariants, PTL
=============================================================================
