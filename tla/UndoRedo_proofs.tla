-------------------------- MODULE UndoRedo_proofs --------------------------
(***************************************************************************)
(* Proofs of the safety properties of UndoRedo: that stacks are locked     *)
(* exactly while files hold them, and that an edit of several resources is *)
(* undone in all of them or in none.                                       *)
(*                                                                         *)
(* The operations on the stacks are looked at first, one by one, for what  *)
(* they keep of locks, versions and elements, then the snapshots that the  *)
(* undos and redos that wait have of the stacks.                           *)
(***************************************************************************)
EXTENDS UndoRedo, WellFoundedInduction, FiniteSetTheorems, TLAPS

(***************************************************************************)
(* Numbers, sequences and texts.  The operators of the community modules that*)
(* the model uses are unfolded here, and nowhere else.                     *)
(***************************************************************************)
\* Induction, where the set of what is proved is named.
LEMMA Induction ==
  ASSUME NEW S, 0 \in S, \A n \in Nat : n \in S => n + 1 \in S
  PROVE  Nat \subseteq S
<1> DEFINE T == Nat \ S
<1> DEFINE R == OpToRel(<, Nat)
<1>1. SUFFICES ASSUME T # {} PROVE FALSE
  OBVIOUS
<1>2. IsWellFoundedOn(R, Nat)
  BY Zenon, NatLessThanWellFounded
<1>3. T \subseteq Nat
  OBVIOUS
<1>4. \A y \in Nat, x \in Nat : y < x => <<y, x>> \in R
  BY DEF OpToRel
<1> HIDE DEF R
<1>5. PICK x \in T : \A y \in T : ~ (<<y, x>> \in R)
  BY <1>1, <1>2, <1>3, WFMin
<1>6. x # 0
  OBVIOUS
<1>7. x - 1 \in Nat /\ x - 1 < x /\ x - 1 \notin S
  BY <1>6
<1> QED BY <1>5, <1>7, <1>4

\* A set of numbers up to n has a greatest one, by induction.
LEMMA Greatest ==
  ASSUME NEW n \in Nat, NEW S, S \subseteq 1 .. n, S # {}
  PROVE  Max(S) \in S /\ \A k \in S : k <= Max(S)
<1> DEFINE HasGreatest(m) == \A U : U \subseteq 1 .. m /\ U # {} => \E x \in U : \A y \in U : x >= y
<1> DEFINE I == {m \in Nat : HasGreatest(m)}
<1>1. 0 \in I
  BY 1 .. 0 = {}
<1>2. ASSUME NEW m \in Nat, m \in I
      PROVE  m + 1 \in I
  <2>0. HasGreatest(m)
    BY <1>2
  <2> HIDE DEF HasGreatest
  <2>1. HasGreatest(m + 1)
    <3>1. SUFFICES ASSUME NEW U, U \subseteq 1 .. m + 1, U # {}
                   PROVE  \E x \in U : \A y \in U : x >= y
      BY DEF HasGreatest
    <3>2. CASE m + 1 \in U
      BY <3>1, <3>2
    <3>3. CASE m + 1 \notin U
      <4>1. U \subseteq 1 .. m
        BY <3>1, <3>3
      <4> QED BY <4>1, <3>1, <2>0 DEF HasGreatest
    <3> QED BY <3>2, <3>3
  <2> QED BY <2>1
<1>3. n \in I
  <2> HIDE DEF I
  <2> QED BY <1>1, <1>2, Induction
<1>4. HasGreatest(n)
  BY <1>3
<1>5. \E x \in S : \A y \in S : x >= y
  BY <1>4
<1>6. Max(S) \in S /\ \A y \in S : Max(S) >= y
  BY <1>5 DEF Max
<1> QED BY <1>6

\* Sequences without one of their elements.
LEMMA RemoveAtFacts ==
  ASSUME NEW S, NEW q \in Seq(S), NEW i \in DOMAIN q
  PROVE  /\ RemoveAt(q, i) \in Seq(S)
         /\ Len(RemoveAt(q, i)) = Len(q) - 1
         /\ \A j \in 1 .. Len(q) - 1 : RemoveAt(q, i)[j] = IF j < i THEN q[j] ELSE q[j + 1]
<1> DEFINE a == SubSeq(q, 1, i - 1)
<1> DEFINE b == SubSeq(q, i + 1, Len(q))
<1>1. a \in Seq(S) /\ Len(a) = i - 1 /\ \A j \in 1 .. i - 1 : a[j] = q[j]
  OBVIOUS
<1>2. b \in Seq(S) /\ Len(b) = Len(q) - i /\ \A j \in 1 .. Len(q) - i : b[j] = q[i + j]
  OBVIOUS
<1>3. RemoveAt(q, i) = a \o b
  BY DEF RemoveAt
<1> HIDE DEF a, b
<1>4. /\ a \o b \in Seq(S) /\ Len(a \o b) = Len(q) - 1
      /\ \A j \in 1 .. Len(q) - 1 : (a \o b)[j] = IF j < i THEN a[j] ELSE b[j - (i - 1)]
  BY <1>1, <1>2, SMTT(30)
<1>5. ASSUME NEW j \in 1 .. Len(q) - 1
      PROVE  RemoveAt(q, i)[j] = IF j < i THEN q[j] ELSE q[j + 1]
  <2>1. CASE j < i
    BY <2>1, <1>1, <1>3, <1>4
  <2>2. CASE ~(j < i)
    <3>1. j - (i - 1) \in 1 .. Len(q) - i /\ i + (j - (i - 1)) = j + 1
      BY <2>2
    <3> QED BY <2>2, <3>1, <1>2, <1>3, <1>4
  <2> QED BY <2>1, <2>2
<1> QED BY <1>3, <1>4, <1>5

\* A sequence without its last.
LEMMA FrontFacts ==
  ASSUME NEW S, NEW q \in Seq(S), q # <<>>
  PROVE  /\ Front(q) \in Seq(S) /\ Len(Front(q)) = Len(q) - 1
         /\ \A j \in 1 .. Len(q) - 1 : Front(q)[j] = q[j]
BY DEF Front

\* A text without an edit.
LEMMA WithoutType ==
  ASSUME NEW S, NEW q \in Seq(S), NEW e
  PROVE  Without(q, e) \in Seq(S)
<1> DEFINE Body(F, k) == IF k = 0 THEN <<>>
                         ELSE IF q[k] = e THEN F[k - 1] ELSE Append(F[k - 1], q[k])
<1> DEFINE Good(n, F) == F = [k \in 0 .. n |-> Body(F, k)]
<1> DEFINE I == {n \in Nat : \E F : Good(n, F)}
<1>1. 0 \in I
  <2> DEFINE F == [k \in 0 .. 0 |-> <<>>]
  <2>1. Good(0, F)
    OBVIOUS
  <2> QED BY <2>1
<1>2. ASSUME NEW n \in Nat, n \in I
      PROVE  n + 1 \in I
  <2>1. PICK F : Good(n, F)
    BY <1>2
  <2> DEFINE H == [k \in 0 .. n + 1 |-> Body(F, k)]
  <2>2. \A k \in 0 .. n : F[k] = Body(F, k)
    BY <2>1
  <2>3. \A k \in 0 .. n : H[k] = F[k]
    BY <2>2
  <2>4. ASSUME NEW k \in 0 .. n + 1
        PROVE  Body(H, k) = Body(F, k)
    <3>1. CASE k = 0
      BY <3>1
    <3>2. CASE k # 0
      <4>1. k - 1 \in 0 .. n
        BY <3>2
      <4> HIDE DEF H
      <4>2. H[k - 1] = F[k - 1]
        BY <2>3, <4>1
      <4> QED BY <4>2
    <3> QED BY <3>1, <3>2
  <2>5. H = [k \in 0 .. n + 1 |-> Body(H, k)]
    <3> HIDE DEF Body
    <3> QED BY <2>4
  <2> HIDE DEF H
  <2>6. Good(n + 1, H)
    BY <2>5
  <2> HIDE DEF Good
  <2> QED BY <2>6
<1>3. Len(q) \in I
  <2> HIDE DEF I
  <2> QED BY <1>1, <1>2, Induction
<1> DEFINE kept == CHOOSE F : Good(Len(q), F)
<1>4. Good(Len(q), kept)
  <2> HIDE DEF Good
  <2> QED BY <1>3
<1>5. Without(q, e) = kept[Len(q)]
  BY Zenon DEF Without
<1> HIDE DEF kept
<1>6. \A k \in 0 .. Len(q) : kept[k] = Body(kept, k)
  BY <1>4
<1> DEFINE J == {n \in Nat : n <= Len(q) => kept[n] \in Seq(S)}
<1>7. 0 \in J
  <2>1. 0 \in 0 .. Len(q)
    OBVIOUS
  <2>2. kept[0] = Body(kept, 0)
    BY <1>6, <2>1
  <2>3. kept[0] = <<>>
    BY <2>2
  <2>4. <<>> \in Seq(S)
    OBVIOUS
  <2>5. kept[0] \in Seq(S)
    BY <2>3, <2>4
  <2> HIDE DEF Body
  <2> QED BY <2>5
<1>8. ASSUME NEW n \in Nat, n \in J
      PROVE  n + 1 \in J
  <2>1. SUFFICES ASSUME n + 1 <= Len(q) PROVE kept[n + 1] \in Seq(S)
    OBVIOUS
  <2>2. kept[n] \in Seq(S) /\ q[n + 1] \in S
    BY <1>8, <2>1
  <2>3. kept[n + 1] = Body(kept, n + 1)
    BY <1>6, <2>1
  <2> QED BY <2>2, <2>3
<1>9. Len(q) \in J
  <2> HIDE DEF J
  <2> QED BY <1>7, <1>8, Induction
<1> QED BY <1>5, <1>9

(***************************************************************************)
(* What an operation keeps of the stacks.                                  *)
(***************************************************************************)
\* The two sides of a stack, and the stacks of the elements E.
Sides == {"past", "future"}
StackOver(E) == [past : Seq(E), future : Seq(E), locked : BOOLEAN, versionId : Nat]

\* A service whose elements are E, those of the first n edits.
IsService(s, n, E) ==
  /\ s \in [stacks : [Resource -> Seq(StackOver(E))], editStacks : [Resource -> Nat],
            removed : SUBSET ((1 .. n) \X Resource), invalid : SUBSET (E \X Resource)]
  /\ \A r \in Resource : s.editStacks[r] <= Len(s.stacks[r])

\* w is in q at most once.
OnceIn(q, w) == \A i, j \in DOMAIN q : q[i] = w /\ q[j] = w => i = j

\* p has the elements that stand for several resources at most as often as q.
Fewer(p, q) ==
  \A w : IsWorkspace(w) =>
    /\ w \in ToSet(p) => w \in ToSet(q)
    /\ OnceIn(q, w) => OnceIn(p, w)

\* The stacks of t are locked that those of s are, and no new one is.
SameLocks(s, t) ==
  \A r \in Resource :
    /\ Len(s.stacks[r]) <= Len(t.stacks[r])
    /\ \A k \in 1 .. Len(t.stacks[r]) :
         t.stacks[r][k].locked <=> k <= Len(s.stacks[r]) /\ s.stacks[r][k].locked

\* Versions of stacks only grow, and a stack of the same version is still that of its
\* resource.
Ages(s, t) ==
  \A r \in Resource :
    /\ Len(s.stacks[r]) <= Len(t.stacks[r])
    /\ \A k \in 1 .. Len(s.stacks[r]) :
         /\ s.stacks[r][k].versionId <= t.stacks[r][k].versionId
         /\ s.stacks[r][k].versionId = t.stacks[r][k].versionId /\ s.editStacks[r] = k =>
              t.editStacks[r] = k

\* No stack gets elements that stand for several resources.
Shrinks(s, t) ==
  \A r \in Resource : \A side \in Sides : Fewer(StackOf(t, r)[side], StackOf(s, r)[side])

\* What most operations on the stacks keep.
Keeps(s, t) == SameLocks(s, t) /\ Ages(s, t) /\ Shrinks(s, t)

\* A stack that has another version, and one that has less in it too.
Later(v, u) == v.locked = u.locked /\ v.versionId = u.versionId + 1
Lessened(v, u) == Later(v, u) /\ \A side \in Sides : Fewer(v[side], u[side])

\* Fewer is an order.
LEMMA FewerFacts ==
  /\ \A q : Fewer(q, q)
  /\ \A q : Fewer(<<>>, q)
  /\ \A p, q, o : Fewer(p, q) /\ Fewer(q, o) => Fewer(p, o)
<1>1. \A q : Fewer(q, q)
  BY DEF Fewer
<1>2. ToSet(<<>>) = {} /\ \A w : OnceIn(<<>>, w)
  BY DEF ToSet, OnceIn
<1>3. \A q : Fewer(<<>>, q)
  BY <1>2 DEF Fewer
<1>4. \A p, q, o : Fewer(p, q) /\ Fewer(q, o) => Fewer(p, o)
  BY DEF Fewer
<1> QED BY <1>1, <1>3, <1>4

\* The types of stacks of a service.
LEMMA StackTypes ==
  ASSUME NEW n \in Nat, NEW E, NEW s, IsService(s, n, E), NEW r \in Resource
  PROVE  /\ s.stacks[r] \in Seq(StackOver(E)) /\ Len(s.stacks[r]) \in Nat
         /\ s.editStacks[r] \in 0 .. Len(s.stacks[r])
         /\ StackOf(s, r) \in StackOver(E)
         /\ \A k \in 1 .. Len(s.stacks[r]) : s.stacks[r][k] \in StackOver(E)
         /\ StackOf(s, r) = IF s.editStacks[r] = 0 THEN Missing ELSE s.stacks[r][s.editStacks[r]]
<1>1. /\ s.stacks[r] \in Seq(StackOver(E)) /\ Len(s.stacks[r]) \in Nat
      /\ s.editStacks[r] \in 0 .. Len(s.stacks[r])
  BY DEF IsService
<1>2. \A k \in 1 .. Len(s.stacks[r]) : s.stacks[r][k] \in StackOver(E)
  BY <1>1
<1>3. StackOf(s, r) = IF s.editStacks[r] = 0 THEN Missing ELSE s.stacks[r][s.editStacks[r]]
  BY DEF StackOf, Stack, StackId
<1>4. Missing \in StackOver(E)
  BY DEF Missing, StackOver
<1>5. StackOf(s, r) \in StackOver(E)
  BY <1>1, <1>2, <1>3, <1>4
<1> QED BY <1>1, <1>2, <1>3, <1>5

\* Some stacks of a service have another version, and may be dropped from it.
LEMMA AgesWhenLater ==
  ASSUME NEW n \in Nat, NEW E, NEW s, IsService(s, n, E), NEW t,
         \A r \in Resource :
           /\ Len(t.stacks[r]) = Len(s.stacks[r])
           /\ \A k \in 1 .. Len(s.stacks[r]) :
                \/ Later(t.stacks[r][k], s.stacks[r][k])
                \/ t.stacks[r][k] = s.stacks[r][k] /\ (s.editStacks[r] = k => t.editStacks[r] = k)
  PROVE  SameLocks(s, t) /\ Ages(s, t)
<1>1. SUFFICES ASSUME NEW r \in Resource
               PROVE  /\ Len(s.stacks[r]) <= Len(t.stacks[r])
                      /\ Len(t.stacks[r]) = Len(s.stacks[r])
                      /\ \A k \in 1 .. Len(t.stacks[r]) :
                           /\ k \in 1 .. Len(s.stacks[r])
                           /\ k <= Len(s.stacks[r])
                           /\ t.stacks[r][k].locked = s.stacks[r][k].locked
                           /\ s.stacks[r][k].versionId <= t.stacks[r][k].versionId
                           /\ s.stacks[r][k].versionId = t.stacks[r][k].versionId
                                /\ s.editStacks[r] = k => t.editStacks[r] = k
  BY SMTT(30) DEF SameLocks, Ages
<1>2. /\ Len(s.stacks[r]) \in Nat /\ Len(t.stacks[r]) = Len(s.stacks[r])
      /\ \A k \in 1 .. Len(s.stacks[r]) : s.stacks[r][k].versionId \in Nat
  BY StackTypes DEF StackOver
<1>3. ASSUME NEW k \in 1 .. Len(t.stacks[r])
      PROVE  /\ k \in 1 .. Len(s.stacks[r])
             /\ k <= Len(s.stacks[r])
             /\ t.stacks[r][k].locked = s.stacks[r][k].locked
             /\ s.stacks[r][k].versionId <= t.stacks[r][k].versionId
             /\ s.stacks[r][k].versionId = t.stacks[r][k].versionId
                  /\ s.editStacks[r] = k => t.editStacks[r] = k
  <2>1. k \in 1 .. Len(s.stacks[r])
    BY <1>2
  <2>2. CASE Later(t.stacks[r][k], s.stacks[r][k])
    BY <2>1, <2>2, <1>2 DEF Later
  <2>3. CASE t.stacks[r][k] = s.stacks[r][k] /\ (s.editStacks[r] = k => t.editStacks[r] = k)
    BY <2>1, <2>3, <1>2
  <2> QED BY <2>1, <2>2, <2>3
<1> QED BY <1>2, <1>3

\* Some have less in them.
LEMMA ShrinksWhenLessened ==
  ASSUME NEW n \in Nat, NEW E, NEW s, IsService(s, n, E), NEW t, IsService(t, n, E),
         \A r \in Resource :
           /\ \A k \in 1 .. Len(s.stacks[r]) : \A side \in Sides :
                Fewer(t.stacks[r][k][side], s.stacks[r][k][side])
           /\ t.editStacks[r] \in {s.editStacks[r], 0}
  PROVE  Shrinks(s, t)
<1>4. ASSUME NEW r \in Resource, NEW side \in Sides
      PROVE  Fewer(StackOf(t, r)[side], StackOf(s, r)[side])
  <2>1. /\ StackOf(s, r) = IF s.editStacks[r] = 0 THEN Missing ELSE s.stacks[r][s.editStacks[r]]
        /\ StackOf(t, r) = IF t.editStacks[r] = 0 THEN Missing ELSE t.stacks[r][t.editStacks[r]]
        /\ s.editStacks[r] \in 0 .. Len(s.stacks[r])
    BY StackTypes
  <2>2. CASE t.editStacks[r] = 0
    <3>1. StackOf(t, r)[side] = <<>>
      BY <2>1, <2>2 DEF Missing, Sides
    <3> QED BY <3>1, FewerFacts
  <2>3. CASE t.editStacks[r] # 0
    <3>1. t.editStacks[r] = s.editStacks[r] /\ s.editStacks[r] \in 1 .. Len(s.stacks[r])
      BY <2>1, <2>3
    <3> DEFINE k == s.editStacks[r]
    <3>2. StackOf(s, r) = s.stacks[r][k] /\ StackOf(t, r) = t.stacks[r][k]
      BY <2>1, <2>3, <3>1
    <3>3. Fewer(t.stacks[r][k][side], s.stacks[r][k][side])
      BY <3>1
    <3> HIDE DEF k
    <3> QED BY <3>2, <3>3
  <2> QED BY <2>2, <2>3
<1> QED BY <1>4 DEF Shrinks

\* Two changes are one.
LEMMA KeepsChains ==
  ASSUME NEW n \in Nat, NEW E, NEW s, NEW t, NEW u,
         IsService(s, n, E), IsService(t, n, E), IsService(u, n, E)
  PROVE  /\ SameLocks(s, t) /\ SameLocks(t, u) => SameLocks(s, u)
         /\ Ages(s, t) /\ Ages(t, u) => Ages(s, u)
         /\ Shrinks(s, t) /\ Shrinks(t, u) => Shrinks(s, u)
<1>1. \A r \in Resource : Len(s.stacks[r]) \in Nat /\ Len(t.stacks[r]) \in Nat /\ Len(u.stacks[r]) \in Nat
  BY StackTypes
<1>2. /\ \A r \in Resource : \A k \in 1 .. Len(s.stacks[r]) : s.stacks[r][k].versionId \in Nat
      /\ \A r \in Resource : \A k \in 1 .. Len(t.stacks[r]) : t.stacks[r][k].versionId \in Nat
      /\ \A r \in Resource : \A k \in 1 .. Len(u.stacks[r]) : u.stacks[r][k].versionId \in Nat
  BY StackTypes DEF StackOver
<1>3. SameLocks(s, t) /\ SameLocks(t, u) => SameLocks(s, u)
  BY <1>1, SMTT(30) DEF SameLocks
<1>4. Ages(s, t) /\ Ages(t, u) => Ages(s, u)
  <2>1. SUFFICES ASSUME Ages(s, t), Ages(t, u), NEW r \in Resource
                 PROVE  /\ Len(s.stacks[r]) <= Len(u.stacks[r])
                        /\ \A k \in 1 .. Len(s.stacks[r]) :
                             /\ s.stacks[r][k].versionId <= u.stacks[r][k].versionId
                             /\ s.stacks[r][k].versionId = u.stacks[r][k].versionId
                                  /\ s.editStacks[r] = k => u.editStacks[r] = k
    BY DEF Ages
  <2>2. Len(s.stacks[r]) <= Len(t.stacks[r]) /\ Len(t.stacks[r]) <= Len(u.stacks[r])
    BY <2>1 DEF Ages
  <2>3. ASSUME NEW k \in 1 .. Len(s.stacks[r])
        PROVE  /\ s.stacks[r][k].versionId <= u.stacks[r][k].versionId
               /\ s.stacks[r][k].versionId = u.stacks[r][k].versionId
                    /\ s.editStacks[r] = k => u.editStacks[r] = k
    <3>1. k \in 1 .. Len(t.stacks[r])
      BY <2>2, <1>1
    <3> DEFINE a == s.stacks[r][k].versionId
    <3> DEFINE b == t.stacks[r][k].versionId
    <3> DEFINE c == u.stacks[r][k].versionId
    <3>2. a \in Nat /\ b \in Nat /\ a <= b /\ (a = b /\ s.editStacks[r] = k => t.editStacks[r] = k)
      BY <2>1, <3>1, <1>2 DEF Ages
    <3>3. b <= c /\ (b = c /\ t.editStacks[r] = k => u.editStacks[r] = k)
      BY <2>1, <3>1 DEF Ages
    <3>4. c \in Nat
      BY <3>1, <2>2, <1>1, <1>2
    <3> HIDE DEF a, b, c
    <3>5. a <= c /\ (a = c => a = b /\ b = c)
      BY <3>2, <3>3, <3>4
    <3>6. a <= c /\ (a = c /\ s.editStacks[r] = k => u.editStacks[r] = k)
      BY <3>2, <3>3, <3>5
    <3> QED BY <3>6 DEF a, c
  <2>4. Len(s.stacks[r]) <= Len(u.stacks[r])
    BY <2>2, <1>1
  <2> QED BY <2>3, <2>4
<1>5. Shrinks(s, t) /\ Shrinks(t, u) => Shrinks(s, u)
  BY FewerFacts DEF Shrinks
<1> QED BY <1>3, <1>4, <1>5

\* A service as it was.
LEMMA KeepsItself ==
  ASSUME NEW n \in Nat, NEW E, NEW s, IsService(s, n, E)
  PROVE  Keeps(s, s)
<1>1. \A r \in Resource : \A k \in 1 .. Len(s.stacks[r]) : s.stacks[r][k].versionId \in Nat
  BY StackTypes DEF StackOver
<1>2. \A r \in Resource : Len(s.stacks[r]) \in Nat
  BY StackTypes
<1> QED BY <1>1, <1>2, FewerFacts DEF Keeps, SameLocks, Ages, Shrinks

\* f is a function on S.
IsMap(f, S) == f = [x \in S |-> f[x]]

\* The elements E are of the first n edits.
Numbered(E, n) == \A x \in E : x.of \in 1 .. n

\* Sequences that take their elements that stand for several resources from others.
LEMMA FewerByShift ==
  ASSUME NEW E, NEW p \in Seq(E), NEW q \in Seq(E), NEW d \in Nat,
         \A i \in 1 .. Len(p) : IsWorkspace(p[i]) => i + d \in 1 .. Len(q) /\ q[i + d] = p[i]
  PROVE  Fewer(p, q)
<1>1. SUFFICES ASSUME NEW w, IsWorkspace(w)
               PROVE  /\ w \in ToSet(p) => w \in ToSet(q)
                      /\ OnceIn(q, w) => OnceIn(p, w)
  BY DEF Fewer
<1>2. ASSUME w \in ToSet(p) PROVE w \in ToSet(q)
  <2>1. PICK i \in 1 .. Len(p) : p[i] = w
    BY <1>2 DEF ToSet
  <2>2. i + d \in 1 .. Len(q) /\ q[i + d] = w
    BY <1>1, <2>1
  <2> QED BY <2>2 DEF ToSet
<1>3. ASSUME OnceIn(q, w), NEW i \in DOMAIN p, NEW j \in DOMAIN p, p[i] = w, p[j] = w
      PROVE  i = j
  <2>1. i \in 1 .. Len(p) /\ j \in 1 .. Len(p)
    OBVIOUS
  <2>2. i + d \in DOMAIN q /\ q[i + d] = w /\ j + d \in DOMAIN q /\ q[j + d] = w
    BY <1>1, <1>3, <2>1
  <2>3. i + d = j + d
    BY <2>2, <1>3 DEF OnceIn
  <2> QED BY <2>3, <2>1
<1> QED BY <1>2, <1>3 DEF OnceIn

\* A service whose stacks are changed one by one.
LEMMA StackwiseType ==
  ASSUME NEW n \in Nat, NEW E, NEW s, IsService(s, n, E), NEW u,
         IsMap(u, Resource),
         \A r \in Resource : u[r] \in [1 .. Len(s.stacks[r]) -> StackOver(E)]
  PROVE  /\ u \in [Resource -> Seq(StackOver(E))]
         /\ \A r \in Resource : Len(u[r]) = Len(s.stacks[r])
<1>1. ASSUME NEW r \in Resource
      PROVE  u[r] \in Seq(StackOver(E)) /\ Len(u[r]) = Len(s.stacks[r])
  <2> DEFINE N == Len(s.stacks[r])
  <2>1. N \in Nat /\ u[r] \in [1 .. N -> StackOver(E)]
    BY StackTypes
  <2> HIDE DEF N
  <2>4. u[r] \in Seq(StackOver(E)) /\ Len(u[r]) = N
    BY <2>1
  <2> QED BY <2>4 DEF N
<1>2. u \in [Resource -> Seq(StackOver(E))]
  BY <1>1 DEF IsMap
<1> QED BY <1>1, <1>2

\* What is changed stack by stack ages, and keeps its locks.
LEMMA StackwiseAges ==
  ASSUME NEW n \in Nat, NEW E, NEW s, IsService(s, n, E), NEW t,
         t = [stacks |-> t.stacks, editStacks |-> t.editStacks,
              removed |-> t.removed, invalid |-> t.invalid],
         IsMap(t.stacks, Resource),
         \A r \in Resource : IsMap(t.stacks[r], DOMAIN s.stacks[r]),
         \A r \in Resource : \A k \in 1 .. Len(s.stacks[r]) :
           /\ t.stacks[r][k] \in StackOver(E)
           /\ \/ Later(t.stacks[r][k], s.stacks[r][k])
              \/ /\ t.stacks[r][k] = s.stacks[r][k]
                 /\ s.editStacks[r] = k => t.editStacks[r] = k,
         t.editStacks \in [Resource -> Nat],
         \A r \in Resource : t.editStacks[r] \in {s.editStacks[r], 0},
         t.removed \subseteq (1 .. n) \X Resource, t.invalid \subseteq E \X Resource
  PROVE  IsService(t, n, E) /\ SameLocks(s, t) /\ Ages(s, t)
<1>1. /\ t.stacks \in [Resource -> Seq(StackOver(E))]
      /\ \A r \in Resource : Len(t.stacks[r]) = Len(s.stacks[r])
  <2> DEFINE u == t.stacks
  <2>1. ASSUME NEW r \in Resource
        PROVE  u[r] \in [1 .. Len(s.stacks[r]) -> StackOver(E)]
    <3>1. DOMAIN s.stacks[r] = 1 .. Len(s.stacks[r])
      BY StackTypes
    <3>2. IsMap(u[r], 1 .. Len(s.stacks[r]))
      BY <3>1
    <3> HIDE DEF u
    <3>3. \A k \in 1 .. Len(s.stacks[r]) : u[r][k] \in StackOver(E)
      BY DEF u
    <3> QED BY <3>2, <3>3 DEF IsMap
  <2>2. IsMap(u, Resource)
    OBVIOUS
  <2> HIDE DEF u
  <2>3. /\ u \in [Resource -> Seq(StackOver(E))]
        /\ \A r \in Resource : Len(u[r]) = Len(s.stacks[r])
    BY <2>1, <2>2, StackwiseType
  <2> QED BY <2>3 DEF u
<1>3. t \in [stacks : [Resource -> Seq(StackOver(E))], editStacks : [Resource -> Nat],
             removed : SUBSET ((1 .. n) \X Resource), invalid : SUBSET (E \X Resource)]
  BY <1>1
<1>4. ASSUME NEW r \in Resource PROVE t.editStacks[r] <= Len(t.stacks[r])
  <2>1. s.editStacks[r] \in 0 .. Len(s.stacks[r]) /\ Len(s.stacks[r]) \in Nat
    BY StackTypes
  <2>2. t.editStacks[r] \in {s.editStacks[r], 0} /\ Len(t.stacks[r]) = Len(s.stacks[r])
    BY <1>1
  <2> QED BY <2>1, <2>2
<1>5. IsService(t, n, E)
  BY <1>3, <1>4 DEF IsService
<1>6. \A r \in Resource :
        /\ Len(t.stacks[r]) = Len(s.stacks[r])
        /\ \A k \in 1 .. Len(s.stacks[r]) :
             \/ Later(t.stacks[r][k], s.stacks[r][k])
             \/ t.stacks[r][k] = s.stacks[r][k] /\ (s.editStacks[r] = k => t.editStacks[r] = k)
  BY <1>1
<1>7. SameLocks(s, t) /\ Ages(s, t)
  BY <1>6, AgesWhenLater
<1> QED BY <1>5, <1>7

\* And if every stack has less in it, all is kept.
LEMMA StackwiseKeeps ==
  ASSUME NEW n \in Nat, NEW E, NEW s, IsService(s, n, E), NEW t,
         t = [stacks |-> t.stacks, editStacks |-> t.editStacks,
              removed |-> t.removed, invalid |-> t.invalid],
         IsMap(t.stacks, Resource),
         \A r \in Resource : IsMap(t.stacks[r], DOMAIN s.stacks[r]),
         \A r \in Resource : \A k \in 1 .. Len(s.stacks[r]) :
           /\ t.stacks[r][k] \in StackOver(E)
           /\ \/ Lessened(t.stacks[r][k], s.stacks[r][k])
              \/ /\ t.stacks[r][k] = s.stacks[r][k]
                 /\ s.editStacks[r] = k => t.editStacks[r] = k,
         t.editStacks \in [Resource -> Nat],
         \A r \in Resource : t.editStacks[r] \in {s.editStacks[r], 0},
         t.removed \subseteq (1 .. n) \X Resource, t.invalid \subseteq E \X Resource
  PROVE  IsService(t, n, E) /\ Keeps(s, t)
<1>1. \A r \in Resource : \A k \in 1 .. Len(s.stacks[r]) :
           /\ t.stacks[r][k] \in StackOver(E)
           /\ \/ Later(t.stacks[r][k], s.stacks[r][k])
              \/ /\ t.stacks[r][k] = s.stacks[r][k]
                 /\ s.editStacks[r] = k => t.editStacks[r] = k
  BY DEF Lessened
<1>2. IsService(t, n, E) /\ SameLocks(s, t) /\ Ages(s, t)
  BY <1>1, StackwiseAges
<1>3. \A r \in Resource : \A k \in 1 .. Len(s.stacks[r]) : \A side \in Sides :
        Fewer(t.stacks[r][k][side], s.stacks[r][k][side])
  BY FewerFacts DEF Lessened
<1>4. Shrinks(s, t)
  BY <1>2, <1>3, ShrinksWhenLessened
<1> QED BY <1>2, <1>4 DEF Keeps

\* The marks of elements.
LEMMA RemovalsType ==
  ASSUME NEW n \in Nat, NEW E, Numbered(E, n), NEW r \in Resource, NEW xs, xs \subseteq E
  PROVE  Removals(r, xs) \subseteq (1 .. n) \X Resource
BY DEF Removals, Numbered

LEMMA ElementsType ==
  ASSUME NEW E, NEW v \in StackOver(E)
  PROVE  Elements(v) \subseteq E
BY DEF Elements, StackOver, ToSet

\* removeElements takes the stacks from their resources, and keeps the stacks.
LEMMA RemoveElementsKeeps ==
  ASSUME NEW n \in Nat, NEW E, NEW s, IsService(s, n, E), Numbered(E, n),
         NEW rs \in SUBSET Resource
  PROVE  IsService(RemoveElements(s, rs), n, E) /\ Keeps(s, RemoveElements(s, rs))
<1> DEFINE is == {StackId(s, r) : r \in rs}
<1> DEFINE u == [r \in Resource |-> [k \in DOMAIN s.stacks[r] |->
                   IF <<r, k>> \in is THEN [s.stacks[r][k] EXCEPT !.versionId = @ + 1]
                   ELSE s.stacks[r][k]]]
<1> DEFINE e == [r \in Resource |-> IF r \in rs THEN 0 ELSE s.editStacks[r]]
<1> DEFINE g == s.removed \cup UNION {Removals(r, Elements(StackOf(s, r))) : r \in rs}
<1>0. s \in [stacks : [Resource -> Seq(StackOver(E))], editStacks : [Resource -> Nat],
             removed : SUBSET ((1 .. n) \X Resource), invalid : SUBSET (E \X Resource)]
  BY DEF IsService
<1>1. RemoveElements(s, rs) = [s EXCEPT !.stacks = u, !.editStacks = e, !.removed = g]
  BY DEF RemoveElements, ChangeStacks
<1>2. g \subseteq (1 .. n) \X Resource
  BY <1>0, StackTypes, ElementsType, RemovalsType
<1>3. \A r \in Resource : e[r] = IF r \in rs THEN 0 ELSE s.editStacks[r]
  OBVIOUS
<1>4. IsMap(u, Resource) /\ \A r \in Resource : IsMap(u[r], DOMAIN s.stacks[r])
  BY DEF IsMap
<1>5. \A r \in Resource : \A k \in 1 .. Len(s.stacks[r]) :
        u[r][k] = IF <<r, k>> \in is THEN [s.stacks[r][k] EXCEPT !.versionId = @ + 1]
                  ELSE s.stacks[r][k]
  BY StackTypes
<1>6. e \in [Resource -> Nat]
  BY <1>0
<1>7. \A r \in rs : <<r, s.editStacks[r]>> \in is
  BY DEF StackId
<1> HIDE DEF is, u, e, g
<1>8. ASSUME NEW r \in Resource, NEW k \in 1 .. Len(s.stacks[r])
      PROVE  /\ u[r][k] \in StackOver(E)
             /\ \/ Lessened(u[r][k], s.stacks[r][k])
                \/ u[r][k] = s.stacks[r][k] /\ (s.editStacks[r] = k => e[r] = k)
  <2>1. ASSUME NEW w \in StackOver(E)
        PROVE  /\ [w EXCEPT !.versionId = @ + 1] \in StackOver(E)
               /\ Lessened([w EXCEPT !.versionId = @ + 1], w)
    BY FewerFacts DEF StackOver, Lessened, Later, Sides
  <2>2. s.stacks[r][k] \in StackOver(E)
    BY StackTypes
  <2>3. CASE <<r, k>> \in is
    BY <2>1, <2>2, <2>3, <1>5
  <2>4. CASE <<r, k>> \notin is
    BY <2>2, <2>4, <1>3, <1>5, <1>7
  <2> QED BY <2>3, <2>4
<1> DEFINE t == RemoveElements(s, rs)
<1>9. t = [stacks |-> u, editStacks |-> e, removed |-> g, invalid |-> s.invalid]
  BY <1>0, <1>1
<1> HIDE DEF t
<1>10. t.stacks = u /\ t.editStacks = e /\ t.removed = g /\ t.invalid = s.invalid
  BY <1>9
<1>11. /\ \A r \in Resource : e[r] \in {s.editStacks[r], 0}
       /\ s.invalid \subseteq E \X Resource
  BY <1>0, <1>3
<1>12. IsService(t, n, E) /\ Keeps(s, t)
  <2>1. /\ IsMap(t.stacks, Resource) /\ \A r \in Resource : IsMap(t.stacks[r], DOMAIN s.stacks[r])
        /\ t.editStacks \in [Resource -> Nat]
        /\ \A r \in Resource : t.editStacks[r] \in {s.editStacks[r], 0}
        /\ t.removed \subseteq (1 .. n) \X Resource /\ t.invalid \subseteq E \X Resource
    BY <1>2, <1>4, <1>6, <1>10, <1>11
  <2>2. \A r \in Resource : \A k \in 1 .. Len(s.stacks[r]) :
           /\ t.stacks[r][k] \in StackOver(E)
           /\ \/ Lessened(t.stacks[r][k], s.stacks[r][k])
              \/ /\ t.stacks[r][k] = s.stacks[r][k]
                 /\ s.editStacks[r] = k => t.editStacks[r] = k
    BY <1>8, <1>10
  <2>3. t = [stacks |-> t.stacks, editStacks |-> t.editStacks,
             removed |-> t.removed, invalid |-> t.invalid]
    BY <1>9, <1>10
  <2> QED BY <2>1, <2>2, <2>3, StackwiseKeeps
<1> QED BY <1>12 DEF t

\* The fields of a service.
LEMMA ServiceFields ==
  ASSUME NEW n \in Nat, NEW E, NEW s, IsService(s, n, E)
  PROVE  /\ s \in [stacks : [Resource -> Seq(StackOver(E))], editStacks : [Resource -> Nat],
                   removed : SUBSET ((1 .. n) \X Resource), invalid : SUBSET (E \X Resource)]
         /\ s.editStacks \in [Resource -> Nat]
         /\ s.removed \subseteq (1 .. n) \X Resource /\ s.invalid \subseteq E \X Resource
         /\ IsMap(s.stacks, Resource)
         /\ \A r \in Resource : IsMap(s.stacks[r], DOMAIN s.stacks[r])
<1>1. s \in [stacks : [Resource -> Seq(StackOver(E))], editStacks : [Resource -> Nat],
             removed : SUBSET ((1 .. n) \X Resource), invalid : SUBSET (E \X Resource)]
  BY DEF IsService
<1>2. IsMap(s.stacks, Resource)
  BY <1>1 DEF IsMap
<1>3. ASSUME NEW r \in Resource PROVE IsMap(s.stacks[r], DOMAIN s.stacks[r])
  <2>1. s.stacks[r] \in Seq(StackOver(E))
    BY <1>1
  <2> DEFINE q == s.stacks[r]
  <2> HIDE DEF q
  <2>2. q \in Seq(StackOver(E)) => q = [k \in DOMAIN q |-> q[k]]
    OBVIOUS
  <2> QED BY <2>1, <2>2 DEF q, IsMap
<1> QED BY <1>1, <1>2, <1>3

(***************************************************************************)
(* The operations on stacks, one by one.                                   *)
(***************************************************************************)
\* The marks of elements do not matter to the stacks.
LEMMA MarksKeep ==
  ASSUME NEW n \in Nat, NEW E, NEW s, IsService(s, n, E), NEW v, v \subseteq E \X Resource
  PROVE  IsService([s EXCEPT !.invalid = v], n, E) /\ Keeps(s, [s EXCEPT !.invalid = v])
<1> DEFINE t == [s EXCEPT !.invalid = v]
<1>1. t = [stacks |-> s.stacks, editStacks |-> s.editStacks, removed |-> s.removed, invalid |-> v]
  BY ServiceFields
<1> HIDE DEF t
<1>2. t.stacks = s.stacks /\ t.editStacks = s.editStacks /\ t.removed = s.removed /\ t.invalid = v
  BY <1>1
<1>3. /\ IsMap(t.stacks, Resource) /\ \A r \in Resource : IsMap(t.stacks[r], DOMAIN s.stacks[r])
      /\ t.editStacks \in [Resource -> Nat]
      /\ \A r \in Resource : t.editStacks[r] \in {s.editStacks[r], 0}
      /\ t.removed \subseteq (1 .. n) \X Resource /\ t.invalid \subseteq E \X Resource
  BY <1>2, ServiceFields
<1>4. \A r \in Resource : \A k \in 1 .. Len(s.stacks[r]) :
        /\ t.stacks[r][k] \in StackOver(E)
        /\ \/ Lessened(t.stacks[r][k], s.stacks[r][k])
           \/ /\ t.stacks[r][k] = s.stacks[r][k]
              /\ s.editStacks[r] = k => t.editStacks[r] = k
  BY <1>2, StackTypes
<1>5. t = [stacks |-> t.stacks, editStacks |-> t.editStacks,
           removed |-> t.removed, invalid |-> t.invalid]
  BY <1>1, <1>2
<1>6. IsService(t, n, E) /\ Keeps(s, t)
  BY <1>3, <1>4, <1>5, StackwiseKeeps
<1> QED BY <1>6 DEF t

\* setElementsValidFlag changes only marks.
LEMMA SetElementsValidFlagKeeps ==
  ASSUME NEW n \in Nat, NEW E, NEW s, IsService(s, n, E), NEW m \in Model, NEW isValid \in BOOLEAN
  PROVE  /\ IsService(SetElementsValidFlag(s, m, isValid), n, E)
         /\ Keeps(s, SetElementsValidFlag(s, m, isValid))
<1> DEFINE marks == {<<x, ComparisonKey[m]>> : x \in Matching(s, m)}
<1>1. ComparisonKey[m] \in Resource
  BY DEF Resource
<1>2. Matching(s, m) \subseteq E
  BY <1>1, StackTypes, ElementsType DEF Matching
<1>3. marks \subseteq E \X Resource
  BY <1>1, <1>2
<1> DEFINE v == IF isValid THEN s.invalid \ marks ELSE s.invalid \cup marks
<1>4. SetElementsValidFlag(s, m, isValid) = [s EXCEPT !.invalid = v]
  BY DEF SetElementsValidFlag
<1> HIDE DEF marks
<1>5. v \subseteq E \X Resource
  BY <1>3, ServiceFields
<1> HIDE DEF v
<1> QED BY <1>4, <1>5, MarksKeep

\* A service whose stacks is are those of w.
WithStacks(s, is, w) ==
  [s EXCEPT !.stacks = [r \in Resource |-> [k \in DOMAIN s.stacks[r] |->
     IF <<r, k>> \in is THEN w[r][k] ELSE s.stacks[r][k]]]]

\* Stacks that are replaced by later ones.
LEMMA ChangedKeeps ==
  ASSUME NEW n \in Nat, NEW E, NEW s, IsService(s, n, E), NEW is, NEW w, NEW t,
         t = WithStacks(s, is, w),
         \A r \in Resource : \A k \in 1 .. Len(s.stacks[r]) :
           <<r, k>> \in is => w[r][k] \in StackOver(E) /\ Later(w[r][k], s.stacks[r][k])
  PROVE  /\ IsService(t, n, E) /\ SameLocks(s, t) /\ Ages(s, t)
         /\ \A r \in Resource : Len(t.stacks[r]) = Len(s.stacks[r])
         /\ \A r \in Resource : \A k \in 1 .. Len(s.stacks[r]) :
              t.stacks[r][k] = IF <<r, k>> \in is THEN w[r][k] ELSE s.stacks[r][k]
         /\ t.editStacks = s.editStacks
         /\ (\A r \in Resource : \A k \in 1 .. Len(s.stacks[r]) :
              <<r, k>> \in is => Lessened(w[r][k], s.stacks[r][k])) => Keeps(s, t)
<1> DEFINE u == [r \in Resource |-> [k \in DOMAIN s.stacks[r] |->
                   IF <<r, k>> \in is THEN w[r][k] ELSE s.stacks[r][k]]]
<1>a. t = [s EXCEPT !.stacks = u]
  BY DEF WithStacks
<1>2. IsMap(u, Resource) /\ \A r \in Resource : IsMap(u[r], DOMAIN s.stacks[r])
  BY DEF IsMap
<1>3. ASSUME NEW r \in Resource, NEW k \in 1 .. Len(s.stacks[r])
      PROVE  /\ u[r][k] = IF <<r, k>> \in is THEN w[r][k] ELSE s.stacks[r][k]
             /\ s.stacks[r][k] \in StackOver(E)
  BY StackTypes
<1>0. \A r \in Resource : Len(u[r]) = Len(s.stacks[r])
  BY StackTypes
<1> HIDE DEF u
<1>1. t = [stacks |-> u, editStacks |-> s.editStacks, removed |-> s.removed, invalid |-> s.invalid]
  BY <1>a, ServiceFields
<1>4. t.stacks = u /\ t.editStacks = s.editStacks /\ t.removed = s.removed /\ t.invalid = s.invalid
  BY <1>1
<1>5. /\ IsMap(t.stacks, Resource) /\ \A r \in Resource : IsMap(t.stacks[r], DOMAIN s.stacks[r])
      /\ t.editStacks \in [Resource -> Nat]
      /\ \A r \in Resource : t.editStacks[r] \in {s.editStacks[r], 0}
      /\ t.removed \subseteq (1 .. n) \X Resource /\ t.invalid \subseteq E \X Resource
  BY <1>2, <1>4, ServiceFields
<1>6. ASSUME NEW r \in Resource, NEW k \in 1 .. Len(s.stacks[r])
      PROVE  /\ t.stacks[r][k] \in StackOver(E)
             /\ \/ Later(t.stacks[r][k], s.stacks[r][k])
                \/ /\ t.stacks[r][k] = s.stacks[r][k]
                   /\ s.editStacks[r] = k => t.editStacks[r] = k
  BY <1>3, <1>4
<1>7. t = [stacks |-> t.stacks, editStacks |-> t.editStacks,
           removed |-> t.removed, invalid |-> t.invalid]
  BY <1>1, <1>4
<1>8. IsService(t, n, E) /\ SameLocks(s, t) /\ Ages(s, t)
  BY <1>5, <1>6, <1>7, StackwiseAges, SMTT(30)
<1>9. ASSUME \A r \in Resource : \A k \in 1 .. Len(s.stacks[r]) :
               <<r, k>> \in is => Lessened(w[r][k], s.stacks[r][k])
      PROVE  Keeps(s, t)
  <2>1. ASSUME NEW r \in Resource, NEW k \in 1 .. Len(s.stacks[r])
        PROVE  /\ t.stacks[r][k] \in StackOver(E)
               /\ \/ Lessened(t.stacks[r][k], s.stacks[r][k])
                  \/ /\ t.stacks[r][k] = s.stacks[r][k]
                     /\ s.editStacks[r] = k => t.editStacks[r] = k
    <3>1. t.stacks[r][k] = IF <<r, k>> \in is THEN w[r][k] ELSE s.stacks[r][k]
      BY <1>3, <1>4
    <3>2. CASE <<r, k>> \in is
      BY <3>1, <3>2, <1>6, <1>9
    <3>3. CASE <<r, k>> \notin is
      BY <3>1, <3>3, <1>6, <1>4
    <3> QED BY <3>2, <3>3
  <2> QED BY <1>5, <1>7, <2>1, StackwiseKeeps
<1>10. \A r \in Resource : \A k \in 1 .. Len(s.stacks[r]) :
         t.stacks[r][k] = IF <<r, k>> \in is THEN w[r][k] ELSE s.stacks[r][k]
  BY <1>3, <1>4
<1> QED BY <1>0, <1>4, <1>8, <1>9, <1>10

\* A stack with another version.
NextVersion(y) == [y EXCEPT !.versionId = @ + 1]

\* The next version of a stack has the same in it.
LEMMA NextVersionFacts ==
  ASSUME NEW E, NEW y \in StackOver(E)
  PROVE  /\ NextVersion(y) \in StackOver(E) /\ Later(NextVersion(y), y)
         /\ \A side \in Sides : NextVersion(y)[side] = y[side]
BY DEF StackOver, NextVersion, Later, Sides

\* flushAllElements empties a stack.
LEMMA FlushKeeps ==
  ASSUME NEW n \in Nat, NEW E, NEW s, IsService(s, n, E), NEW r0 \in Resource
  PROVE  IsService(Flush(s, r0), n, E) /\ Keeps(s, Flush(s, r0))
<1> DEFINE y(x) == [x EXCEPT !.past = <<>>, !.future = <<>>]
<1> DEFINE w == [r \in Resource |-> [k \in DOMAIN s.stacks[r] |-> NextVersion(y(s.stacks[r][k]))]]
<1> DEFINE is == {StackId(s, r0)}
<1> DEFINE t == Flush(s, r0)
<1>1. t = WithStacks(s, is, w)
  BY DEF Flush, ChangeStacks, WithStacks, NextVersion
<1>2. ASSUME NEW x \in StackOver(E)
      PROVE  /\ y(x) \in StackOver(E) /\ y(x).locked = x.locked
             /\ y(x).versionId = x.versionId /\ \A side \in Sides : y(x)[side] = <<>>
  <2> DEFINE a == <<>>
  <2>1. a \in Seq(E)
    OBVIOUS
  <2>2. y(x) = [x EXCEPT !.past = a, !.future = a]
    OBVIOUS
  <2> HIDE DEF a, y
  <2>3. /\ y(x) \in StackOver(E) /\ y(x).locked = x.locked
        /\ y(x).versionId = x.versionId /\ y(x).past = a /\ y(x).future = a
    BY <2>1, <2>2 DEF StackOver
  <2> QED BY <2>3 DEF a, Sides
<1>3. ASSUME NEW r \in Resource, NEW k \in 1 .. Len(s.stacks[r])
      PROVE  w[r][k] = NextVersion(y(s.stacks[r][k])) /\ s.stacks[r][k] \in StackOver(E)
  <2>1. DOMAIN s.stacks[r] = 1 .. Len(s.stacks[r])
    BY StackTypes
  <2> HIDE DEF y
  <2> QED BY <2>1, StackTypes
<1> HIDE DEF y, w, is, t
<1>4. ASSUME NEW r \in Resource, NEW k \in 1 .. Len(s.stacks[r])
      PROVE  /\ w[r][k] \in StackOver(E) /\ Later(w[r][k], s.stacks[r][k])
             /\ Lessened(w[r][k], s.stacks[r][k])
  <2> DEFINE x == s.stacks[r][k]
  <2>1. x \in StackOver(E) /\ w[r][k] = NextVersion(y(x))
    BY <1>3
  <2> HIDE DEF x
  <2>2. /\ w[r][k] \in StackOver(E) /\ Later(w[r][k], y(x))
        /\ \A side \in Sides : w[r][k][side] = <<>>
    BY <2>1, <1>2, NextVersionFacts
  <2>3. Later(w[r][k], x) /\ Lessened(w[r][k], x)
    BY <2>1, <2>2, <1>2, FewerFacts DEF Later, Lessened
  <2> QED BY <2>2, <2>3 DEF x
<1>5. IsService(t, n, E) /\ Keeps(s, t)
  BY <1>1, <1>4, ChangedKeeps, SMTT(30)
<1> QED BY <1>5 DEF t

\* Two changes that keep, keep.
LEMMA KeepsTwice ==
  ASSUME NEW n \in Nat, NEW E, NEW s, NEW t, NEW u,
         IsService(s, n, E), IsService(t, n, E), IsService(u, n, E), Keeps(s, t), Keeps(t, u)
  PROVE  Keeps(s, u)
BY KeepsChains DEF Keeps

\* ChangeStacks, where every stack becomes what y has for it.
LEMMA ChangedBy ==
  ASSUME NEW n \in Nat, NEW E, NEW s, IsService(s, n, E), NEW is, NEW w, NEW y, NEW t,
         t = WithStacks(s, is, w),
         \A r \in Resource : \A k \in 1 .. Len(s.stacks[r]) :
           <<r, k>> \in is =>
             /\ w[r][k] = NextVersion(y[r][k])
             /\ y[r][k] \in StackOver(E)
             /\ y[r][k].locked = s.stacks[r][k].locked
             /\ y[r][k].versionId = s.stacks[r][k].versionId
  PROVE  /\ IsService(t, n, E) /\ SameLocks(s, t) /\ Ages(s, t)
         /\ \A r \in Resource : Len(t.stacks[r]) = Len(s.stacks[r])
         /\ \A r \in Resource : \A k \in 1 .. Len(s.stacks[r]) :
              t.stacks[r][k] = IF <<r, k>> \in is THEN NextVersion(y[r][k]) ELSE s.stacks[r][k]
         /\ t.editStacks = s.editStacks
         /\ (\A r \in Resource : \A k \in 1 .. Len(s.stacks[r]) :
              <<r, k>> \in is => \A side \in Sides : Fewer(y[r][k][side], s.stacks[r][k][side]))
            => Keeps(s, t)
<1>1. ASSUME NEW r \in Resource, NEW k \in 1 .. Len(s.stacks[r]), <<r, k>> \in is
      PROVE  /\ w[r][k] \in StackOver(E) /\ Later(w[r][k], s.stacks[r][k])
             /\ \A side \in Sides : w[r][k][side] = y[r][k][side]
  <2>1. /\ w[r][k] = NextVersion(y[r][k]) /\ y[r][k] \in StackOver(E)
        /\ y[r][k].locked = s.stacks[r][k].locked
        /\ y[r][k].versionId = s.stacks[r][k].versionId
    BY <1>1
  <2>2. /\ w[r][k] \in StackOver(E) /\ Later(w[r][k], y[r][k])
        /\ \A side \in Sides : w[r][k][side] = y[r][k][side]
    BY <2>1, NextVersionFacts
  <2> QED BY <2>1, <2>2 DEF Later
<1>2. /\ IsService(t, n, E) /\ SameLocks(s, t) /\ Ages(s, t)
      /\ \A r \in Resource : Len(t.stacks[r]) = Len(s.stacks[r])
      /\ \A r \in Resource : \A k \in 1 .. Len(s.stacks[r]) :
           t.stacks[r][k] = IF <<r, k>> \in is THEN w[r][k] ELSE s.stacks[r][k]
      /\ t.editStacks = s.editStacks
      /\ (\A r \in Resource : \A k \in 1 .. Len(s.stacks[r]) :
           <<r, k>> \in is => Lessened(w[r][k], s.stacks[r][k])) => Keeps(s, t)
  BY <1>1, ChangedKeeps
<1>3. ASSUME \A r \in Resource : \A k \in 1 .. Len(s.stacks[r]) :
               <<r, k>> \in is => \A side \in Sides : Fewer(y[r][k][side], s.stacks[r][k][side])
      PROVE  Keeps(s, t)
  <2>1. ASSUME NEW r \in Resource, NEW k \in 1 .. Len(s.stacks[r]), <<r, k>> \in is
        PROVE  Lessened(w[r][k], s.stacks[r][k])
    <3>1. \A side \in Sides : Fewer(y[r][k][side], s.stacks[r][k][side])
      BY <1>3, <2>1
    <3>2. Later(w[r][k], s.stacks[r][k]) /\ \A side \in Sides : w[r][k][side] = y[r][k][side]
      BY <1>1, <2>1
    <3> QED BY <3>1, <3>2 DEF Lessened
  <2> QED BY <1>2, <2>1
<1>4. ASSUME NEW r \in Resource, NEW k \in 1 .. Len(s.stacks[r])
      PROVE  t.stacks[r][k] = IF <<r, k>> \in is THEN NextVersion(y[r][k]) ELSE s.stacks[r][k]
  <2>1. t.stacks[r][k] = IF <<r, k>> \in is THEN w[r][k] ELSE s.stacks[r][k]
    BY <1>2
  <2>2. <<r, k>> \in is => w[r][k] = NextVersion(y[r][k])
    OBVIOUS
  <2> QED BY <2>1, <2>2
<1> QED BY <1>2, <1>3, <1>4

\* moveBackward and moveForward of one stack
Moved(v, x, side) == [v EXCEPT ![side] = IF @ = <<>> THEN @ ELSE Front(@),
                               ![Other(side)] = Append(@, x)]

\* A stack whose last element was moved to its other side.
LEMMA MovedFacts ==
  ASSUME NEW E, NEW v \in StackOver(E), NEW x \in E, NEW side \in Sides
  PROVE  /\ Moved(v, x, side) \in StackOver(E)
         /\ Moved(v, x, side).locked = v.locked /\ Moved(v, x, side).versionId = v.versionId
         /\ v[side] \in Seq(E) /\ v[Other(side)] \in Seq(E)
         /\ Moved(v, x, side)[side] = IF v[side] = <<>> THEN v[side] ELSE Front(v[side])
         /\ Moved(v, x, side)[Other(side)] = Append(v[Other(side)], x)
         /\ Sides = {side, Other(side)}
<1> DEFINE a == IF v[side] = <<>> THEN v[side] ELSE Front(v[side])
<1> DEFINE b == Append(v[Other(side)], x)
<1>1. v[side] \in Seq(E) /\ v[Other(side)] \in Seq(E) /\ Sides = {side, Other(side)}
  BY DEF StackOver, Sides, Other
<1>2. a \in Seq(E)
  BY <1>1, FrontFacts
<1>3. b \in Seq(E)
  BY <1>1
<1>4. Moved(v, x, side) = [v EXCEPT ![side] = a, ![Other(side)] = b]
  BY side # Other(side) DEF Moved, Sides, Other
<1> HIDE DEF a, b
<1>7. /\ Moved(v, x, side) \in StackOver(E)
      /\ Moved(v, x, side).locked = v.locked /\ Moved(v, x, side).versionId = v.versionId
      /\ Moved(v, x, side)[side] = a /\ Moved(v, x, side)[Other(side)] = b
  <2>1. CASE side = "past"
    BY <1>2, <1>3, <1>4, <2>1 DEF StackOver, Other
  <2>2. CASE side = "future"
    BY <1>2, <1>3, <1>4, <2>2 DEF StackOver, Other
  <2> QED BY <2>1, <2>2 DEF Sides
<1> QED BY <1>1, <1>7 DEF a, b

\* An element of one resource that is moved leaves no more of several.
LEMMA FewerMoved ==
  ASSUME NEW E, NEW v \in StackOver(E), NEW x \in E, NEW side \in Sides
  PROVE  /\ Fewer(Moved(v, x, side)[side], v[side])
         /\ ~IsWorkspace(x) => Fewer(Moved(v, x, side)[Other(side)], v[Other(side)])
<1> DEFINE a == v[side]
<1> DEFINE b == v[Other(side)]
<1>1. a \in Seq(E) /\ b \in Seq(E)
  BY MovedFacts
<1> HIDE DEF a, b
<1>2. a # <<>> => Fewer(Front(a), a)
  <2>1. SUFFICES ASSUME a # <<>> PROVE Fewer(Front(a), a)
    OBVIOUS
  <2>2. /\ Front(a) \in Seq(E) /\ Len(Front(a)) = Len(a) - 1 /\ Len(a) \in Nat
        /\ \A j \in 1 .. Len(a) - 1 : Front(a)[j] = a[j]
    BY <1>1, <2>1, FrontFacts
  <2>3. \A i \in 1 .. Len(Front(a)) : IsWorkspace(Front(a)[i]) =>
          i + 0 \in 1 .. Len(a) /\ a[i + 0] = Front(a)[i]
    BY <2>2
  <2> QED BY <1>1, <2>2, <2>3, FewerByShift
<1>3. ~IsWorkspace(x) => Fewer(Append(b, x), b)
  <2>1. SUFFICES ASSUME ~IsWorkspace(x) PROVE Fewer(Append(b, x), b)
    OBVIOUS
  <2> DEFINE p == Append(b, x)
  <2>2. p \in Seq(E) /\ Len(p) = Len(b) + 1 /\ Len(b) \in Nat
    BY <1>1
  <2>3. \A i \in 1 .. Len(p) : IF i <= Len(b) THEN p[i] = b[i] ELSE p[i] = x
    BY <1>1
  <2> HIDE DEF p
  <2>4. \A i \in 1 .. Len(p) : IsWorkspace(p[i]) => i + 0 \in 1 .. Len(b) /\ b[i + 0] = p[i]
    BY <2>1, <2>2, <2>3
  <2>5. Fewer(p, b)
    BY <1>1, <2>2, <2>4, FewerByShift
  <2> QED BY <2>5 DEF p
<1>4. Fewer(a, a)
  BY FewerFacts
<1>5. /\ Moved(v, x, side)[side] = IF a = <<>> THEN a ELSE Front(a)
      /\ Moved(v, x, side)[Other(side)] = Append(b, x)
  BY MovedFacts DEF a, b
<1>6. /\ Fewer(Moved(v, x, side)[side], a)
      /\ ~IsWorkspace(x) => Fewer(Moved(v, x, side)[Other(side)], b)
  BY <1>2, <1>3, <1>4, <1>5
<1> QED BY <1>6 DEF a, b

\* moveBackward and moveForward of stacks: for an element of one resource they keep.
LEMMA MoveAllFacts ==
  ASSUME NEW n \in Nat, NEW E, NEW s, IsService(s, n, E), NEW is, NEW x \in E, NEW side \in Sides
  PROVE  LET t == MoveAll(s, is, x, side)
         IN  /\ IsService(t, n, E) /\ SameLocks(s, t) /\ Ages(s, t)
             /\ t.editStacks = s.editStacks
             /\ ~IsWorkspace(x) => Keeps(s, t)
             /\ \A r \in Resource : \A u \in Sides :
                  StackOf(t, r)[u] = IF s.editStacks[r] # 0 /\ StackId(s, r) \in is
                                     THEN Moved(StackOf(s, r), x, side)[u] ELSE StackOf(s, r)[u]
<1> DEFINE t == MoveAll(s, is, x, side)
<1> DEFINE y == [r \in Resource |-> [k \in DOMAIN s.stacks[r] |-> Moved(s.stacks[r][k], x, side)]]
<1> DEFINE w == [r \in Resource |-> [k \in DOMAIN s.stacks[r] |->
                                       NextVersion(Moved(s.stacks[r][k], x, side))]]
<1>1. t = WithStacks(s, is, w)
  <2>1. t = [s EXCEPT !.stacks = [r \in Resource |-> [k \in DOMAIN s.stacks[r] |->
               IF <<r, k>> \in is THEN NextVersion(Moved(s.stacks[r][k], x, side))
               ELSE s.stacks[r][k]]]]
    BY Zenon DEF MoveAll, ChangeStacks, NextVersion, Moved
  <2> HIDE DEF t
  <2> QED BY <2>1 DEF WithStacks
<1>2. ASSUME NEW r \in Resource, NEW k \in 1 .. Len(s.stacks[r])
      PROVE  /\ y[r][k] = Moved(s.stacks[r][k], x, side)
             /\ w[r][k] = NextVersion(Moved(s.stacks[r][k], x, side))
             /\ s.stacks[r][k] \in StackOver(E)
  <2>1. DOMAIN s.stacks[r] = 1 .. Len(s.stacks[r])
    BY StackTypes
  <2> QED BY <2>1, StackTypes
<1> HIDE DEF t, y, w
<1>3. ASSUME NEW r \in Resource, NEW k \in 1 .. Len(s.stacks[r])
      PROVE  /\ w[r][k] = NextVersion(y[r][k]) /\ y[r][k] \in StackOver(E)
             /\ y[r][k].locked = s.stacks[r][k].locked
             /\ y[r][k].versionId = s.stacks[r][k].versionId
             /\ ~IsWorkspace(x) => \A u \in Sides : Fewer(y[r][k][u], s.stacks[r][k][u])
  <2> DEFINE v == s.stacks[r][k]
  <2>1. y[r][k] = Moved(v, x, side) /\ w[r][k] = NextVersion(Moved(v, x, side)) /\ v \in StackOver(E)
    BY <1>2
  <2> HIDE DEF v
  <2>2. /\ y[r][k] \in StackOver(E) /\ y[r][k].locked = v.locked /\ y[r][k].versionId = v.versionId
        /\ Sides = {side, Other(side)}
    BY <2>1, MovedFacts
  <2>3. ~IsWorkspace(x) => Fewer(y[r][k][side], v[side]) /\ Fewer(y[r][k][Other(side)], v[Other(side)])
    BY <2>1, FewerMoved
  <2> QED BY <2>1, <2>2, <2>3 DEF v
<1>4. /\ IsService(t, n, E) /\ SameLocks(s, t) /\ Ages(s, t)
      /\ \A r \in Resource : \A k \in 1 .. Len(s.stacks[r]) :
           t.stacks[r][k] = IF <<r, k>> \in is THEN NextVersion(y[r][k]) ELSE s.stacks[r][k]
      /\ t.editStacks = s.editStacks
      /\ (\A r \in Resource : \A k \in 1 .. Len(s.stacks[r]) :
           <<r, k>> \in is => \A u \in Sides : Fewer(y[r][k][u], s.stacks[r][k][u])) => Keeps(s, t)
  <2>1. \A r \in Resource : \A k \in 1 .. Len(s.stacks[r]) :
           <<r, k>> \in is =>
             /\ w[r][k] = NextVersion(y[r][k])
             /\ y[r][k] \in StackOver(E)
             /\ y[r][k].locked = s.stacks[r][k].locked
             /\ y[r][k].versionId = s.stacks[r][k].versionId
    BY <1>3
  <2> QED BY <1>1, <2>1, ChangedBy
<1>5. ~IsWorkspace(x) => Keeps(s, t)
  BY <1>3, <1>4
<1>6. ASSUME NEW r \in Resource, NEW u \in Sides
      PROVE  StackOf(t, r)[u] = IF s.editStacks[r] # 0 /\ StackId(s, r) \in is
                                THEN Moved(StackOf(s, r), x, side)[u] ELSE StackOf(s, r)[u]
  <2> DEFINE k == s.editStacks[r]
  <2>1. /\ StackOf(s, r) = IF k = 0 THEN Missing ELSE s.stacks[r][k]
        /\ StackOf(t, r) = IF k = 0 THEN Missing ELSE t.stacks[r][k]
        /\ k \in 0 .. Len(s.stacks[r]) /\ Len(s.stacks[r]) \in Nat
    <3>1. IsService(t, n, E) /\ t.editStacks = s.editStacks
      BY <1>4
    <3> QED BY <3>1, StackTypes
  <2>2. StackId(s, r) = <<r, k>>
    BY DEF StackId
  <2> HIDE DEF k
  <2>3. CASE k = 0
    BY <2>1, <2>3 DEF k
  <2>4. CASE k # 0 /\ <<r, k>> \in is
    <3>1. k \in 1 .. Len(s.stacks[r])
      BY <2>1, <2>4
    <3>2. t.stacks[r][k] = NextVersion(y[r][k]) /\ y[r][k] = Moved(s.stacks[r][k], x, side)
      BY <3>1, <2>4, <1>4, <1>2
    <3>3. y[r][k] \in StackOver(E)
      BY <3>1, <1>3
    <3>4. t.stacks[r][k][u] = y[r][k][u]
      BY <3>2, <3>3, NextVersionFacts
    <3> QED BY <2>1, <2>2, <2>4, <3>2, <3>4 DEF k
  <2>5. CASE k # 0 /\ <<r, k>> \notin is
    <3>1. k \in 1 .. Len(s.stacks[r])
      BY <2>1, <2>5
    <3>2. t.stacks[r][k] = s.stacks[r][k]
      BY <3>1, <2>5, <1>4
    <3> QED BY <2>1, <2>2, <2>5, <3>2 DEF k
  <2> QED BY <2>3, <2>4, <2>5
<1> QED BY <1>4, <1>5, <1>6 DEF t

\* A sequence in which an element of one resource is put at a place.
LEMMA ReplacedFacts ==
  ASSUME NEW E, NEW q \in Seq(E), NEW i, NEW y \in E, ~IsWorkspace(y)
  PROVE  ReplaceAt(q, i, y) \in Seq(E) /\ Fewer(ReplaceAt(q, i, y), q)
<1> DEFINE p == ReplaceAt(q, i, y)
<1>1. /\ p \in Seq(E) /\ Len(p) = Len(q) /\ Len(q) \in Nat
      /\ \A j \in 1 .. Len(q) : p[j] = q[j] \/ p[j] = y
  <2>1. p = [q EXCEPT ![i] = y]
    BY DEF ReplaceAt
  <2>2. q \in [1 .. Len(q) -> E] /\ Len(q) \in Nat
    OBVIOUS
  <2> HIDE DEF p
  <2>3. p \in [1 .. Len(q) -> E] /\ \A j \in 1 .. Len(q) : p[j] = q[j] \/ p[j] = y
    BY <2>1, <2>2
  <2>4. p \in Seq(E) /\ Len(p) = Len(q)
    BY <2>2, <2>3
  <2> QED BY <2>2, <2>3, <2>4
<1> HIDE DEF p
<1>2. \A j \in 1 .. Len(p) : IsWorkspace(p[j]) => j + 0 \in 1 .. Len(q) /\ q[j + 0] = p[j]
  BY <1>1
<1>3. Fewer(p, q)
  BY <1>1, <1>2, FewerByShift
<1> QED BY <1>1, <1>3 DEF p

\* What a split makes of one stack
Divided(v, x, r, side) ==
  [v EXCEPT ![side] =
     LET IsThat(z) == z = x
     IN  IF x \in ToSet(@) THEN ReplaceAt(@, SelectLastInSeq(@, IsThat), SplitElement(x, r)) ELSE @]

\* A stack where the part of an element stands for it.
LEMMA DividedFacts ==
  ASSUME NEW E, NEW v \in StackOver(E), NEW x, NEW r, NEW side \in Sides,
         SplitElement(x, r) \in E, ~IsWorkspace(SplitElement(x, r))
  PROVE  /\ Divided(v, x, r, side) \in StackOver(E)
         /\ Divided(v, x, r, side).locked = v.locked
         /\ Divided(v, x, r, side).versionId = v.versionId
         /\ \A u \in Sides : Fewer(Divided(v, x, r, side)[u], v[u])
<1> DEFINE q == v[side]
<1> DEFINE IsThat(z) == z = x
<1> DEFINE i == SelectLastInSeq(q, IsThat)
<1> DEFINE p == IF x \in ToSet(q) THEN ReplaceAt(q, i, SplitElement(x, r)) ELSE q
<1>1. Divided(v, x, r, side) = [v EXCEPT ![side] = p]
  BY Zenon DEF Divided
<1>2. q \in Seq(E)
  BY DEF StackOver, Sides
<1> HIDE DEF q, i
<1>3. p \in Seq(E) /\ Fewer(p, q)
  BY <1>2, ReplacedFacts, FewerFacts
<1> HIDE DEF p
<1> DEFINE d == Divided(v, x, r, side)
<1>4. /\ d \in StackOver(E) /\ d.locked = v.locked /\ d.versionId = v.versionId
      /\ d[side] = p /\ d[Other(side)] = v[Other(side)] /\ Sides = {side, Other(side)}
  BY <1>1, <1>3 DEF StackOver, Sides, Other
<1> HIDE DEF d
<1>5. \A u \in Sides : Fewer(d[u], v[u])
  BY <1>3, <1>4, FewerFacts DEF q
<1> QED BY <1>4, <1>5 DEF d

\* _splitPastWorkspaceElement and _splitFutureWorkspaceElement on some stacks.
LEMMA SplitOnKeeps ==
  ASSUME NEW n \in Nat, NEW E, NEW s, IsService(s, n, E), NEW x, NEW rs \in SUBSET Resource,
         NEW side \in Sides,
         \A r \in rs : SplitElement(x, r) \in E /\ ~IsWorkspace(SplitElement(x, r))
  PROVE  IsService(SplitOn(s, x, rs, side), n, E) /\ Keeps(s, SplitOn(s, x, rs, side))
<1> DEFINE is == {StackId(s, r) : r \in rs}
<1> DEFINE y == [r \in Resource |->
                  [k \in DOMAIN s.stacks[r] |-> Divided(s.stacks[r][k], x, r, side)]]
<1> DEFINE w == [r \in Resource |-> [k \in DOMAIN s.stacks[r] |->
                                       NextVersion(Divided(s.stacks[r][k], x, r, side))]]
<1> DEFINE t == WithStacks(s, is, w)
<1> DEFINE m == {<<SplitElement(x, r), r>> : r \in rs}
<1>1. SplitOn(s, x, rs, side) = [t EXCEPT !.invalid = @ \ m]
  <2>1. SplitOn(s, x, rs, side) =
          [[s EXCEPT !.stacks = [r \in Resource |-> [k \in DOMAIN s.stacks[r] |->
               IF <<r, k>> \in is THEN NextVersion(Divided(s.stacks[r][k], x, r, side))
               ELSE s.stacks[r][k]]]] EXCEPT !.invalid = @ \ m]
    BY Zenon DEF SplitOn, ChangeStacks, NextVersion, Divided
  <2> DEFINE u == [s EXCEPT !.stacks = [r \in Resource |-> [k \in DOMAIN s.stacks[r] |->
               IF <<r, k>> \in is THEN NextVersion(Divided(s.stacks[r][k], x, r, side))
               ELSE s.stacks[r][k]]]]
  <2>2. t = u
    BY DEF WithStacks
  <2>3. SplitOn(s, x, rs, side) = [u EXCEPT !.invalid = @ \ m]
    BY <2>1, Zenon
  <2> HIDE DEF u, t, m
  <2> QED BY <2>2, <2>3
<1>2. ASSUME NEW r \in Resource, NEW k \in 1 .. Len(s.stacks[r])
      PROVE  /\ y[r][k] = Divided(s.stacks[r][k], x, r, side)
             /\ w[r][k] = NextVersion(Divided(s.stacks[r][k], x, r, side))
             /\ s.stacks[r][k] \in StackOver(E)
  <2>1. DOMAIN s.stacks[r] = 1 .. Len(s.stacks[r])
    BY StackTypes
  <2> QED BY <2>1, StackTypes
<1>3. \A r \in Resource : \A k : <<r, k>> \in is => r \in rs
  BY DEF StackId
<1>a. t = WithStacks(s, is, w)
  OBVIOUS
<1> HIDE DEF t, y, w, is, m
<1>4. \A r \in Resource : \A k \in 1 .. Len(s.stacks[r]) :
        <<r, k>> \in is =>
          /\ w[r][k] = NextVersion(y[r][k]) /\ y[r][k] \in StackOver(E)
          /\ y[r][k].locked = s.stacks[r][k].locked
          /\ y[r][k].versionId = s.stacks[r][k].versionId
          /\ \A u \in Sides : Fewer(y[r][k][u], s.stacks[r][k][u])
  <2>1. SUFFICES ASSUME NEW r \in Resource, NEW k \in 1 .. Len(s.stacks[r]), <<r, k>> \in is
                 PROVE  /\ w[r][k] = NextVersion(y[r][k]) /\ y[r][k] \in StackOver(E)
                        /\ y[r][k].locked = s.stacks[r][k].locked
                        /\ y[r][k].versionId = s.stacks[r][k].versionId
                        /\ \A u \in Sides : Fewer(y[r][k][u], s.stacks[r][k][u])
    OBVIOUS
  <2>2. SplitElement(x, r) \in E /\ ~IsWorkspace(SplitElement(x, r))
    BY <2>1, <1>3
  <2> DEFINE v == s.stacks[r][k]
  <2>3. /\ y[r][k] = Divided(v, x, r, side) /\ w[r][k] = NextVersion(Divided(v, x, r, side))
        /\ v \in StackOver(E)
    BY <1>2
  <2> HIDE DEF v
  <2>4. /\ w[r][k] = NextVersion(y[r][k]) /\ y[r][k] \in StackOver(E)
        /\ y[r][k].locked = v.locked /\ y[r][k].versionId = v.versionId
        /\ \A u \in Sides : Fewer(y[r][k][u], v[u])
    BY <2>2, <2>3, DividedFacts
  <2> QED BY <2>4 DEF v
<1>5. IsService(t, n, E) /\ Keeps(s, t)
  <2>1. \A r \in Resource : \A k \in 1 .. Len(s.stacks[r]) :
          <<r, k>> \in is =>
            /\ w[r][k] = NextVersion(y[r][k])
            /\ y[r][k] \in StackOver(E)
            /\ y[r][k].locked = s.stacks[r][k].locked
            /\ y[r][k].versionId = s.stacks[r][k].versionId
    BY <1>4
  <2>2. \A r \in Resource : \A k \in 1 .. Len(s.stacks[r]) :
          <<r, k>> \in is => \A u \in Sides : Fewer(y[r][k][u], s.stacks[r][k][u])
    BY <1>4
  <2>3. /\ IsService(t, n, E)
        /\ (\A r \in Resource : \A k \in 1 .. Len(s.stacks[r]) :
              <<r, k>> \in is => \A u \in Sides : Fewer(y[r][k][u], s.stacks[r][k][u])) =>
              Keeps(s, t)
    BY <1>a, <2>1, ChangedBy
  <2> QED BY <2>2, <2>3
<1>6. t.invalid \ m \subseteq E \X Resource
  BY <1>5, ServiceFields
<1> DEFINE i == t.invalid \ m
<1>7. SplitOn(s, x, rs, side) = [t EXCEPT !.invalid = i]
  BY <1>1
<1> HIDE DEF i
<1>8. IsService([t EXCEPT !.invalid = i], n, E) /\ Keeps(t, [t EXCEPT !.invalid = i])
  BY <1>5, <1>6, MarksKeep DEF i
<1> QED BY <1>5, <1>7, <1>8, KeepsTwice

\* Where a stack first differs from a snapshot.
LEMMA FirstDifferenceType ==
  ASSUME NEW E, NEW v \in StackOver(E), NEW snapshot
  PROVE  FirstDifference(v, snapshot) \in 0 .. Len(v.past) + Len(v.future)
<1> DEFINE q == SnapshotOf(v)
<1> DEFINE Differs(i) == i > Len(snapshot) \/ snapshot[i] # q[i]
<1> DEFINE First(i) == Differs(i) /\ \A j \in 1 .. i - 1 : ~Differs(j)
<1> DEFINE N == Len(v.past) + Len(v.future)
<1>1. DOMAIN q = 1 .. N /\ N \in Nat
  BY DEF SnapshotOf, Reverse, StackOver
<1>2. FirstDifference(v, snapshot) =
        IF \E i \in DOMAIN q : Differs(i) THEN CHOOSE i \in DOMAIN q : First(i) ELSE 0
  BY Zenon DEF FirstDifference
<1> HIDE DEF q, Differs, N
<1>3. (\E i \in DOMAIN q : Differs(i)) => \E i \in DOMAIN q : First(i)
  <2>1. SUFFICES ASSUME NEW i \in DOMAIN q, Differs(i), \A j \in DOMAIN q : ~First(j)
                 PROVE  FALSE
    OBVIOUS
  <2> DEFINE I == {m \in Nat : \A j \in DOMAIN q : j <= m => ~Differs(j)}
  <2>2. 0 \in I
    BY <1>1
  <2>3. ASSUME NEW m \in Nat, m \in I PROVE m + 1 \in I
    <3>1. SUFFICES ASSUME NEW j \in DOMAIN q, j <= m + 1 PROVE ~Differs(j)
      BY <2>3
    <3>2. CASE j <= m
      BY <3>2, <2>3
    <3>3. CASE j = m + 1
      <4>1. \A k \in 1 .. j - 1 : k \in DOMAIN q /\ k <= m
        BY <3>3, <1>1
      <4>2. \A k \in 1 .. j - 1 : ~Differs(k)
        BY <4>1, <2>3
      <4> QED BY <2>1, <4>2
    <3> QED BY <3>1, <3>2, <3>3, <1>1
  <2>4. i \in Nat
    BY <1>1
  <2>5. i \in I
    <3> HIDE DEF I
    <3> QED BY <2>2, <2>3, <2>4, Induction
  <2> QED BY <2>1, <2>5, <2>4
<1> DEFINE c == CHOOSE i \in DOMAIN q : First(i)
<1>4. (\E i \in DOMAIN q : Differs(i)) => c \in DOMAIN q
  <2> HIDE DEF First
  <2> QED BY <1>3
<1> HIDE DEF First, c
<1>5. FirstDifference(v, snapshot) \in 0 .. N
  BY <1>1, <1>2, <1>4 DEF c
<1> QED BY <1>5 DEF N

\* A restored stack has less in it.
LEMMA RestoredFacts ==
  ASSUME NEW E, NEW v \in StackOver(E), NEW snapshot
  PROVE  /\ RestoredStack(v, snapshot) \in StackOver(E)
         /\ RestoredStack(v, snapshot).locked = v.locked
         /\ RestoredStack(v, snapshot).versionId = v.versionId
         /\ \A u \in Sides : Fewer(RestoredStack(v, snapshot)[u], v[u])
         /\ Marked(v, snapshot) \subseteq E
<1> DEFINE i == FirstDifference(v, snapshot)
<1> DEFINE kept == i - 1 - Len(v.past)
<1> DEFINE d == RestoredStack(v, snapshot)
<1>0. /\ v.past \in Seq(E) /\ v.future \in Seq(E)
      /\ DOMAIN v.past = 1 .. Len(v.past) /\ Len(v.past) \in Nat /\ Len(v.future) \in Nat
      /\ Sides = {"past", "future"}
  BY DEF StackOver, Sides
<1>1. i \in 0 .. Len(v.past) + Len(v.future)
  BY FirstDifferenceType
<1>2. d = IF i = 0 THEN v
          ELSE IF i \in DOMAIN v.past THEN [v EXCEPT !.past = <<>>]
          ELSE [v EXCEPT !.future = SubSeq(@, Len(@) - kept + 1, Len(@))]
  BY DEF RestoredStack
<1> HIDE DEF i, d
<1>6. Marked(v, snapshot) \subseteq E
  <2> DEFINE q == SnapshotOf(v)
  <2>1. q \in Seq(E)
    <3>1. Reverse(v.future) \in Seq(E)
      BY <1>0 DEF Reverse
    <3> QED BY <3>1, <1>0 DEF SnapshotOf
  <2>2. Marked(v, snapshot) = IF i = 0 THEN {} ELSE ToSet(SubSeq(q, i, Len(q)))
    BY DEF Marked, i
  <2> HIDE DEF q
  <2>3. i # 0 => SubSeq(q, i, Len(q)) \in Seq(E)
    BY <2>1, <1>0, <1>1
  <2> DEFINE p == SubSeq(q, i, Len(q))
  <2>4. p \in Seq(E) => ToSet(p) \subseteq E
    <3> HIDE DEF p
    <3> QED BY DEF ToSet
  <2> HIDE DEF p
  <2> QED BY <2>2, <2>3, <2>4 DEF p
<1>7. /\ d \in StackOver(E) /\ d.locked = v.locked /\ d.versionId = v.versionId
      /\ \A u \in Sides : Fewer(d[u], v[u])
  <2>3. CASE i = 0
    BY <1>2, <2>3, FewerFacts
  <2>4. CASE i # 0 /\ i \in DOMAIN v.past
    <3> DEFINE e == <<>>
    <3>1. e \in Seq(E) /\ Fewer(e, v.past) /\ Fewer(v.future, v.future)
      BY FewerFacts
    <3>2. d = [v EXCEPT !.past = e]
      BY <1>2, <2>4
    <3> HIDE DEF e
    <3>3. /\ d \in StackOver(E) /\ d.locked = v.locked /\ d.versionId = v.versionId
          /\ d.past = e /\ d.future = v.future
      BY <3>1, <3>2 DEF StackOver
    <3> QED BY <3>1, <3>3, <1>0
  <2>5. CASE i # 0 /\ i \notin DOMAIN v.past
    <3> DEFINE o == Len(v.future) - kept
    <3> DEFINE f == SubSeq(v.future, o + 1, Len(v.future))
    <3>1. kept \in Nat /\ kept < Len(v.future)
      <4> DEFINE a == Len(v.past)
      <4> DEFINE b == Len(v.future)
      <4>1. a \in Nat /\ b \in Nat /\ i \in 0 .. a + b /\ i # 0 /\ i \notin 1 .. a /\ kept = i - 1 - a
        BY <1>0, <1>1, <2>5
      <4> HIDE DEF a, b, kept
      <4>2. kept \in Nat /\ kept < b
        BY <4>1
      <4> QED BY <4>2 DEF b
    <3>2. o \in 1 .. Len(v.future)
      BY <1>0, <3>1
    <3>3. d = [v EXCEPT !.future = f]
      BY <1>2, <2>5
    <3> HIDE DEF o, kept
    <3>4. /\ f \in Seq(E) /\ Len(f) = Len(v.future) - o
          /\ \A j \in 1 .. Len(v.future) - o : f[j] = v.future[j + o]
      BY <1>0, <3>2
    <3> HIDE DEF f
    <3>5. \A j \in 1 .. Len(f) :
            IsWorkspace(f[j]) => j + o \in 1 .. Len(v.future) /\ v.future[j + o] = f[j]
      BY <3>4, <3>2, <1>0
    <3>6. Fewer(f, v.future) /\ Fewer(v.past, v.past)
      <4>1. o \in Nat /\ f \in Seq(E) /\ v.future \in Seq(E)
        BY <3>2, <3>4, <1>0
      <4>2. Fewer(f, v.future)
        BY <4>1, <3>5, FewerByShift
      <4> QED BY <4>2, FewerFacts
    <3>7. /\ d \in StackOver(E) /\ d.locked = v.locked /\ d.versionId = v.versionId
          /\ d.past = v.past /\ d.future = f
      BY <3>3, <3>4 DEF StackOver
    <3> QED BY <3>6, <3>7, <1>0
  <2> QED BY <2>3, <2>4, <2>5
<1> QED BY <1>6, <1>7 DEF d

\* restoreSnapshot of the service.
LEMMA RestoreKeeps ==
  ASSUME NEW n \in Nat, NEW E, NEW s, IsService(s, n, E), Numbered(E, n), NEW models
  PROVE  IsService(Restore(s, models), n, E) /\ Keeps(s, Restore(s, models))
<1> DEFINE rs == {r \in models \cap Resource : initial[r] # <<>> /\ s.editStacks[r] # 0}
<1> DEFINE is == {StackId(s, r) : r \in rs}
<1> DEFINE C(x, r) == NextVersion(RestoredStack(x, initial[r][1]))
<1> DEFINE u == [r \in Resource |-> [k \in DOMAIN s.stacks[r] |->
                   IF <<r, k>> \in is THEN C(s.stacks[r][k], r) ELSE s.stacks[r][k]]]
<1> DEFINE c == [s EXCEPT !.stacks = u]
<1> DEFINE e == [r \in Resource |-> IF r \in rs /\ Elements(StackOf(c, r)) = {} THEN 0
                                    ELSE s.editStacks[r]]
<1> DEFINE g == UNION {Removals(r, Marked(StackOf(s, r), initial[r][1])) : r \in rs}
<1> DEFINE t == Restore(s, models)
<1>1. t = [c EXCEPT !.editStacks = e, !.removed = @ \cup g]
  BY Zenon DEF Restore, ChangeStacks, NextVersion
<1>2. IsMap(u, Resource) /\ \A r \in Resource : IsMap(u[r], DOMAIN s.stacks[r])
  BY DEF IsMap
<1>3. ASSUME NEW r \in Resource, NEW k \in 1 .. Len(s.stacks[r])
      PROVE  u[r][k] = IF <<r, k>> \in is THEN C(s.stacks[r][k], r) ELSE s.stacks[r][k]
  <2>1. DOMAIN s.stacks[r] = 1 .. Len(s.stacks[r])
    BY StackTypes
  <2> HIDE DEF C, is
  <2> QED BY <2>1
<1>4. c = [s EXCEPT !.stacks = u]
  OBVIOUS
<1>5. \A r \in Resource :
        e[r] = IF r \in rs /\ Elements(StackOf(c, r)) = {} THEN 0 ELSE s.editStacks[r]
  OBVIOUS
<1>6. e = [r \in Resource |-> e[r]]
  OBVIOUS
<1>7. rs \subseteq Resource
  OBVIOUS
<1>8. \A r \in rs : <<r, s.editStacks[r]>> \in is
  BY DEF StackId
<1>9. g \subseteq (1 .. n) \X Resource
  BY StackTypes, RestoredFacts, RemovalsType
<1>10. \A r \in Resource : \A x : C(x, r) = NextVersion(RestoredStack(x, initial[r][1]))
  OBVIOUS
<1> HIDE DEF rs, is, C, u, c, e, g, t
<1>11. c = [stacks |-> u, editStacks |-> s.editStacks, removed |-> s.removed, invalid |-> s.invalid]
  BY <1>4, ServiceFields
<1>12. t = [stacks |-> u, editStacks |-> e, removed |-> s.removed \cup g, invalid |-> s.invalid]
  BY <1>1, <1>11
<1>13. /\ t.stacks = u /\ t.editStacks = e /\ t.removed = s.removed \cup g
       /\ t.invalid = s.invalid
  BY <1>12
<1>14. ASSUME NEW r \in Resource PROVE e[r] \in {s.editStacks[r], 0}
  BY <1>5
<1>15. e \in [Resource -> Nat]
  <2>1. \A r \in Resource : e[r] \in Nat
    BY <1>14, ServiceFields
  <2> QED BY <1>6, <2>1
<1>16. ASSUME NEW r \in Resource, NEW k \in 1 .. Len(s.stacks[r])
       PROVE  /\ u[r][k] \in StackOver(E)
              /\ \/ Lessened(u[r][k], s.stacks[r][k])
                 \/ u[r][k] = s.stacks[r][k] /\ (s.editStacks[r] = k => e[r] = k)
  <2> DEFINE x == s.stacks[r][k]
  <2>1. x \in StackOver(E)
    BY StackTypes
  <2>2. u[r][k] = IF <<r, k>> \in is THEN C(x, r) ELSE x
    BY <1>3
  <2> HIDE DEF x
  <2>3. CASE <<r, k>> \in is
    <3> DEFINE y == RestoredStack(x, initial[r][1])
    <3>1. /\ y \in StackOver(E) /\ y.locked = x.locked /\ y.versionId = x.versionId
          /\ \A side \in Sides : Fewer(y[side], x[side])
      BY <2>1, RestoredFacts
    <3>2. u[r][k] = NextVersion(y)
      BY <2>2, <2>3, <1>10
    <3> HIDE DEF y
    <3>3. /\ u[r][k] \in StackOver(E) /\ Later(u[r][k], y)
          /\ \A side \in Sides : u[r][k][side] = y[side]
      BY <3>1, <3>2, NextVersionFacts
    <3>4. Lessened(u[r][k], x)
      BY <3>1, <3>3 DEF Later, Lessened
    <3> QED BY <3>3, <3>4 DEF x
  <2>4. CASE <<r, k>> \notin is
    <3>1. s.editStacks[r] = k => r \notin rs
      BY <1>8, <2>4
    <3>2. s.editStacks[r] = k => e[r] = k
      BY <3>1, <1>5
    <3> QED BY <2>1, <2>2, <2>4, <3>2 DEF x
  <2> QED BY <2>3, <2>4
<1>17. IsService(t, n, E) /\ Keeps(s, t)
  <2>1. /\ IsMap(t.stacks, Resource) /\ \A r \in Resource : IsMap(t.stacks[r], DOMAIN s.stacks[r])
        /\ t.editStacks \in [Resource -> Nat]
        /\ \A r \in Resource : t.editStacks[r] \in {s.editStacks[r], 0}
        /\ t.removed \subseteq (1 .. n) \X Resource /\ t.invalid \subseteq E \X Resource
    BY <1>2, <1>9, <1>13, <1>14, <1>15, ServiceFields
  <2>2. \A r \in Resource : \A k \in 1 .. Len(s.stacks[r]) :
           /\ t.stacks[r][k] \in StackOver(E)
           /\ \/ Lessened(t.stacks[r][k], s.stacks[r][k])
              \/ /\ t.stacks[r][k] = s.stacks[r][k]
                 /\ s.editStacks[r] = k => t.editStacks[r] = k
    BY <1>13, <1>16
  <2>3. t = [stacks |-> t.stacks, editStacks |-> t.editStacks,
             removed |-> t.removed, invalid |-> t.invalid]
    BY <1>12, <1>13
  <2> QED BY <2>1, <2>2, <2>3, StackwiseKeeps
<1> QED BY <1>17 DEF t

\* Stacks that are locked or released.
LEMMA SetLockedFacts ==
  ASSUME NEW n \in Nat, NEW E, NEW s, IsService(s, n, E), NEW is, NEW locked \in BOOLEAN
  PROVE  LET t == SetLocked(s, is, locked)
         IN  /\ IsService(t, n, E) /\ Ages(s, t) /\ Shrinks(s, t)
             /\ \A r \in Resource :
                  /\ Len(t.stacks[r]) = Len(s.stacks[r])
                  /\ \A k \in 1 .. Len(s.stacks[r]) :
                       /\ <<r, k>> \in is => t.stacks[r][k].locked = locked
                       /\ <<r, k>> \notin is => t.stacks[r][k].locked = s.stacks[r][k].locked
<1> DEFINE t == SetLocked(s, is, locked)
<1> DEFINE C(x) == [x EXCEPT !.locked = locked]
<1> DEFINE u == [r \in Resource |-> [k \in DOMAIN s.stacks[r] |->
                   IF <<r, k>> \in is THEN C(s.stacks[r][k]) ELSE s.stacks[r][k]]]
<1>1. t = [s EXCEPT !.stacks = u]
  BY Zenon DEF SetLocked
<1>2. IsMap(u, Resource) /\ \A r \in Resource : IsMap(u[r], DOMAIN s.stacks[r])
  BY DEF IsMap
<1>3. ASSUME NEW r \in Resource
      PROVE  /\ DOMAIN s.stacks[r] = 1 .. Len(s.stacks[r])
             /\ \A k \in 1 .. Len(s.stacks[r]) :
                  u[r][k] = IF <<r, k>> \in is THEN C(s.stacks[r][k]) ELSE s.stacks[r][k]
  <2>1. DOMAIN s.stacks[r] = 1 .. Len(s.stacks[r])
    BY StackTypes
  <2> HIDE DEF C
  <2> QED BY <2>1
<1>4. ASSUME NEW x \in StackOver(E)
      PROVE  /\ C(x) \in StackOver(E) /\ C(x).locked = locked /\ C(x).versionId = x.versionId
             /\ \A side \in Sides : C(x)[side] = x[side]
  BY DEF StackOver, Sides
<1> HIDE DEF t, C, u
<1>5. t = [stacks |-> u, editStacks |-> s.editStacks, removed |-> s.removed, invalid |-> s.invalid]
  BY <1>1, ServiceFields
<1>6. ASSUME NEW r \in Resource, NEW k \in 1 .. Len(s.stacks[r])
      PROVE  /\ u[r][k] \in StackOver(E)
             /\ <<r, k>> \in is => u[r][k].locked = locked
             /\ <<r, k>> \notin is => u[r][k].locked = s.stacks[r][k].locked
             /\ u[r][k].versionId = s.stacks[r][k].versionId
             /\ \A side \in Sides : u[r][k][side] = s.stacks[r][k][side]
  <2>1. s.stacks[r][k] \in StackOver(E)
    BY StackTypes
  <2>2. CASE <<r, k>> \in is
    BY <2>1, <2>2, <1>3, <1>4
  <2>3. CASE <<r, k>> \notin is
    BY <2>1, <2>3, <1>3
  <2> QED BY <2>2, <2>3
<1>7. /\ u \in [Resource -> Seq(StackOver(E))]
      /\ \A r \in Resource : Len(u[r]) = Len(s.stacks[r])
  <2>1. ASSUME NEW r \in Resource PROVE u[r] \in [1 .. Len(s.stacks[r]) -> StackOver(E)]
    <3>1. IsMap(u[r], 1 .. Len(s.stacks[r]))
      BY <1>2, <1>3
    <3> QED BY <3>1, <1>6 DEF IsMap
  <2> QED BY <1>2, <2>1, StackwiseType
<1>8. t.stacks = u /\ t.editStacks = s.editStacks
  BY <1>5
<1>9. IsService(t, n, E)
  <2>1. t \in [stacks : [Resource -> Seq(StackOver(E))], editStacks : [Resource -> Nat],
               removed : SUBSET ((1 .. n) \X Resource), invalid : SUBSET (E \X Resource)]
    BY <1>5, <1>7, ServiceFields
  <2>2. \A r \in Resource : t.editStacks[r] <= Len(t.stacks[r])
    BY <1>7, <1>8, StackTypes
  <2> QED BY <2>1, <2>2 DEF IsService
<1>10. Ages(s, t)
  <2>1. ASSUME NEW r \in Resource, NEW k \in 1 .. Len(s.stacks[r])
        PROVE  /\ s.stacks[r][k].versionId <= t.stacks[r][k].versionId
               /\ s.editStacks[r] = k => t.editStacks[r] = k
    <3>1. s.stacks[r][k].versionId \in Nat
      BY StackTypes DEF StackOver
    <3>2. t.stacks[r][k].versionId = s.stacks[r][k].versionId
      BY <1>6, <1>8
    <3> DEFINE a == s.stacks[r][k].versionId
    <3>3. a <= t.stacks[r][k].versionId
      <4> HIDE DEF a
      <4>1. a \in Nat => a <= a
        OBVIOUS
      <4> QED BY <3>1, <3>2, <4>1 DEF a
    <3> QED BY <3>3, <1>8
  <2>2. \A r \in Resource : Len(s.stacks[r]) <= Len(t.stacks[r])
    BY <1>7, <1>8, StackTypes
  <2> QED BY <2>1, <2>2 DEF Ages
<1>11. Shrinks(s, t)
  <2>1. \A r \in Resource : \A k \in 1 .. Len(s.stacks[r]) : \A side \in Sides :
          Fewer(t.stacks[r][k][side], s.stacks[r][k][side])
    BY <1>6, <1>8, FewerFacts
  <2> QED BY <1>8, <1>9, <2>1, ShrinksWhenLessened
<1> QED BY <1>6, <1>7, <1>8, <1>9, <1>10, <1>11 DEF t

\* A service is one for more elements, too.
LEMMA IsServiceOfMore ==
  ASSUME NEW n \in Nat, NEW E, NEW s, IsService(s, n, E), NEW F, E \subseteq F
  PROVE  IsService(s, n + 1, F)
<1>1. StackOver(E) \subseteq StackOver(F)
  BY DEF StackOver
<1>2. \A q : q \in Seq(StackOver(E)) => q \in Seq(StackOver(F))
  <2> DEFINE A == StackOver(E)
  <2> DEFINE B == StackOver(F)
  <2>1. A \subseteq B
    BY <1>1
  <2> HIDE DEF A, B
  <2>2. \A q : q \in Seq(A) => q \in Seq(B)
    BY <2>1
  <2> QED BY <2>2 DEF A, B
<1>3. \A r \in Resource : s.stacks[r] \in Seq(StackOver(E))
  BY ServiceFields
<1>4. s.stacks \in [Resource -> Seq(StackOver(F))]
  <2>1. IsMap(s.stacks, Resource)
    BY ServiceFields
  <2>2. \A r \in Resource : s.stacks[r] \in Seq(StackOver(F))
    BY <1>2, <1>3
  <2> QED BY <2>1, <2>2 DEF IsMap
<1>5. s.removed \subseteq (1 .. n + 1) \X Resource /\ s.invalid \subseteq F \X Resource
  <2>1. 1 .. n \subseteq 1 .. n + 1
    OBVIOUS
  <2> QED BY <2>1, ServiceFields
<1>6. s = [stacks |-> s.stacks, editStacks |-> s.editStacks, removed |-> s.removed,
           invalid |-> s.invalid]
  BY ServiceFields
<1>7. s \in [stacks : [Resource -> Seq(StackOver(F))], editStacks : [Resource -> Nat],
             removed : SUBSET ((1 .. n + 1) \X Resource), invalid : SUBSET (F \X Resource)]
  BY <1>4, <1>5, <1>6, ServiceFields
<1> QED BY <1>7 DEF IsService

\* What a push makes of a stack that is there
Pushed(v, x) == [v EXCEPT !.past = Append(@, x), !.future = <<>>]

\* A stack that an element was pushed on.
LEMMA PushedFacts ==
  ASSUME NEW E, NEW v \in StackOver(E), NEW x \in E
  PROVE  /\ Pushed(v, x) \in StackOver(E)
         /\ Pushed(v, x).locked = v.locked /\ Pushed(v, x).versionId = v.versionId
         /\ Pushed(v, x).past = Append(v.past, x) /\ Pushed(v, x).future = <<>>
<1> DEFINE a == Append(v.past, x)
<1> DEFINE b == <<>>
<1>1. a \in Seq(E) /\ b \in Seq(E)
  BY DEF StackOver
<1>2. Pushed(v, x) = [v EXCEPT !.past = a, !.future = b]
  BY DEF Pushed
<1> HIDE DEF a, b
<1>3. /\ Pushed(v, x) \in StackOver(E)
      /\ Pushed(v, x).locked = v.locked /\ Pushed(v, x).versionId = v.versionId
      /\ Pushed(v, x).past = a /\ Pushed(v, x).future = b
  BY <1>1, <1>2 DEF StackOver
<1> QED BY <1>3 DEF a, b

\* pushElement: no lock and no version is lost, and a new stack is not locked.
LEMMA PushElementFacts ==
  ASSUME NEW n \in Nat, NEW E, NEW s, IsService(s, n, E), Numbered(E, n),
         NEW x \in E, Resources(x) \subseteq Resource
  PROVE  LET t == PushElement(s, x)
         IN  /\ IsService(t, n, E) /\ SameLocks(s, t) /\ Ages(s, t)
             /\ \A r \in Resource :
                  IF r \in Resources(x)
                  THEN StackOf(t, r).past = Append(StackOf(s, r).past, x)
                       /\ StackOf(t, r).future = <<>>
                  ELSE StackOf(t, r).past = StackOf(s, r).past
                       /\ StackOf(t, r).future = StackOf(s, r).future
<1> DEFINE rs == Resources(x)
<1> DEFINE new == {r \in rs : s.editStacks[r] = 0}
<1> DEFINE is == {StackId(s, r) : r \in rs}
<1> DEFINE w == [r \in Resource |->
                  [k \in DOMAIN s.stacks[r] |-> NextVersion(Pushed(s.stacks[r][k], x))]]
<1> DEFINE y == [r \in Resource |-> [k \in DOMAIN s.stacks[r] |-> Pushed(s.stacks[r][k], x)]]
<1> DEFINE c == WithStacks(s, is, w)
<1> DEFINE u == [r \in Resource |-> IF r \in new THEN Append(c.stacks[r], EditStack(<<x>>))
                                    ELSE c.stacks[r]]
<1> DEFINE e == [r \in Resource |-> IF r \in new THEN Len(s.stacks[r]) + 1 ELSE s.editStacks[r]]
<1> DEFINE g == UNION {Removals(r, ToSet(StackOf(s, r).future)) : r \in rs}
<1> DEFINE t == PushElement(s, x)
<1>1. t = [c EXCEPT !.stacks = u, !.editStacks = e, !.removed = @ \cup g]
  <2> DEFINE d == [s EXCEPT !.stacks = [r \in Resource |-> [k \in DOMAIN s.stacks[r] |->
                     IF <<r, k>> \in is THEN NextVersion(Pushed(s.stacks[r][k], x))
                     ELSE s.stacks[r][k]]]]
  <2>1. d = c
    BY DEF WithStacks
  <2>2. t = [d EXCEPT
               !.stacks = [r \in Resource |-> IF r \in new THEN Append(d.stacks[r], EditStack(<<x>>))
                                              ELSE d.stacks[r]],
               !.editStacks = e, !.removed = @ \cup g]
    BY Zenon DEF PushElement, ChangeStacks, NextVersion, Pushed
  <2> HIDE DEF d, c, e, g, t, new
  <2> QED BY <2>1, <2>2
<1>2. ASSUME NEW r \in Resource, NEW k \in 1 .. Len(s.stacks[r])
      PROVE  /\ y[r][k] = Pushed(s.stacks[r][k], x)
             /\ w[r][k] = NextVersion(Pushed(s.stacks[r][k], x))
             /\ s.stacks[r][k] \in StackOver(E)
  <2>1. DOMAIN s.stacks[r] = 1 .. Len(s.stacks[r])
    BY StackTypes
  <2> QED BY <2>1, StackTypes
<1>3. ASSUME NEW r \in Resource
      PROVE  /\ u[r] = IF r \in new THEN Append(c.stacks[r], EditStack(<<x>>)) ELSE c.stacks[r]
             /\ e[r] = IF r \in new THEN Len(s.stacks[r]) + 1 ELSE s.editStacks[r]
  OBVIOUS
<1>4. IsMap(u, Resource) /\ e = [r \in Resource |-> e[r]]
  BY DEF IsMap
<1>5. g \subseteq (1 .. n) \X Resource
  <2>1. ASSUME NEW r \in rs PROVE ToSet(StackOf(s, r).future) \subseteq E
    <3>1. StackOf(s, r) \in StackOver(E)
      BY StackTypes
    <3> QED BY <3>1, ElementsType DEF Elements
  <2> QED BY <2>1, RemovalsType
<1>6. \A r \in Resource : r \in new <=> r \in rs /\ s.editStacks[r] = 0
  OBVIOUS
<1>7. \A r \in Resource : \A k : <<r, k>> \in is <=> r \in rs /\ k = s.editStacks[r]
  BY DEF StackId
<1>8. c = WithStacks(s, is, w)
  OBVIOUS
<1> DEFINE z == EditStack(<<x>>)
<1>9. z \in StackOver(E) /\ z.locked = FALSE /\ z.past = <<x>> /\ z.future = <<>>
  BY DEF EditStack, StackOver
<1> HIDE DEF new, is, w, y, c, u, e, g, t, z
<1>10. ASSUME NEW r \in Resource, NEW k \in 1 .. Len(s.stacks[r]), <<r, k>> \in is
       PROVE  /\ w[r][k] = NextVersion(y[r][k]) /\ y[r][k] \in StackOver(E)
              /\ y[r][k].locked = s.stacks[r][k].locked
              /\ y[r][k].versionId = s.stacks[r][k].versionId
              /\ y[r][k].past = Append(s.stacks[r][k].past, x) /\ y[r][k].future = <<>>
  <2> DEFINE v == s.stacks[r][k]
  <2>1. y[r][k] = Pushed(v, x) /\ w[r][k] = NextVersion(Pushed(v, x)) /\ v \in StackOver(E)
    BY <1>2
  <2> HIDE DEF v
  <2>2. /\ w[r][k] = NextVersion(y[r][k]) /\ y[r][k] \in StackOver(E)
        /\ y[r][k].locked = v.locked /\ y[r][k].versionId = v.versionId
        /\ y[r][k].past = Append(v.past, x) /\ y[r][k].future = <<>>
    BY <2>1, PushedFacts
  <2> QED BY <2>2 DEF v
<1>11. /\ IsService(c, n, E) /\ SameLocks(s, c) /\ Ages(s, c)
       /\ \A r \in Resource : Len(c.stacks[r]) = Len(s.stacks[r])
       /\ \A r \in Resource : \A k \in 1 .. Len(s.stacks[r]) :
            c.stacks[r][k] = IF <<r, k>> \in is THEN NextVersion(y[r][k]) ELSE s.stacks[r][k]
       /\ c.editStacks = s.editStacks
  <2>1. \A r \in Resource : \A k \in 1 .. Len(s.stacks[r]) :
           <<r, k>> \in is =>
             /\ w[r][k] = NextVersion(y[r][k])
             /\ y[r][k] \in StackOver(E)
             /\ y[r][k].locked = s.stacks[r][k].locked
             /\ y[r][k].versionId = s.stacks[r][k].versionId
    BY <1>10
  <2> QED BY <1>8, <2>1, ChangedBy, SMTT(30)
<1>12. t = [stacks |-> u, editStacks |-> e, removed |-> c.removed \cup g, invalid |-> c.invalid]
  <2>1. c \in [stacks : [Resource -> Seq(StackOver(E))], editStacks : [Resource -> Nat],
               removed : SUBSET ((1 .. n) \X Resource), invalid : SUBSET (E \X Resource)]
    BY <1>11, ServiceFields
  <2>2. c = [stacks |-> c.stacks, editStacks |-> c.editStacks, removed |-> c.removed,
             invalid |-> c.invalid]
    BY <2>1
  <2> QED BY <1>1, <2>2
<1>13. t.stacks = u /\ t.editStacks = e
  BY <1>12
<1>14. ASSUME NEW r \in Resource
       PROVE  /\ u[r] \in Seq(StackOver(E)) /\ Len(s.stacks[r]) \in Nat
              /\ s.editStacks[r] \in 0 .. Len(s.stacks[r])
              /\ Len(u[r]) = IF r \in new THEN Len(s.stacks[r]) + 1 ELSE Len(s.stacks[r])
              /\ \A k \in 1 .. Len(s.stacks[r]) : u[r][k] = c.stacks[r][k]
              /\ r \in new => u[r][Len(s.stacks[r]) + 1] = z
  <2> DEFINE q == c.stacks[r]
  <2> DEFINE N == Len(s.stacks[r])
  <2>1. q \in Seq(StackOver(E)) /\ Len(q) = N /\ N \in Nat /\ s.editStacks[r] \in 0 .. N
    BY <1>11, StackTypes
  <2>2. u[r] = IF r \in new THEN Append(q, z) ELSE q
    BY <1>3 DEF z
  <2> HIDE DEF q, N
  <2>3. /\ u[r] \in Seq(StackOver(E)) /\ Len(u[r]) = IF r \in new THEN N + 1 ELSE N
        /\ \A k \in 1 .. N : u[r][k] = q[k]
        /\ r \in new => u[r][N + 1] = z
    BY <2>1, <2>2, <1>9
  <2> QED BY <2>1, <2>3 DEF q, N
<1>15. e \in [Resource -> Nat] /\ \A r \in Resource : e[r] <= Len(u[r])
  <2>1. ASSUME NEW r \in Resource PROVE e[r] \in Nat /\ e[r] <= Len(u[r])
    BY <1>3, <1>14
  <2> QED BY <2>1, <1>4
<1>16. IsService(t, n, E)
  <2>1. u \in [Resource -> Seq(StackOver(E))]
    BY <1>4, <1>14 DEF IsMap
  <2>2. c.removed \cup g \subseteq (1 .. n) \X Resource /\ c.invalid \subseteq E \X Resource
    BY <1>5, <1>11, ServiceFields
  <2>3. t \in [stacks : [Resource -> Seq(StackOver(E))], editStacks : [Resource -> Nat],
               removed : SUBSET ((1 .. n) \X Resource), invalid : SUBSET (E \X Resource)]
    BY <1>12, <1>15, <2>1, <2>2
  <2> QED BY <2>3, <1>13, <1>15 DEF IsService
<1>17. SameLocks(s, t)
  <2>1. SUFFICES ASSUME NEW r \in Resource
                 PROVE  /\ Len(s.stacks[r]) <= Len(t.stacks[r])
                        /\ \A k \in 1 .. Len(t.stacks[r]) :
                             t.stacks[r][k].locked <=> k <= Len(s.stacks[r]) /\ s.stacks[r][k].locked
    BY DEF SameLocks
  <2>2. Len(s.stacks[r]) <= Len(t.stacks[r])
    BY <1>13, <1>14
  <2>3. ASSUME NEW k \in 1 .. Len(t.stacks[r])
        PROVE  t.stacks[r][k].locked <=> k <= Len(s.stacks[r]) /\ s.stacks[r][k].locked
    <3>1. CASE k <= Len(s.stacks[r])
      <4>1. k \in 1 .. Len(s.stacks[r]) /\ k \in 1 .. Len(c.stacks[r])
        BY <3>1, <1>11, <1>14
      <4>2. c.stacks[r][k].locked <=> k <= Len(s.stacks[r]) /\ s.stacks[r][k].locked
        BY <4>1, <1>11 DEF SameLocks
      <4> QED BY <4>1, <4>2, <1>13, <1>14
    <3>2. CASE ~(k <= Len(s.stacks[r]))
      <4>1. k = Len(s.stacks[r]) + 1 /\ r \in new
        BY <3>2, <1>13, <1>14
      <4> QED BY <4>1, <3>2, <1>9, <1>13, <1>14
    <3> QED BY <3>1, <3>2
  <2> QED BY <2>2, <2>3
<1>18. Ages(s, t)
  <2>1. SUFFICES ASSUME NEW r \in Resource
                 PROVE  /\ Len(s.stacks[r]) <= Len(t.stacks[r])
                        /\ \A k \in 1 .. Len(s.stacks[r]) :
                             /\ s.stacks[r][k].versionId <= t.stacks[r][k].versionId
                             /\ s.stacks[r][k].versionId = t.stacks[r][k].versionId
                                  /\ s.editStacks[r] = k => t.editStacks[r] = k
    BY DEF Ages
  <2>2. Len(s.stacks[r]) <= Len(t.stacks[r])
    BY <1>13, <1>14
  <2>3. ASSUME NEW k \in 1 .. Len(s.stacks[r])
        PROVE  /\ s.stacks[r][k].versionId <= t.stacks[r][k].versionId
               /\ s.editStacks[r] = k => t.editStacks[r] = k
    <3>1. s.stacks[r][k].versionId <= c.stacks[r][k].versionId
      BY <1>11 DEF Ages
    <3>2. t.stacks[r][k] = c.stacks[r][k]
      BY <1>13, <1>14
    <3>3. s.editStacks[r] = k => r \notin new
      BY <1>6
    <3> QED BY <3>1, <3>2, <3>3, <1>3, <1>13
  <2> QED BY <2>2, <2>3
<1>19. ASSUME NEW r \in Resource
       PROVE  IF r \in Resources(x)
              THEN StackOf(t, r).past = Append(StackOf(s, r).past, x) /\ StackOf(t, r).future = <<>>
              ELSE /\ StackOf(t, r).past = StackOf(s, r).past
                   /\ StackOf(t, r).future = StackOf(s, r).future
  <2> DEFINE k == s.editStacks[r]
  <2>1. /\ StackOf(s, r) = IF k = 0 THEN Missing ELSE s.stacks[r][k]
        /\ k \in 0 .. Len(s.stacks[r]) /\ Len(s.stacks[r]) \in Nat
    BY StackTypes
  <2>2. StackOf(t, r) = IF e[r] = 0 THEN Missing ELSE u[r][e[r]]
    BY <1>13, <1>16, StackTypes
  <2>3. CASE r \in new
    <3>1. e[r] = Len(s.stacks[r]) + 1 /\ e[r] # 0
      BY <2>1, <2>3, <1>3
    <3>2. StackOf(t, r) = z
      BY <3>1, <2>2, <2>3, <1>14
    <3>3. r \in rs /\ StackOf(s, r) = Missing
      BY <2>1, <2>3, <1>6
    <3>4. Append(StackOf(s, r).past, x) = <<x>>
      BY <3>3 DEF Missing
    <3> QED BY <3>2, <3>3, <3>4, <1>9
  <2>4. CASE r \notin new /\ k = 0
    <3>1. r \notin rs /\ e[r] = 0
      BY <2>4, <1>3, <1>6
    <3>2. StackOf(t, r) = StackOf(s, r)
      BY <3>1, <2>1, <2>2, <2>4
    <3> QED BY <3>1, <3>2
  <2>5. CASE r \notin new /\ k # 0
    <3>1. e[r] = k /\ k \in 1 .. Len(s.stacks[r])
      BY <2>1, <2>5, <1>3
    <3>2. StackOf(t, r) = c.stacks[r][k] /\ StackOf(s, r) = s.stacks[r][k]
      BY <3>1, <2>1, <2>2, <2>5, <1>14, SMTT(30)
    <3>3. CASE r \in rs
      <4>1. <<r, k>> \in is
        BY <3>3, <1>7
      <4>2. c.stacks[r][k] = NextVersion(y[r][k])
        BY <3>1, <4>1, <1>11, SMTT(30)
      <4>3. /\ y[r][k] \in StackOver(E)
            /\ y[r][k].past = Append(s.stacks[r][k].past, x) /\ y[r][k].future = <<>>
        BY <3>1, <4>1, <1>10
      <4>4. /\ c.stacks[r][k].past = y[r][k].past
            /\ c.stacks[r][k].future = y[r][k].future
        BY <4>2, <4>3, NextVersionFacts DEF Sides
      <4> QED BY <3>2, <3>3, <4>3, <4>4
    <3>4. CASE r \notin rs
      <4>1. <<r, k>> \notin is
        BY <3>4, <1>7
      <4>2. c.stacks[r][k] = s.stacks[r][k]
        BY <3>1, <4>1, <1>11
      <4> QED BY <3>2, <3>4, <4>2
    <3> QED BY <3>3, <3>4
  <2> QED BY <2>3, <2>4, <2>5
<1> QED BY <1>16, <1>17, <1>18, <1>19 DEF t

\* A set of numbers up to n has a least one.
LEMMA Least ==
  ASSUME NEW n \in Nat, NEW S, S \subseteq 1 .. n, S # {}
  PROVE  Min(S) \in S /\ \A k \in S : Min(S) <= k
<1> DEFINE U == {n + 1 - k : k \in S}
<1>1. U \subseteq 1 .. n /\ U # {}
  <2>1. \A k \in S : n + 1 - k \in 1 .. n
    OBVIOUS
  <2>2. PICK k \in S : TRUE
    OBVIOUS
  <2>3. n + 1 - k \in U
    BY <2>2
  <2> QED BY <2>1, <2>3
<1>2. Max(U) \in U /\ \A k \in U : k <= Max(U)
  <2> HIDE DEF U
  <2> QED BY <1>1, Greatest
<1>3. PICK k \in S : Max(U) = n + 1 - k
  BY <1>2
<1>4. \A j \in S : n + 1 - j \in U
  OBVIOUS
<1>5. \A j \in S : k <= j
  <2>1. ASSUME NEW j \in S PROVE k <= j
    <3>1. n + 1 - j <= n + 1 - k
      BY <1>2, <1>3, <1>4
    <3> QED BY <3>1
  <2> QED BY <2>1
<1>6. \E x \in S : \A y \in S : x <= y
  BY <1>5
<1>7. Min(S) \in S /\ \A y \in S : Min(S) <= y
  BY <1>6 DEF Min
<1> QED BY <1>7

(***************************************************************************)
(* The elements that there can be.                                         *)
(***************************************************************************)
\* The plan has that many edits.
PlanOK == plan \in Seq(PlannedEdits) /\ pushed \in 0 .. Len(plan)

\* The elements of the first n edits of a plan
ElementsOf(p, n) ==
  {Element(i, p[i].models) : i \in 1 .. n} \cup
  UNION {{Element(i, <<m>>) : m \in ToSet(p[i].models)} : i \in 1 .. n}

\* The elements of edits and of their parts.
LEMMA ElementsOfFacts ==
  ASSUME NEW p \in Seq(PlannedEdits), NEW n \in 0 .. Len(p)
  PROVE  /\ Numbered(ElementsOf(p, n), n)
         /\ \A x \in ElementsOf(p, n) :
              /\ x.of \in 1 .. n /\ x.of # 0 /\ x.on \in Seq(Model)
              /\ x = Element(x.of, x.on) /\ Resources(x) \subseteq Resource
              /\ ToSet(x.on) \subseteq ToSet(p[x.of].models)
              /\ x # NoElement
         /\ \A k \in 0 .. Len(p) : n <= k => ElementsOf(p, n) \subseteq ElementsOf(p, k)
         /\ \A i \in 1 .. n : Element(i, p[i].models) \in ElementsOf(p, n)
<1>0. ASSUME NEW i \in 1 .. Len(p) PROVE p[i].models \in Seq(Model)
  <2>1. p[i] \in PlannedEdits
    OBVIOUS
  <2> QED BY <2>1 DEF PlannedEdits
<1>1. ASSUME NEW x \in ElementsOf(p, n)
      PROVE  /\ x.of \in 1 .. n /\ x.on \in Seq(Model) /\ x = Element(x.of, x.on)
             /\ ToSet(x.on) \subseteq ToSet(p[x.of].models)
  <2>1. CASE \E i \in 1 .. n : x = Element(i, p[i].models)
    <3>1. PICK i \in 1 .. n : x = Element(i, p[i].models)
      BY <2>1
    <3> QED BY <3>1, <1>0 DEF Element
  <2>2. CASE \E i \in 1 .. n : \E m \in ToSet(p[i].models) : x = Element(i, <<m>>)
    <3>0. PICK i \in 1 .. n : \E m \in ToSet(p[i].models) : x = Element(i, <<m>>)
      BY <2>2
    <3>1. PICK m \in ToSet(p[i].models) : x = Element(i, <<m>>)
      BY <3>0
    <3>4. m \in Model
      BY <3>1, <1>0 DEF ToSet
    <3> DEFINE o == <<m>>
    <3>5. o \in Seq(Model) /\ ToSet(o) = {m}
      BY <3>4 DEF ToSet
    <3> HIDE DEF o
    <3>6. x = [of |-> i, on |-> o]
      BY <3>1 DEF Element, o
    <3>7. x.of = i /\ x.on = o
      BY <3>6
    <3>8. x = Element(x.of, x.on)
      BY <3>6, <3>7 DEF Element
    <3> QED BY <3>1, <3>5, <3>7, <3>8
  <2> QED BY <2>1, <2>2, Zenon DEF ElementsOf
<1>2. ASSUME NEW x \in ElementsOf(p, n) PROVE Resources(x) \subseteq Resource
  BY <1>1 DEF Resources, Resource, ToSet
<1>3. ASSUME NEW x \in ElementsOf(p, n) PROVE x.of # 0 /\ x # NoElement
  <2>1. x.of # 0
    BY <1>1
  <2>2. NoElement.of = 0
    BY DEF NoElement, Element
  <2> QED BY <2>1, <2>2
<1>4. ASSUME NEW k \in 0 .. Len(p), n <= k
      PROVE  ElementsOf(p, n) \subseteq ElementsOf(p, k)
  <2>1. 1 .. n \subseteq 1 .. k
    BY <1>4
  <2> DEFINE A == 1 .. n
  <2> DEFINE B == 1 .. k
  <2> DEFINE W(i) == Element(i, p[i].models)
  <2> DEFINE P(i) == {Element(i, <<m>>) : m \in ToSet(p[i].models)}
  <2>2. ElementsOf(p, n) = {W(i) : i \in A} \cup UNION {P(i) : i \in A}
    BY Zenon DEF ElementsOf
  <2>3. ElementsOf(p, k) = {W(i) : i \in B} \cup UNION {P(i) : i \in B}
    BY Zenon DEF ElementsOf
  <2>4. A \subseteq B
    BY <2>1
  <2> HIDE DEF A, B, W, P
  <2> QED BY <2>2, <2>3, <2>4
<1>5. ASSUME NEW i \in 1 .. n PROVE Element(i, p[i].models) \in ElementsOf(p, n)
  BY DEF ElementsOf
<1> QED BY <1>1, <1>2, <1>3, <1>4, <1>5 DEF Numbered

\* The elements of this service are those of the edits made.
LEMMA UndoElementsAre == UndoElements = ElementsOf(plan, pushed)
BY Zenon DEF UndoElements, ElementsOf, Whole

LEMMA ElementFacts ==
  ASSUME PlanOK
  PROVE  /\ Numbered(UndoElements, pushed)
         /\ \A x \in UndoElements :
              /\ x.of \in 1 .. pushed /\ x.of # 0 /\ x.on \in Seq(Model)
              /\ x = Element(x.of, x.on) /\ Resources(x) \subseteq Resource
              /\ ToSet(x.on) \subseteq ToSet(plan[x.of].models)
              /\ x # NoElement
BY UndoElementsAre, ElementsOfFacts DEF PlanOK

\* An element of one model stands for one resource.
LEMMA OneResource ==
  ASSUME NEW i, NEW m
  PROVE  ~IsWorkspace(Element(i, <<m>>))
<1>1. Resources(Element(i, <<m>>)) = {ComparisonKey[m]}
  BY DEF Resources, Element, ToSet
<1>2. Cardinality({ComparisonKey[m]}) = 1
  BY FS_Singleton
<1>3. ~(1 > 1)
  OBVIOUS
<1> QED BY <1>1, <1>2, <1>3 DEF IsWorkspace

\* What an element is split into.
LEMMA SplitElementFacts ==
  ASSUME PlanOK, NEW x \in UndoElements, NEW r \in Resources(x)
  PROVE  SplitElement(x, r) \in UndoElements /\ ~IsWorkspace(SplitElement(x, r))
<1> DEFINE IsOf(m) == ComparisonKey[m] = r
<1> DEFINE I == {i \in 1 .. Len(x.on) : IsOf(x.on[i])}
<1> DEFINE k == SelectLastInSeq(x.on, IsOf)
<1>1. x.on \in Seq(Model) /\ x.of \in 1 .. pushed /\ ToSet(x.on) \subseteq ToSet(plan[x.of].models)
  BY ElementFacts
<1>2. I # {}
  <2>1. PICK m \in ToSet(x.on) : r = ComparisonKey[m]
    BY DEF Resources
  <2>2. PICK i \in 1 .. Len(x.on) : x.on[i] = m
    BY <1>1 DEF ToSet
  <2> QED BY <2>1, <2>2
<1>3. k = IF I # {} THEN Max(I) ELSE 0
  BY Zenon DEF SelectLastInSeq
<1>4. I \subseteq 1 .. Len(x.on) /\ Len(x.on) \in Nat
  BY <1>1
<1>5. SplitElement(x, r) = Element(x.of, <<x.on[k]>>)
  BY Zenon DEF SplitElement
<1> HIDE DEF I, k
<1>6. k \in 1 .. Len(x.on)
  BY <1>2, <1>3, <1>4, Greatest
<1>7. x.on[k] \in ToSet(plan[x.of].models)
  <2>1. x.on[k] \in ToSet(x.on)
    BY <1>1, <1>6 DEF ToSet
  <2> QED BY <2>1, <1>1
<1>8. Element(x.of, <<x.on[k]>>) \in UndoElements
  <2>1. \A m : m \in ToSet(plan[x.of].models) =>
          Element(x.of, <<m>>) \in {Element(x.of, <<o>>) : o \in ToSet(plan[x.of].models)}
    OBVIOUS
  <2> QED BY <2>1, <1>1, <1>7, Zenon DEF UndoElements
<1> QED BY <1>5, <1>8, OneResource

\* _splitPastWorkspaceElement and _splitFutureWorkspaceElement, as far as they get.
LEMMA SplitKeeps ==
  ASSUME PlanOK, NEW s, IsService(s, pushed, UndoElements), NEW x \in UndoElements,
         NEW side \in Sides, NEW ignore
  PROVE  /\ IsService(Split(s, x, side, ignore), pushed, UndoElements)
         /\ Keeps(s, Split(s, x, side, ignore))
<1> DEFINE Lacks(m) == ComparisonKey[m] \notin ignore /\ s.editStacks[ComparisonKey[m]] = 0
<1> DEFINE I == {i \in 1 .. Len(x.on) : Lacks(x.on[i])}
<1> DEFINE k == SelectInSeq(x.on, Lacks)
<1> DEFINE reached == IF Throws(s, x, ignore) THEN SubSeq(x.on, 1, k - 1) ELSE x.on
<1> DEFINE rs == {ComparisonKey[m] : m \in ToSet(reached)} \ ignore
<1>1. Split(s, x, side, ignore) = SplitOn(s, x, rs, side)
  BY Zenon DEF Split
<1>2. k = IF I # {} THEN Min(I) ELSE 0
  BY Zenon DEF SelectInSeq
<1>3. x.on \in Seq(Model) /\ Resources(x) \subseteq Resource
  BY ElementFacts
<1>4. k \in 0 .. Len(x.on)
  <2>1. I \subseteq 1 .. Len(x.on) /\ Len(x.on) \in Nat
    BY <1>3
  <2> HIDE DEF I, k
  <2>2. I # {} => Min(I) \in 1 .. Len(x.on)
    BY <2>1, Least
  <2>3. CASE I # {}
    BY <2>1, <2>2, <2>3, <1>2
  <2>4. CASE I = {}
    BY <2>1, <2>4, <1>2
  <2> QED BY <2>3, <2>4
<1> HIDE DEF k
<1>5. ToSet(reached) \subseteq ToSet(x.on)
  <2>1. CASE Throws(s, x, ignore)
    <3> DEFINE p == SubSeq(x.on, 1, k - 1)
    <3>1. /\ k - 1 \in Int /\ k - 1 <= Len(x.on)
      BY <1>3, <1>4
    <3>2. \A j \in DOMAIN p : j \in DOMAIN x.on /\ p[j] = x.on[j]
      BY <1>3, <1>4
    <3>3. reached = p
      BY <2>1
    <3> HIDE DEF p, reached
    <3> QED BY <3>2, <3>3 DEF ToSet
  <2>2. CASE ~Throws(s, x, ignore)
    BY <2>2
  <2> QED BY <2>1, <2>2
<1>6. \A r \in rs : \E m \in ToSet(reached) : r = ComparisonKey[m]
  OBVIOUS
<1> HIDE DEF reached, rs
<1>7. rs \subseteq Resources(x)
  BY <1>5, <1>6 DEF Resources
<1>8. \A r \in rs : SplitElement(x, r) \in UndoElements /\ ~IsWorkspace(SplitElement(x, r))
  BY <1>7, SplitElementFacts
<1>9. rs \in SUBSET Resource /\ pushed \in Nat
  BY <1>3, <1>7 DEF PlanOK
<1>10. /\ IsService(SplitOn(s, x, rs, side), pushed, UndoElements)
       /\ Keeps(s, SplitOn(s, x, rs, side))
  BY <1>8, <1>9, SplitOnKeeps
<1> QED BY <1>1, <1>10

(***************************************************************************)
(* An element that stands for several resources is in the stacks of these  *)
(* only, once in each, and on the same side of all.                        *)
(***************************************************************************)
\* An edit of several resources is in their stacks only, once, and past or future in all.
TidyFor(s, w) ==
  \A r \in Resource :
    /\ \A side \in Sides : /\ w \in ToSet(StackOf(s, r)[side]) => r \in Resources(w)
                           /\ OnceIn(StackOf(s, r)[side], w)
    /\ \A q \in Resource : w \in ToSet(StackOf(s, r).past) => w \notin ToSet(StackOf(s, q).future)
Tidy(s) == \A w : IsWorkspace(w) => TidyFor(s, w)

\* It stays so when stacks get nothing new of several resources.
LEMMA TidyShrinks ==
  ASSUME NEW s, NEW t, Tidy(s), Shrinks(s, t)
  PROVE  Tidy(t)
<1>1. SUFFICES ASSUME NEW w, IsWorkspace(w) PROVE TidyFor(t, w)
  BY DEF Tidy
<1>2. ASSUME NEW r \in Resource, NEW side \in Sides
      PROVE  /\ w \in ToSet(StackOf(t, r)[side]) => w \in ToSet(StackOf(s, r)[side])
             /\ OnceIn(StackOf(s, r)[side], w) => OnceIn(StackOf(t, r)[side], w)
  BY <1>1 DEF Shrinks, Fewer
<1>3. TidyFor(s, w)
  BY <1>1 DEF Tidy
<1>4. "past" \in Sides /\ "future" \in Sides
  BY DEF Sides
<1>5. ASSUME NEW r \in Resource
      PROVE  /\ \A side \in Sides : /\ w \in ToSet(StackOf(t, r)[side]) => r \in Resources(w)
                                    /\ OnceIn(StackOf(t, r)[side], w)
             /\ \A q \in Resource : w \in ToSet(StackOf(t, r).past) =>
                                      w \notin ToSet(StackOf(t, q).future)
  <2>1. ASSUME NEW side \in Sides
        PROVE  /\ w \in ToSet(StackOf(t, r)[side]) => r \in Resources(w)
               /\ OnceIn(StackOf(t, r)[side], w)
    BY <1>2, <1>3 DEF TidyFor
  <2>2. ASSUME NEW q \in Resource, w \in ToSet(StackOf(t, r).past)
        PROVE  w \notin ToSet(StackOf(t, q).future)
    <3>1. w \in ToSet(StackOf(s, r).past)
      BY <1>2, <1>4, <2>2
    <3>2. w \notin ToSet(StackOf(s, q).future)
      BY <3>1, <1>3 DEF TidyFor
    <3> QED BY <1>2, <1>4, <3>2
  <2> QED BY <2>1, <2>2
<1> QED BY <1>5 DEF TidyFor

\* What a sequence has with another at its end.
LEMMA AppendFacts ==
  ASSUME NEW E, NEW q \in Seq(E), NEW x \in E
  PROVE  /\ ToSet(Append(q, x)) = ToSet(q) \cup {x}
         /\ \A w : w # x /\ OnceIn(q, w) => OnceIn(Append(q, x), w)
         /\ x \notin ToSet(q) => OnceIn(Append(q, x), x)
<1> DEFINE p == Append(q, x)
<1>1. /\ Len(q) \in Nat /\ DOMAIN q = 1 .. Len(q) /\ DOMAIN p = 1 .. Len(q) + 1
      /\ p[Len(q) + 1] = x /\ \A i \in 1 .. Len(q) : p[i] = q[i]
  OBVIOUS
<1> HIDE DEF p
<1>2. ToSet(p) = ToSet(q) \cup {x}
  <2>1. ToSet(p) \subseteq ToSet(q) \cup {x}
    BY <1>1 DEF ToSet
  <2>2. x \in ToSet(p)
    BY <1>1 DEF ToSet
  <2>3. ToSet(q) \subseteq ToSet(p)
    BY <1>1 DEF ToSet
  <2> QED BY <2>1, <2>2, <2>3
<1>3. ASSUME NEW w, w # x, OnceIn(q, w) PROVE OnceIn(p, w)
  BY <1>1, <1>3 DEF OnceIn
<1>4. x \notin ToSet(q) => OnceIn(p, x)
  BY <1>1 DEF OnceIn, ToSet
<1> QED BY <1>2, <1>3, <1>4 DEF p

\* What was once in a sequence, and last, is not in the rest.
LEMMA LastIsOut ==
  ASSUME NEW E, NEW q \in Seq(E), q # <<>>, OnceIn(q, Last(q))
  PROVE  Last(q) \in ToSet(q) /\ Last(q) \notin ToSet(Front(q))
<1>1. Len(q) \in Nat \ {0} /\ DOMAIN q = 1 .. Len(q) /\ Last(q) = q[Len(q)]
  BY DEF Last
<1>2. Last(q) \in ToSet(q)
  BY <1>1 DEF ToSet
<1> DEFINE p == Front(q)
<1>3. p \in Seq(E) /\ Len(p) = Len(q) - 1 /\ \A j \in 1 .. Len(q) - 1 : p[j] = q[j]
  BY FrontFacts
<1> HIDE DEF p
<1>4. ASSUME Last(q) \in ToSet(p) PROVE FALSE
  <2>1. PICK j \in 1 .. Len(q) - 1 : p[j] = Last(q)
    BY <1>3, <1>4 DEF ToSet
  <2>2. q[j] = Last(q) /\ j \in DOMAIN q /\ Len(q) \in DOMAIN q
    BY <1>1, <1>3, <2>1
  <2>3. j = Len(q)
    BY <1>1, <2>2 DEF OnceIn
  <2> QED BY <2>1, <2>3, <1>1
<1> QED BY <1>2, <1>4 DEF p

\* All stacks of an edit of several resources are moved.
LEMMA TidyMoved ==
  ASSUME NEW n \in Nat, NEW E, NEW s, IsService(s, n, E), Tidy(s), NEW is,
         NEW x \in E, IsWorkspace(x), Resources(x) \subseteq Resource, NEW side \in Sides,
         \A r \in Resources(x) : /\ s.editStacks[r] # 0 /\ StackId(s, r) \in is
                                 /\ StackOf(s, r)[side] # <<>> /\ Last(StackOf(s, r)[side]) = x,
         \A r \in Resource \ Resources(x) : StackId(s, r) \notin is,
         Resources(x) # {}
  PROVE  Tidy(MoveAll(s, is, x, side))
<1> DEFINE t == MoveAll(s, is, x, side)
<1>1. \A r \in Resource : \A u \in Sides :
        StackOf(t, r)[u] = IF s.editStacks[r] # 0 /\ StackId(s, r) \in is
                           THEN Moved(StackOf(s, r), x, side)[u] ELSE StackOf(s, r)[u]
  BY MoveAllFacts
<1> HIDE DEF t
<1> DEFINE q(r) == StackOf(s, r)[side]
<1> DEFINE o(r) == StackOf(s, r)[Other(side)]
<1>2. ASSUME NEW r \in Resource
      PROVE  /\ q(r) \in Seq(E) /\ o(r) \in Seq(E) /\ Sides = {side, Other(side)}
             /\ Other(side) \in Sides
             /\ r \in Resources(x) => /\ q(r) # <<>> /\ Last(q(r)) = x
                                      /\ StackOf(t, r)[side] = Front(q(r))
                                      /\ StackOf(t, r)[Other(side)] = Append(o(r), x)
             /\ r \notin Resources(x) => /\ StackOf(t, r)[side] = q(r)
                                         /\ StackOf(t, r)[Other(side)] = o(r)
  <2>1. StackOf(s, r) \in StackOver(E)
    BY StackTypes
  <2>2. /\ q(r) \in Seq(E) /\ o(r) \in Seq(E) /\ Sides = {side, Other(side)}
        /\ Moved(StackOf(s, r), x, side)[side] = IF q(r) = <<>> THEN q(r) ELSE Front(q(r))
        /\ Moved(StackOf(s, r), x, side)[Other(side)] = Append(o(r), x)
    BY <2>1, MovedFacts
  <2>3. Other(side) \in Sides
    BY DEF Other, Sides
  <2>4. CASE r \in Resources(x)
    BY <1>1, <2>2, <2>3, <2>4
  <2>5. CASE r \notin Resources(x)
    BY <1>1, <2>2, <2>3, <2>5
  <2> QED BY <2>4, <2>5
<1>3. TidyFor(s, x)
  BY DEF Tidy
<1>4. \A r \in Resource : x \notin ToSet(o(r))
  <2>1. PICK p \in Resources(x) : TRUE
    OBVIOUS
  <2>2. x \in ToSet(q(p))
    <3>1. q(p) \in Seq(E) /\ q(p) # <<>> /\ Last(q(p)) = x /\ OnceIn(q(p), x)
      BY <1>2, <1>3, <2>1 DEF TidyFor
    <3> HIDE DEF q
    <3> QED BY <3>1, LastIsOut
  <2>3. CASE side = "past"
    BY <2>1, <2>2, <2>3, <1>3 DEF TidyFor, Other
  <2>4. CASE side = "future"
    BY <2>1, <2>2, <2>4, <1>3 DEF TidyFor, Other
  <2> QED BY <2>3, <2>4 DEF Sides
<1>5. \A r \in Resource : x \notin ToSet(StackOf(t, r)[side])
  <2>1. SUFFICES ASSUME NEW r \in Resource PROVE x \notin ToSet(StackOf(t, r)[side])
    OBVIOUS
  <2>2. CASE r \in Resources(x)
    <3>1. q(r) \in Seq(E) /\ q(r) # <<>> /\ Last(q(r)) = x /\ OnceIn(q(r), x)
      BY <1>2, <1>3, <2>2 DEF TidyFor
    <3>2. StackOf(t, r)[side] = Front(q(r))
      BY <1>2, <2>2
    <3> HIDE DEF q
    <3> QED BY <3>1, <3>2, LastIsOut
  <2>3. CASE r \notin Resources(x)
    BY <1>2, <1>3, <2>3 DEF TidyFor
  <2> QED BY <2>2, <2>3
<1>6. ASSUME NEW w, w # x, NEW r \in Resource, NEW u \in Sides
      PROVE  /\ IsWorkspace(w) /\ w \in ToSet(StackOf(t, r)[u]) => w \in ToSet(StackOf(s, r)[u])
             /\ IsWorkspace(w) /\ OnceIn(StackOf(s, r)[u], w) => OnceIn(StackOf(t, r)[u], w)
  <2>0. StackOf(s, r) \in StackOver(E)
    BY StackTypes
  <2>1. CASE r \notin Resources(x)
    BY <1>2, <2>1
  <2>2. CASE r \in Resources(x) /\ u = side
    <3>1. Fewer(StackOf(t, r)[u], StackOf(s, r)[u])
      BY <1>1, <2>0, <2>2, FewerMoved
    <3> QED BY <3>1 DEF Fewer
  <2>3. CASE r \in Resources(x) /\ u = Other(side)
    <3>1. StackOf(t, r)[u] = Append(o(r), x) /\ o(r) \in Seq(E) /\ StackOf(s, r)[u] = o(r)
      BY <1>2, <2>3
    <3> HIDE DEF o
    <3> QED BY <3>1, <1>6, AppendFacts
  <2> QED BY <1>2, <2>1, <2>2, <2>3
<1>7. ASSUME NEW r \in Resource, NEW u \in Sides
      PROVE  /\ x \in ToSet(StackOf(t, r)[u]) => r \in Resources(x)
             /\ OnceIn(StackOf(t, r)[u], x)
  <2>1. CASE u = side
    <3>1. x \notin ToSet(StackOf(t, r)[u])
      BY <1>5, <2>1
    <3> QED BY <3>1 DEF OnceIn, ToSet
  <2>2. CASE u = Other(side) /\ r \in Resources(x)
    <3>1. StackOf(t, r)[u] = Append(o(r), x) /\ o(r) \in Seq(E) /\ x \notin ToSet(o(r))
      BY <1>2, <1>4, <2>2
    <3> HIDE DEF o
    <3> QED BY <3>1, <2>2, AppendFacts
  <2>3. CASE u = Other(side) /\ r \notin Resources(x)
    <3>1. StackOf(t, r)[u] = o(r) /\ x \notin ToSet(o(r))
      BY <1>2, <1>4, <2>3
    <3>2. OnceIn(o(r), x)
      BY <1>2, <1>3 DEF TidyFor
    <3> QED BY <3>1, <3>2
  <2> QED BY <1>2, <2>1, <2>2, <2>3
<1> HIDE DEF q, o
<1>8. ASSUME NEW p \in Resource, NEW r \in Resource
      PROVE  x \in ToSet(StackOf(t, p).past) => x \notin ToSet(StackOf(t, r).future)
  BY <1>5 DEF Sides
<1>9. TidyFor(t, x)
  BY <1>7, <1>8 DEF TidyFor
<1>10. ASSUME NEW w, IsWorkspace(w), w # x PROVE TidyFor(t, w)
  <2>1. TidyFor(s, w)
    BY <1>10 DEF Tidy
  <2>2. "past" \in Sides /\ "future" \in Sides
    BY DEF Sides
  <2>3. ASSUME NEW r \in Resource, NEW u \in Sides
        PROVE  /\ w \in ToSet(StackOf(t, r)[u]) => r \in Resources(w)
               /\ OnceIn(StackOf(t, r)[u], w)
    BY <1>6, <1>10, <2>1 DEF TidyFor
  <2>4. ASSUME NEW r \in Resource, NEW p \in Resource, w \in ToSet(StackOf(t, r).past)
        PROVE  w \notin ToSet(StackOf(t, p).future)
    <3>1. w \in ToSet(StackOf(s, r).past)
      BY <1>6, <1>10, <2>2, <2>4
    <3>2. w \notin ToSet(StackOf(s, p).future)
      BY <3>1, <2>1 DEF TidyFor
    <3> QED BY <1>6, <1>10, <2>2, <3>2
  <2> QED BY <2>3, <2>4 DEF TidyFor
<1>11. Tidy(t)
  BY <1>9, <1>10 DEF Tidy
<1> QED BY <1>11 DEF t

\* A new edit is pushed.
LEMMA TidyPushed ==
  ASSUME NEW n \in Nat, NEW E, NEW s, IsService(s, n, E), Numbered(E, n), Tidy(s),
         NEW x \in E, Resources(x) \subseteq Resource,
         \A r \in Resource : \A u \in Sides : x \notin ToSet(StackOf(s, r)[u])
  PROVE  Tidy(PushElement(s, x))
<1> DEFINE t == PushElement(s, x)
<1>1. \A r \in Resource :
        IF r \in Resources(x)
        THEN StackOf(t, r).past = Append(StackOf(s, r).past, x) /\ StackOf(t, r).future = <<>>
        ELSE /\ StackOf(t, r).past = StackOf(s, r).past
             /\ StackOf(t, r).future = StackOf(s, r).future
  BY PushElementFacts
<1>0. SUFFICES Tidy(t)
  OBVIOUS
<1> HIDE DEF t
<1>2. ToSet(<<>>) = {} /\ \A w : OnceIn(<<>>, w)
  BY DEF ToSet, OnceIn
<1>3. ASSUME NEW r \in Resource
      PROVE  StackOf(s, r).past \in Seq(E)
  BY StackTypes DEF StackOver
<1>4. SUFFICES ASSUME NEW w, IsWorkspace(w) PROVE TidyFor(t, w)
  BY DEF Tidy
<1>5. TidyFor(s, w)
  BY <1>4 DEF Tidy
<1>6. "past" \in Sides /\ "future" \in Sides /\ \A u \in Sides : u \in {"past", "future"}
  BY DEF Sides
<1>7. ASSUME NEW r \in Resource
      PROVE  /\ w \in ToSet(StackOf(t, r).past) =>
                  w \in ToSet(StackOf(s, r).past) \/ (w = x /\ r \in Resources(x))
             /\ OnceIn(StackOf(t, r).past, w)
             /\ w \in ToSet(StackOf(t, r).future) => w \in ToSet(StackOf(s, r).future)
             /\ OnceIn(StackOf(t, r).future, w)
  <2> DEFINE a == StackOf(s, r).past
  <2>1. a \in Seq(E) /\ OnceIn(a, w) /\ (w = x => w \notin ToSet(a))
    BY <1>3, <1>5, <1>6 DEF TidyFor
  <2>2. OnceIn(StackOf(s, r).future, w)
    BY <1>5, <1>6 DEF TidyFor
  <2>3. CASE r \in Resources(x)
    <3>1. StackOf(t, r).past = Append(a, x) /\ StackOf(t, r).future = <<>>
      BY <1>1, <2>3
    <3> HIDE DEF a
    <3>2. ToSet(Append(a, x)) = ToSet(a) \cup {x} /\ OnceIn(Append(a, x), w)
      BY <2>1, AppendFacts
    <3> QED BY <1>2, <2>3, <3>1, <3>2 DEF a
  <2>4. CASE r \notin Resources(x)
    BY <1>1, <2>1, <2>2, <2>4
  <2> QED BY <2>3, <2>4
<1>8. ASSUME NEW r \in Resource, NEW u \in Sides
      PROVE  (w \in ToSet(StackOf(t, r)[u]) => r \in Resources(w)) /\ OnceIn(StackOf(t, r)[u], w)
  <2>1. CASE u = "past"
    BY <1>5, <1>6, <1>7, <2>1 DEF TidyFor
  <2>2. CASE u = "future"
    BY <1>5, <1>6, <1>7, <2>2 DEF TidyFor
  <2> QED BY <1>6, <2>1, <2>2
<1>9. ASSUME NEW r \in Resource, NEW q \in Resource, w \in ToSet(StackOf(t, r).past)
      PROVE  w \notin ToSet(StackOf(t, q).future)
  <2>1. CASE w = x
    BY <1>6, <1>7, <2>1
  <2>2. CASE w # x
    <3>1. w \in ToSet(StackOf(s, r).past)
      BY <1>7, <1>9, <2>2
    <3>2. w \notin ToSet(StackOf(s, q).future)
      BY <1>5, <3>1 DEF TidyFor
    <3> QED BY <1>7, <3>2
  <2> QED BY <2>1, <2>2
<1> QED BY <1>8, <1>9 DEF TidyFor

(***************************************************************************)
(* The undos and redos that wait, and the stacks they are about.           *)
(***************************************************************************)
\* The calls, and the flows with elements of E.
CallSet == [side : Sides, resource : Resource, source : Nat, confirmed : BOOLEAN]
FlowSet(E) == [pc : {"confirm", "prompt", "prepare", "prepareAll", "running"}, call : CallSet,
               element : E, snapshot : SUBSET ((Resource \X Nat) \X Nat), loads : SUBSET Model]

\* The flow w holds the stack k of r.
IsRunning(w, r, k) == w.pc = "running" /\ <<r, k>> \in Stacks(w)

\* The stacks of a flow were made.
Known(s, w) == \A a \in w.snapshot : a[1][2] <= Len(s.stacks[a[1][1]])
\* The snapshot that the undo of an edit of several resources waits with is of those.  A
\* stack in it that is as it was then is still that of its resource.
Fits(s, w) ==
  w.pc \in {"prompt", "prepareAll"} =>
    /\ \A r \in Resources(w.element) : \E a \in w.snapshot : a[1][1] = r
    /\ \A a \in w.snapshot :
         /\ a[1][1] \in Resources(w.element)
         /\ a[1][2] # 0 =>
              /\ a[2] <= Stack(s, a[1]).versionId
              /\ a[2] = Stack(s, a[1]).versionId => s.editStacks[a[1][1]] = a[1][2]
\* An element that is prepared on its own has one resource.
Single(w) == w.pc = "prepare" => ~IsWorkspace(w.element)
\* What is kept of every flow.
FlowFits(s, w) == Known(s, w) /\ Fits(s, w) /\ Single(w)

\* No two undos or redos of files hold a stack, and those that are held are locked.
HeldOnce(fl) ==
  \A f, g \in DOMAIN fl : \A r \in Resource : \A k \in Nat :
    IsRunning(fl[f], r, k) /\ IsRunning(fl[g], r, k) => f = g
LocksOf(s, fl) ==
  \A r \in Resource : \A k \in 1 .. Len(s.stacks[r]) :
    s.stacks[r][k].locked <=> \E f \in DOMAIN fl : IsRunning(fl[f], r, k)

\* The invariant of stacks and flows together.
Core(s, fl) ==
  /\ \A f \in DOMAIN fl : FlowFits(s, fl[f])
  /\ HeldOnce(fl)
  /\ LocksOf(s, fl)
  /\ Tidy(s)

\* The fields of a flow.
LEMMA FlowFields ==
  ASSUME NEW E, NEW w \in FlowSet(E)
  PROVE  /\ w.call \in CallSet /\ w.element \in E
         /\ \A a \in w.snapshot :
              /\ a = <<a[1], a[2]>> /\ a[1] = <<a[1][1], a[1][2]>>
              /\ a[1][1] \in Resource /\ a[1][2] \in Nat /\ a[2] \in Nat
         /\ Stacks(w) \subseteq Resource \X Nat
BY DEF FlowSet, Stacks

\* A flow still fits when stacks age.
LEMMA FlowFitsAges ==
  ASSUME NEW n \in Nat, NEW E, NEW s, IsService(s, n, E), NEW t, IsService(t, n, E),
         Ages(s, t), NEW F, NEW w \in FlowSet(F), FlowFits(s, w)
  PROVE  FlowFits(t, w)
<1>1. ASSUME NEW a \in w.snapshot
      PROVE  a[1][2] <= Len(t.stacks[a[1][1]])
  <2>1. /\ a[1][1] \in Resource /\ a[1][2] \in Nat /\ a[1][2] <= Len(s.stacks[a[1][1]])
    BY FlowFields DEF FlowFits, Known
  <2>2. /\ Len(s.stacks[a[1][1]]) \in Nat /\ Len(t.stacks[a[1][1]]) \in Nat
        /\ Len(s.stacks[a[1][1]]) <= Len(t.stacks[a[1][1]])
    BY <2>1, StackTypes DEF Ages
  <2>3. \A i, j, k \in Nat : i <= j /\ j <= k => i <= k
    OBVIOUS
  <2> QED BY <2>1, <2>2, <2>3
<1>2. ASSUME w.pc \in {"prompt", "prepareAll"}, NEW a \in w.snapshot, a[1][2] # 0
      PROVE  /\ a[2] <= Stack(t, a[1]).versionId
             /\ a[2] = Stack(t, a[1]).versionId => t.editStacks[a[1][1]] = a[1][2]
  <2> DEFINE r == a[1][1]
  <2> DEFINE k == a[1][2]
  <2>1. /\ r \in Resource /\ k \in Nat \ {0} /\ a[2] \in Nat /\ k <= Len(s.stacks[r])
        /\ a[2] <= Stack(s, a[1]).versionId
        /\ a[2] = Stack(s, a[1]).versionId => s.editStacks[r] = k
    BY <1>2, FlowFields DEF FlowFits, Known, Fits
  <2>2. Stack(s, a[1]) = s.stacks[r][k] /\ Stack(t, a[1]) = t.stacks[r][k]
    BY <1>2 DEF Stack
  <2> HIDE DEF r, k
  <2>3. k \in 1 .. Len(s.stacks[r]) /\ k \in 1 .. Len(t.stacks[r])
    <3>1. Len(s.stacks[r]) \in Nat /\ Len(t.stacks[r]) \in Nat /\ Len(s.stacks[r]) <= Len(t.stacks[r])
      BY <2>1, StackTypes DEF Ages
    <3> QED BY <2>1, <3>1
  <2>4. /\ s.stacks[r][k].versionId \in Nat /\ t.stacks[r][k].versionId \in Nat
        /\ s.stacks[r][k].versionId <= t.stacks[r][k].versionId
        /\ s.stacks[r][k].versionId = t.stacks[r][k].versionId /\ s.editStacks[r] = k =>
             t.editStacks[r] = k
    BY <2>1, <2>3, StackTypes DEF Ages, StackOver
  <2>5. a[2] <= t.stacks[r][k].versionId
    BY <2>1, <2>2, <2>4
  <2>6. a[2] = t.stacks[r][k].versionId => t.editStacks[r] = k
    <3>1. SUFFICES ASSUME a[2] = t.stacks[r][k].versionId PROVE t.editStacks[r] = k
      OBVIOUS
    <3>2. a[2] = s.stacks[r][k].versionId /\ s.stacks[r][k].versionId = t.stacks[r][k].versionId
      BY <2>1, <2>2, <2>4, <3>1
    <3> QED BY <2>1, <2>2, <2>4, <3>2
  <2> QED BY <2>2, <2>5, <2>6 DEF r, k
<1>3. Fits(t, w)
  BY <1>2 DEF FlowFits, Fits
<1> QED BY <1>1, <1>3 DEF FlowFits, Known

\* The stacks are changed, the locks are not.
LEMMA CoreAges ==
  ASSUME NEW n \in Nat, NEW E, NEW s, IsService(s, n, E), NEW t, IsService(t, n, E),
         NEW F, NEW fl \in Seq(FlowSet(F)), Core(s, fl), SameLocks(s, t), Ages(s, t), Tidy(t)
  PROVE  Core(t, fl)
<1>1. \A f \in DOMAIN fl : fl[f] \in FlowSet(F)
  OBVIOUS
<1>2. \A f \in DOMAIN fl : FlowFits(t, fl[f])
  BY <1>1, FlowFitsAges DEF Core
<1>3. ASSUME NEW r \in Resource, NEW k \in 1 .. Len(t.stacks[r])
      PROVE  t.stacks[r][k].locked <=> \E f \in DOMAIN fl : IsRunning(fl[f], r, k)
  <2>1. t.stacks[r][k].locked <=> k <= Len(s.stacks[r]) /\ s.stacks[r][k].locked
    BY DEF SameLocks
  <2>2. Len(s.stacks[r]) \in Nat /\ Len(t.stacks[r]) \in Nat
    BY StackTypes
  <2>3. CASE k <= Len(s.stacks[r])
    <3>1. k \in 1 .. Len(s.stacks[r])
      BY <2>2, <2>3
    <3> QED BY <2>1, <2>3, <3>1 DEF Core, LocksOf
  <2>4. CASE ~(k <= Len(s.stacks[r]))
    <3>1. ASSUME NEW f \in DOMAIN fl, IsRunning(fl[f], r, k) PROVE FALSE
      <4>1. PICK a \in fl[f].snapshot : a[1] = <<r, k>>
        BY <3>1 DEF IsRunning, Stacks
      <4>2. a[1][2] <= Len(s.stacks[a[1][1]])
        BY DEF Core, FlowFits, Known
      <4> QED BY <4>1, <4>2, <2>4
    <3> QED BY <2>1, <2>4, <3>1
  <2> QED BY <2>3, <2>4
<1> QED BY <1>2, <1>3 DEF Core, LocksOf

\* The stacks are changed by an operation that keeps.
LEMMA CoreKeeps ==
  ASSUME NEW n \in Nat, NEW E, NEW s, IsService(s, n, E), NEW t, IsService(t, n, E),
         NEW F, NEW fl \in Seq(FlowSet(F)), Core(s, fl), Keeps(s, t)
  PROVE  Core(t, fl)
BY CoreAges, TidyShrinks DEF Keeps, Core

\* An undo or redo that holds nothing ends.
LEMMA CoreRemove ==
  ASSUME NEW s, NEW F, NEW fl \in Seq(FlowSet(F)), Core(s, fl), NEW f \in DOMAIN fl,
         fl[f].pc # "running"
  PROVE  Core(s, RemoveAt(fl, f))
<1> DEFINE h == RemoveAt(fl, f)
<1> DEFINE Old(j) == IF j < f THEN j ELSE j + 1
<1>1. /\ Len(fl) \in Nat /\ DOMAIN fl = 1 .. Len(fl) /\ DOMAIN h = 1 .. Len(fl) - 1
      /\ \A j \in 1 .. Len(fl) - 1 : h[j] = fl[Old(j)]
  <2>1. h \in Seq(FlowSet(F)) /\ Len(h) = Len(fl) - 1
        /\ \A j \in 1 .. Len(fl) - 1 : h[j] = IF j < f THEN fl[j] ELSE fl[j + 1]
    BY RemoveAtFacts
  <2> HIDE DEF h
  <2> QED BY <2>1
<1>2. \A j \in DOMAIN h : Old(j) \in DOMAIN fl /\ h[j] = fl[Old(j)]
  BY <1>1
<1>3. \A i, j \in DOMAIN h : Old(i) = Old(j) => i = j
  BY <1>1
<1>4. \A g \in DOMAIN fl : g # f => \E j \in DOMAIN h : Old(j) = g
  <2>1. SUFFICES ASSUME NEW g \in DOMAIN fl, g # f PROVE \E j \in DOMAIN h : Old(j) = g
    OBVIOUS
  <2>2. CASE g < f
    BY <1>1, <2>1, <2>2
  <2>3. CASE ~(g < f)
    <3>1. g - 1 \in DOMAIN h /\ Old(g - 1) = g
      BY <1>1, <2>1, <2>3
    <3> QED BY <3>1
  <2> QED BY <2>2, <2>3
<1> HIDE DEF h, Old
<1>5. \A j \in DOMAIN h : FlowFits(s, h[j])
  BY <1>2 DEF Core
<1>6. HeldOnce(h)
  BY <1>2, <1>3 DEF Core, HeldOnce
<1>7. \A r, k : (\E g \in DOMAIN fl : IsRunning(fl[g], r, k)) <=>
                 \E j \in DOMAIN h : IsRunning(h[j], r, k)
  BY <1>2, <1>4 DEF IsRunning
<1>8. LocksOf(s, h)
  BY <1>7 DEF Core, LocksOf
<1> QED BY <1>5, <1>6, <1>8 DEF Core, h

\* One begins.
LEMMA CoreAppend ==
  ASSUME NEW s, NEW F, NEW fl \in Seq(FlowSet(F)), Core(s, fl), NEW w \in FlowSet(F),
         w.pc # "running", FlowFits(s, w)
  PROVE  Core(s, Append(fl, w))
<1> DEFINE h == Append(fl, w)
<1>1. /\ Len(fl) \in Nat /\ DOMAIN fl = 1 .. Len(fl) /\ DOMAIN h = 1 .. Len(fl) + 1
      /\ h[Len(fl) + 1] = w /\ \A j \in 1 .. Len(fl) : h[j] = fl[j]
  OBVIOUS
<1> HIDE DEF h
<1>2. \A j \in DOMAIN h : (j \in DOMAIN fl /\ h[j] = fl[j]) \/ h[j] = w
  BY <1>1
<1>3. \A j \in DOMAIN fl : j \in DOMAIN h /\ h[j] = fl[j]
  BY <1>1
<1>4. \A r, k : ~IsRunning(w, r, k)
  BY DEF IsRunning
<1>5. \A j \in DOMAIN h : FlowFits(s, h[j])
  BY <1>2 DEF Core
<1>6. HeldOnce(h)
  BY <1>2, <1>4 DEF Core, HeldOnce
<1>7. \A r, k : (\E g \in DOMAIN fl : IsRunning(fl[g], r, k)) <=>
                 \E j \in DOMAIN h : IsRunning(h[j], r, k)
  BY <1>2, <1>3, <1>4
<1>8. LocksOf(s, h)
  BY <1>7 DEF Core, LocksOf
<1> QED BY <1>5, <1>6, <1>8 DEF Core, h

\* One waits for something else.
LEMMA CoreReplace ==
  ASSUME NEW s, NEW F, NEW fl \in Seq(FlowSet(F)), Core(s, fl), NEW f \in DOMAIN fl,
         NEW w \in FlowSet(F), fl[f].pc # "running", w.pc # "running", FlowFits(s, w)
  PROVE  Core(s, [fl EXCEPT ![f] = w])
<1> DEFINE h == [fl EXCEPT ![f] = w]
<1>1. DOMAIN h = DOMAIN fl /\ h[f] = w /\ \A j \in DOMAIN fl : j # f => h[j] = fl[j]
  OBVIOUS
<1> HIDE DEF h
<1>4. \A r, k : ~IsRunning(w, r, k) /\ ~IsRunning(fl[f], r, k)
  BY DEF IsRunning
<1>5. \A j \in DOMAIN h : FlowFits(s, h[j])
  BY <1>1 DEF Core
<1>6. HeldOnce(h)
  BY <1>1, <1>4 DEF Core, HeldOnce
<1>7. \A r, k : (\E g \in DOMAIN fl : IsRunning(fl[g], r, k)) <=>
                 \E j \in DOMAIN h : IsRunning(h[j], r, k)
  BY <1>1, <1>4
<1>8. LocksOf(s, h)
  BY <1>7 DEF Core, LocksOf
<1> QED BY <1>5, <1>6, <1>8 DEF Core, h

\* One of files takes stacks that are not locked.
LEMMA CoreLock ==
  ASSUME NEW n \in Nat, NEW E, NEW s, IsService(s, n, E), NEW F, NEW fl \in Seq(FlowSet(F)),
         Core(s, fl), NEW w \in FlowSet(F), w.pc = "running", Known(s, w),
         \A i \in Stacks(w) : ~Stack(s, i).locked
  PROVE  Core(SetLocked(s, Stacks(w), TRUE), Append(fl, w))
<1> DEFINE h == Append(fl, w)
<1> DEFINE is == Stacks(w)
<1> DEFINE t == SetLocked(s, is, TRUE)
<1>1. /\ Len(fl) \in Nat /\ DOMAIN fl = 1 .. Len(fl) /\ DOMAIN h = 1 .. Len(fl) + 1
      /\ h[Len(fl) + 1] = w /\ \A j \in 1 .. Len(fl) : h[j] = fl[j]
  OBVIOUS
<1>2. /\ IsService(t, n, E) /\ Ages(s, t) /\ Shrinks(s, t)
      /\ \A r \in Resource :
           /\ Len(t.stacks[r]) = Len(s.stacks[r])
           /\ \A k \in 1 .. Len(s.stacks[r]) :
                /\ <<r, k>> \in is => t.stacks[r][k].locked = TRUE
                /\ <<r, k>> \notin is => t.stacks[r][k].locked = s.stacks[r][k].locked
  <2> DEFINE yes == TRUE
  <2>1. yes \in BOOLEAN
    OBVIOUS
  <2>2. t = SetLocked(s, is, yes)
    OBVIOUS
  <2> HIDE DEF is, yes, t
  <2>3. /\ IsService(t, n, E) /\ Ages(s, t) /\ Shrinks(s, t)
        /\ \A r \in Resource :
             /\ Len(t.stacks[r]) = Len(s.stacks[r])
             /\ \A k \in 1 .. Len(s.stacks[r]) :
                  /\ <<r, k>> \in is => t.stacks[r][k].locked = yes
                  /\ <<r, k>> \notin is => t.stacks[r][k].locked = s.stacks[r][k].locked
    BY <2>1, <2>2, SetLockedFacts
  <2> QED BY <2>3 DEF yes
<1> HIDE DEF h, t
<1>3. \A j \in DOMAIN h : (j \in DOMAIN fl /\ h[j] = fl[j]) \/ (j = Len(fl) + 1 /\ h[j] = w)
  BY <1>1
<1>4. \A j \in DOMAIN fl : j \in DOMAIN h /\ h[j] = fl[j]
  BY <1>1
<1>5. \A j \in DOMAIN h : h[j] \in FlowSet(F) /\ FlowFits(s, h[j])
  <2>1. FlowFits(s, w)
    BY DEF FlowFits, Fits, Single
  <2>2. \A j \in DOMAIN fl : fl[j] \in FlowSet(F)
    OBVIOUS
  <2> QED BY <1>3, <2>1, <2>2 DEF Core
<1>6. \A j \in DOMAIN h : FlowFits(t, h[j])
  BY <1>2, <1>5, FlowFitsAges
<1>7. \A r \in Resource : \A k \in Nat : IsRunning(w, r, k) <=> <<r, k>> \in is
  BY DEF IsRunning
<1>8. ASSUME NEW r \in Resource, NEW k \in Nat, <<r, k>> \in is
      PROVE  k \in 1 .. Len(s.stacks[r]) /\ ~s.stacks[r][k].locked
  <2>1. PICK a \in w.snapshot : a[1] = <<r, k>>
    BY <1>8 DEF Stacks
  <2>2. k <= Len(s.stacks[r])
    BY <2>1 DEF Known
  <2>3. ~Stack(s, <<r, k>>).locked
    BY <1>8
  <2>4. k # 0
    BY <2>3 DEF Stack, Missing
  <2>5. Len(s.stacks[r]) \in Nat
    BY StackTypes
  <2> QED BY <2>2, <2>3, <2>4, <2>5 DEF Stack
<1>9. \A r \in Resource : \A k \in Nat :
        <<r, k>> \in is => \A f \in DOMAIN fl : ~IsRunning(fl[f], r, k)
  BY <1>8 DEF Core, LocksOf
<1>10. HeldOnce(h)
  BY <1>3, <1>7, <1>9 DEF Core, HeldOnce
<1>11. ASSUME NEW r \in Resource, NEW k \in 1 .. Len(t.stacks[r])
       PROVE  t.stacks[r][k].locked <=> \E f \in DOMAIN h : IsRunning(h[f], r, k)
  <2>1. k \in 1 .. Len(s.stacks[r]) /\ k \in Nat
    BY <1>2, StackTypes
  <2>2. CASE <<r, k>> \in is
    <3>1. Len(fl) + 1 \in DOMAIN h /\ h[Len(fl) + 1] = w
      BY <1>1
    <3> QED BY <3>1, <2>1, <2>2, <1>2, <1>7
  <2>3. CASE <<r, k>> \notin is
    <3>1. t.stacks[r][k].locked = s.stacks[r][k].locked
      BY <2>1, <2>3, <1>2
    <3>2. s.stacks[r][k].locked <=> \E f \in DOMAIN fl : IsRunning(fl[f], r, k)
      BY <2>1 DEF Core, LocksOf
    <3>3. (\E f \in DOMAIN fl : IsRunning(fl[f], r, k)) <=> \E f \in DOMAIN h : IsRunning(h[f], r, k)
      BY <1>3, <1>4, <1>7, <2>1, <2>3
    <3> QED BY <3>1, <3>2, <3>3
  <2> QED BY <2>2, <2>3
<1>12. Tidy(t)
  BY <1>2, TidyShrinks DEF Core
<1> QED BY <1>6, <1>10, <1>11, <1>12 DEF Core, LocksOf, h, t

\* It lets go of them.
LEMMA CoreUnlock ==
  ASSUME NEW n \in Nat, NEW E, NEW s, IsService(s, n, E), NEW F, NEW fl \in Seq(FlowSet(F)),
         Core(s, fl), NEW f \in DOMAIN fl, fl[f].pc = "running"
  PROVE  Core(SetLocked(s, Stacks(fl[f]), FALSE), RemoveAt(fl, f))
<1> DEFINE h == RemoveAt(fl, f)
<1> DEFINE is == Stacks(fl[f])
<1> DEFINE t == SetLocked(s, is, FALSE)
<1> DEFINE Old(j) == IF j < f THEN j ELSE j + 1
<1>1. /\ Len(fl) \in Nat /\ DOMAIN fl = 1 .. Len(fl) /\ DOMAIN h = 1 .. Len(fl) - 1
      /\ \A j \in 1 .. Len(fl) - 1 : h[j] = fl[Old(j)]
  <2>1. h \in Seq(FlowSet(F)) /\ Len(h) = Len(fl) - 1
        /\ \A j \in 1 .. Len(fl) - 1 : h[j] = IF j < f THEN fl[j] ELSE fl[j + 1]
    BY RemoveAtFacts
  <2> HIDE DEF h
  <2> QED BY <2>1
<1>2. \A j \in DOMAIN h : Old(j) \in DOMAIN fl /\ h[j] = fl[Old(j)] /\ Old(j) # f
  BY <1>1
<1>3. \A i, j \in DOMAIN h : Old(i) = Old(j) => i = j
  BY <1>1
<1>4. \A g \in DOMAIN fl : g # f => \E j \in DOMAIN h : Old(j) = g
  <2>1. SUFFICES ASSUME NEW g \in DOMAIN fl, g # f PROVE \E j \in DOMAIN h : Old(j) = g
    OBVIOUS
  <2>2. CASE g < f
    BY <1>1, <2>1, <2>2
  <2>3. CASE ~(g < f)
    <3>1. g - 1 \in DOMAIN h /\ Old(g - 1) = g
      BY <1>1, <2>1, <2>3
    <3> QED BY <3>1
  <2> QED BY <2>2, <2>3
<1>5. /\ IsService(t, n, E) /\ Ages(s, t) /\ Shrinks(s, t)
      /\ \A r \in Resource :
           /\ Len(t.stacks[r]) = Len(s.stacks[r])
           /\ \A k \in 1 .. Len(s.stacks[r]) :
                /\ <<r, k>> \in is => t.stacks[r][k].locked = FALSE
                /\ <<r, k>> \notin is => t.stacks[r][k].locked = s.stacks[r][k].locked
  <2> DEFINE no == FALSE
  <2>1. no \in BOOLEAN
    OBVIOUS
  <2>2. t = SetLocked(s, is, no)
    OBVIOUS
  <2> HIDE DEF is, no, t
  <2>3. /\ IsService(t, n, E) /\ Ages(s, t) /\ Shrinks(s, t)
        /\ \A r \in Resource :
             /\ Len(t.stacks[r]) = Len(s.stacks[r])
             /\ \A k \in 1 .. Len(s.stacks[r]) :
                  /\ <<r, k>> \in is => t.stacks[r][k].locked = no
                  /\ <<r, k>> \notin is => t.stacks[r][k].locked = s.stacks[r][k].locked
    BY <2>1, <2>2, SetLockedFacts
  <2> QED BY <2>3 DEF no
<1> HIDE DEF h, t, Old
<1>6. \A j \in DOMAIN h : FlowFits(t, h[j])
  <2>1. \A j \in DOMAIN h : h[j] \in FlowSet(F) /\ FlowFits(s, h[j])
    BY <1>2 DEF Core
  <2> QED BY <1>5, <2>1, FlowFitsAges
<1>7. \A r \in Resource : \A k \in Nat : IsRunning(fl[f], r, k) <=> <<r, k>> \in is
  BY DEF IsRunning
<1>8. HeldOnce(h)
  BY <1>2, <1>3 DEF Core, HeldOnce
<1>9. ASSUME NEW r \in Resource, NEW k \in 1 .. Len(t.stacks[r])
      PROVE  t.stacks[r][k].locked <=> \E j \in DOMAIN h : IsRunning(h[j], r, k)
  <2>1. k \in 1 .. Len(s.stacks[r]) /\ k \in Nat
    BY <1>5, StackTypes
  <2>2. CASE <<r, k>> \in is
    <3>1. ~t.stacks[r][k].locked
      BY <2>1, <2>2, <1>5
    <3>2. \A j \in DOMAIN h : ~IsRunning(h[j], r, k)
      BY <2>1, <2>2, <1>2, <1>7 DEF Core, HeldOnce
    <3> QED BY <3>1, <3>2
  <2>3. CASE <<r, k>> \notin is
    <3>1. t.stacks[r][k].locked = s.stacks[r][k].locked
      BY <2>1, <2>3, <1>5
    <3>2. s.stacks[r][k].locked <=> \E g \in DOMAIN fl : IsRunning(fl[g], r, k)
      BY <2>1 DEF Core, LocksOf
    <3>3. (\E g \in DOMAIN fl : IsRunning(fl[g], r, k)) <=> \E j \in DOMAIN h : IsRunning(h[j], r, k)
      BY <1>2, <1>4, <1>7, <2>1, <2>3
    <3> QED BY <3>1, <3>2, <3>3
  <2> QED BY <2>2, <2>3
<1>10. Tidy(t)
  BY <1>5, TidyShrinks DEF Core
<1> QED BY <1>6, <1>8, <1>9, <1>10 DEF Core, LocksOf, h, t

(***************************************************************************)
(* The inductive invariant of the service, action by action.               *)
(***************************************************************************)
\* At most one call, for whose flow there is room.
CallsOK(q) == q = <<>> \/ \E c \in CallSet : q = <<c>>
FlowsOK(fl, q, E) ==
  /\ fl \in Seq(FlowSet(E)) /\ Len(fl) <= MaxFlows
  /\ CallsOK(q) /\ (q # <<>> => Len(fl) < MaxFlows)
\* The inductive invariant of the service.
StacksOK ==
  /\ PlanOK
  /\ IsService(service, pushed, UndoElements)
  /\ FlowsOK(flows, calls, UndoElements)
  /\ Core(service, flows)

\* No edit is made.
SamePlan == plan' = plan /\ pushed' = pushed

LEMMA SamePlanElements ==
  ASSUME SamePlan
  PROVE  UndoElements' = UndoElements /\ (PlanOK => PlanOK')
BY DEF SamePlan, UndoElements, Whole, PlanOK

\* A step that makes no edit.
LEMMA StacksStep ==
  ASSUME StacksOK, SamePlan, IsService(service', pushed, UndoElements),
         FlowsOK(flows', calls', UndoElements), Core(service', flows')
  PROVE  StacksOK'
<1>1. UndoElements' = UndoElements /\ PlanOK' /\ pushed' = pushed
  BY SamePlanElements DEF StacksOK, SamePlan
<1> QED BY <1>1 DEF StacksOK

\* A step that only changes stacks, and keeps.
LEMMA ServiceStep ==
  ASSUME StacksOK, SamePlan, calls' = calls, flows' = flows,
         IsService(service', pushed, UndoElements), Keeps(service, service')
  PROVE  StacksOK'
<1>1. /\ FlowsOK(flows', calls', UndoElements) /\ flows' \in Seq(FlowSet(UndoElements))
      /\ pushed \in Nat
  BY DEF StacksOK, FlowsOK, PlanOK
<1>2. Core(service', flows')
  BY <1>1, CoreKeeps DEF StacksOK
<1> QED BY <1>1, <1>2, StacksStep

\* The type of a call.
LEMMA CallTypes ==
  ASSUME NEW side \in Sides, NEW r \in Resource, NEW source \in Nat, NEW confirmed \in BOOLEAN
  PROVE  UndoCall(side, r, source, confirmed) \in CallSet
BY DEF UndoCall, CallSet

\* Elements of a group are looked for among the resources.
LEMMA GroupResources ==
  ASSUME NEW s, NEW side, NEW g
  PROVE  InGroup(s, side, g) \subseteq Resource /\ OfSource(s, side, g) \subseteq Resource
<1>1. InGroup(s, side, g) \subseteq Resource
  BY DEF InGroup, Foremost
<1>2. OfSource(s, side, g) \subseteq Resource
  BY DEF OfSource, Foremost
<1> QED BY <1>1, <1>2

\* _continueUndoInGroup makes at most one call.
LEMMA ContinueType ==
  ASSUME NEW s, NEW x, NEW c \in CallSet, NEW q \in Continue(s, x, c)
  PROVE  CallsOK(q)
<1>1. \A r \in InGroup(s, c.side, Group(x)) : UndoCall(c.side, r, 0, c.confirmed) \in CallSet
  BY GroupResources, CallTypes DEF CallSet
<1> QED BY <1>1 DEF Continue, CallsOK

\* The stack that an id names.
LEMMA StackIdFacts ==
  ASSUME NEW n \in Nat, NEW E, NEW s, IsService(s, n, E), NEW i \in Resource \X Nat,
         i[2] <= Len(s.stacks[i[1]])
  PROVE  /\ Stack(s, i) \in StackOver(E) /\ Stack(s, i).versionId \in Nat
         /\ i = <<i[1], i[2]>> /\ i[1] \in Resource /\ i[2] \in Nat
<1>1. i = <<i[1], i[2]>> /\ i[1] \in Resource /\ i[2] \in Nat
  OBVIOUS
<1>2. CASE i[2] = 0
  BY <1>1, <1>2 DEF Stack, Missing, StackOver
<1>3. CASE i[2] # 0
  <2>1. i[2] \in 1 .. Len(s.stacks[i[1]])
    BY <1>1, <1>3, StackTypes
  <2> QED BY <1>1, <1>3, <2>1, StackTypes DEF Stack, StackOver
<1> QED BY <1>1, <1>2, <1>3

\* The id of the stack of a resource.
LEMMA OwnStackId ==
  ASSUME NEW n \in Nat, NEW E, NEW s, IsService(s, n, E), NEW r \in Resource
  PROVE  /\ StackId(s, r) \in Resource \X Nat
         /\ StackId(s, r)[1] = r /\ StackId(s, r)[2] = s.editStacks[r]
         /\ s.editStacks[r] \in Nat /\ s.editStacks[r] <= Len(s.stacks[r])
         /\ Stack(s, StackId(s, r)) = StackOf(s, r)
         /\ StackOf(s, r) \in StackOver(E)
<1>1. s.editStacks[r] \in Nat /\ s.editStacks[r] <= Len(s.stacks[r]) /\ StackOf(s, r) \in StackOver(E)
  BY StackTypes
<1> QED BY <1>1 DEF StackId, StackOf

\* A flow, with the snapshot of stacks.
LEMMA FlowType ==
  ASSUME PlanOK, NEW pc \in {"confirm", "prompt", "prepare", "prepareAll", "running"},
         NEW c \in CallSet, NEW x \in UndoElements,
         NEW snapshot \in SUBSET ((Resource \X Nat) \X Nat)
  PROVE  /\ Flow(pc, c, x, snapshot) \in FlowSet(UndoElements)
         /\ Flow(pc, c, x, snapshot).pc = pc /\ Flow(pc, c, x, snapshot).element = x
         /\ Flow(pc, c, x, snapshot).snapshot = snapshot
         /\ Flow(pc, c, x, snapshot).call = c
<1> DEFINE loads == IF pc \in {"prepare", "prepareAll"} /\ Kind(x) # "files"
                    THEN GetMissingModels(x) ELSE {}
<1>1. loads \in SUBSET Model
  <2>1. x.on \in Seq(Model)
    BY ElementFacts
  <2>2. ToSet(x.on) \subseteq Model
    BY <2>1 DEF ToSet
  <2> QED BY <2>2 DEF GetMissingModels
<1>2. Flow(pc, c, x, snapshot) =
        [pc |-> pc, call |-> c, element |-> x, snapshot |-> snapshot, loads |-> loads]
  BY DEF Flow
<1> HIDE DEF loads
<1> QED BY <1>1, <1>2 DEF FlowSet

\* _safeInvokeWithLocks: stacks are locked only by the flow that is added with them.
LEMMA InvokeStacks ==
  ASSUME StacksOK, NEW s, IsService(s, pushed, UndoElements),
         NEW is \in SUBSET (Resource \X Nat), \A i \in is : i[2] <= Len(s.stacks[i[1]]),
         NEW c \in CallSet, NEW x \in UndoElements,
         NEW waiting \in Seq(FlowSet(UndoElements)), Len(waiting) < MaxFlows,
         Core(s, waiting), NEW notes, Invoke(s, x, is, c, waiting, notes)
  PROVE  StacksOK'
<1>0. pushed \in Nat /\ PlanOK /\ Len(waiting) \in Nat /\ MaxFlows \in Nat
  BY UndoBounds DEF StacksOK, PlanOK
<1>1. SamePlan
  BY DEF Invoke, SamePlan, bounds
<1>2. CASE CannotLock(s, x, is, waiting)
  <2>1. service' = s /\ flows' = waiting /\ calls' = <<>>
    BY <1>2 DEF CannotLock
  <2>2. FlowsOK(flows', calls', UndoElements)
    BY <2>1, <1>0 DEF FlowsOK, CallsOK
  <2> QED BY <1>1, <2>1, <2>2, StacksStep
<1>3. CASE InvokeFiles(s, x, is, c, waiting)
  <2> DEFINE snapshot == {<<i, Stack(s, i).versionId>> : i \in is}
  <2> DEFINE w == Flow("running", c, x, snapshot)
  <2>1. /\ \A i \in is : ~Stack(s, i).locked
        /\ service' = SetLocked(s, is, TRUE) /\ flows' = Append(waiting, w) /\ calls' = <<>>
    BY <1>3 DEF InvokeFiles
  <2>2. snapshot \in SUBSET ((Resource \X Nat) \X Nat)
    BY <1>0, StackIdFacts
  <2>3. \A a \in snapshot : a[1] \in is
    OBVIOUS
  <2>4. \A i \in is : \E a \in snapshot : a[1] = i
    <3>1. ASSUME NEW i \in is PROVE \E a \in snapshot : a[1] = i
      <4>1. <<i, Stack(s, i).versionId>> \in snapshot
        OBVIOUS
      <4> HIDE DEF snapshot
      <4> QED BY <4>1
    <3> QED BY <3>1
  <2> HIDE DEF snapshot
  <2>5. w \in FlowSet(UndoElements) /\ w.pc = "running" /\ w.snapshot = snapshot
    BY <1>0, <2>2, FlowType
  <2> HIDE DEF w
  <2>6. Stacks(w) = is
    BY <2>3, <2>4, <2>5 DEF Stacks
  <2>7. Known(s, w)
    BY <2>3, <2>5 DEF Known
  <2>8. Core(service', flows')
    BY <1>0, <2>1, <2>5, <2>6, <2>7, CoreLock
  <2>9. IsService(service', pushed, UndoElements)
    BY <1>0, <2>1, SetLockedFacts
  <2>10. FlowsOK(flows', calls', UndoElements)
    BY <2>1, <2>5, <1>0 DEF FlowsOK, CallsOK
  <2> QED BY <1>1, <2>8, <2>9, <2>10, StacksStep
<1>4. CASE InvokeEdits(s, x, is, c, waiting)
  <2>1. flows' = waiting
    BY <1>4 DEF InvokeEdits
  <2>2. CASE service' = s /\ calls' \in Continue(s, x, c)
    <3>1. FlowsOK(flows', calls', UndoElements)
      BY <2>1, <2>2, <1>0, ContinueType DEF FlowsOK
    <3> QED BY <1>1, <2>1, <2>2, <3>1, StacksStep
  <2>3. CASE service' = RemoveElements(s, Resources(x)) /\ calls' = <<>>
    <3>1. FlowsOK(flows', calls', UndoElements)
      BY <2>1, <2>3, <1>0 DEF FlowsOK, CallsOK
    <3>2. Resources(x) \in SUBSET Resource /\ Numbered(UndoElements, pushed)
      BY <1>0, ElementFacts
    <3>3. IsService(service', pushed, UndoElements) /\ Keeps(s, service')
      BY <1>0, <2>3, <3>2, RemoveElementsKeeps
    <3>4. Core(service', flows')
      BY <1>0, <2>1, <3>3, CoreKeeps
    <3> QED BY <1>1, <3>1, <3>3, <3>4, StacksStep
  <2> QED BY <1>4, <2>2, <2>3 DEF InvokeEdits
<1> QED BY <1>2, <1>3, <1>4 DEF Invoke

\* The element of the next edit is a new one.
LEMMA PushedElements ==
  ASSUME PlanOK, pushed < Len(plan), plan' = plan, pushed' = pushed + 1
  PROVE  /\ PlanOK' /\ UndoElements \subseteq UndoElements'
         /\ Whole(pushed + 1) \in UndoElements'
         /\ Numbered(UndoElements', pushed + 1)
         /\ Resources(Whole(pushed + 1)) \subseteq Resource
         /\ Whole(pushed + 1).of = pushed + 1
<1>1. PlanOK'
  BY DEF PlanOK
<1>2. UndoElements' = ElementsOf(plan, pushed + 1)
  <2>1. UndoElements' = ElementsOf(plan', pushed')
    BY Zenon DEF UndoElements, ElementsOf, Whole
  <2> QED BY <2>1
<1>3. UndoElements = ElementsOf(plan, pushed)
  BY UndoElementsAre
<1>4. Whole(pushed + 1) = Element(pushed + 1, plan[pushed + 1].models)
  BY DEF Whole
<1>5. /\ plan \in Seq(PlannedEdits) /\ pushed \in 0 .. Len(plan) /\ pushed + 1 \in 0 .. Len(plan)
      /\ pushed + 1 \in 1 .. pushed + 1 /\ pushed <= pushed + 1
  BY DEF PlanOK
<1>6. /\ Numbered(ElementsOf(plan, pushed + 1), pushed + 1)
      /\ \A x \in ElementsOf(plan, pushed + 1) : Resources(x) \subseteq Resource
      /\ Element(pushed + 1, plan[pushed + 1].models) \in ElementsOf(plan, pushed + 1)
      /\ ElementsOf(plan, pushed) \subseteq ElementsOf(plan, pushed + 1)
  BY <1>5, ElementsOfFacts
<1>7. Whole(pushed + 1).of = pushed + 1
  BY DEF Whole, Element
<1> QED BY <1>1, <1>2, <1>3, <1>4, <1>6, <1>7

\* A flow is one of more elements too.
LEMMA FlowSetOfMore ==
  ASSUME NEW E, NEW F, E \subseteq F, NEW fl \in Seq(FlowSet(E))
  PROVE  fl \in Seq(FlowSet(F))
<1>1. FlowSet(E) \subseteq FlowSet(F)
  BY DEF FlowSet
<1> DEFINE A == FlowSet(E)
<1> DEFINE B == FlowSet(F)
<1>2. fl \in Seq(A) /\ A \subseteq B
  BY <1>1
<1> HIDE DEF A, B
<1>3. fl \in Seq(B)
  BY <1>2
<1> QED BY <1>3 DEF B

\* An edit is made.
LEMMA PushStacks == StacksOK /\ Push => StacksOK'
<1>1. SUFFICES ASSUME StacksOK, Push PROVE StacksOK'
  OBVIOUS
<1> DEFINE x == Whole(pushed + 1)
<1> DEFINE E == UndoElements
<1> DEFINE F == UndoElements'
<1>2. /\ pushed < Len(plan) /\ plan' = plan /\ pushed' = pushed + 1
      /\ service' = PushElement(service, x) /\ calls' = calls /\ flows' = flows /\ calls = <<>>
  BY <1>1 DEF Push, bounds, Idle
<1>3. PlanOK /\ pushed \in Nat /\ pushed + 1 \in Nat
  BY <1>1 DEF StacksOK, PlanOK
<1>4. /\ PlanOK' /\ E \subseteq F /\ x \in F /\ Numbered(F, pushed + 1)
      /\ Resources(x) \subseteq Resource /\ x.of = pushed + 1
  BY <1>2, <1>3, PushedElements
<1>5. Numbered(E, pushed)
  BY <1>3, ElementFacts
<1>6. IsService(service, pushed, E) /\ Core(service, flows) /\ FlowsOK(flows, calls, E)
  BY <1>1 DEF StacksOK
<1> HIDE DEF E, F, x
<1>7. IsService(service, pushed + 1, F)
  BY <1>3, <1>4, <1>6, IsServiceOfMore
<1>8. /\ IsService(service', pushed + 1, F) /\ SameLocks(service, service')
      /\ Ages(service, service')
  BY <1>2, <1>3, <1>4, <1>7, PushElementFacts
<1>9. \A r \in Resource : \A u \in Sides : x \notin ToSet(StackOf(service, r)[u])
  <2>1. SUFFICES ASSUME NEW r \in Resource, NEW u \in Sides, x \in ToSet(StackOf(service, r)[u])
                 PROVE  FALSE
    OBVIOUS
  <2>2. StackOf(service, r)[u] \in Seq(E)
    BY <1>3, <1>6, StackTypes DEF StackOver, Sides
  <2>3. x \in E
    BY <2>1, <2>2 DEF ToSet
  <2>4. x.of \in 1 .. pushed
    BY <2>3, <1>5 DEF Numbered
  <2> QED BY <2>4, <1>3, <1>4
<1>10. Tidy(service')
  BY <1>2, <1>3, <1>4, <1>6, <1>7, <1>9, TidyPushed DEF Core
<1>11. flows \in Seq(FlowSet(F)) /\ FlowsOK(flows', calls', F)
  BY <1>2, <1>4, <1>6, FlowSetOfMore DEF FlowsOK
<1>12. Core(service', flows')
  BY <1>2, <1>3, <1>6, <1>7, <1>8, <1>10, <1>11, CoreAges
<1> QED BY <1>2, <1>4, <1>8, <1>11, <1>12 DEF StacksOK, F

\* The content of a model is replaced, it is closed and opened.
LEMMA ModelStacks ==
  ASSUME StacksOK, NEW m \in Model
  PROVE  /\ SetValue(m) => StacksOK'
         /\ \A evicted \in SUBSET Model : CloseMaintained(m, evicted) => StacksOK'
         /\ CloseDropped(m) => StacksOK'
         /\ Reopen(m) => StacksOK'
         /\ ReopenOther(m) => StacksOK'
<1> DEFINE E == UndoElements
<1>1. PlanOK /\ pushed \in Nat /\ IsService(service, pushed, E) /\ Numbered(E, pushed)
  BY ElementFacts DEF StacksOK, PlanOK
<1>2. ComparisonKey[m] \in Resource
  BY DEF Resource
<1> HIDE DEF E
<1>3. Keeps(service, service)
  BY <1>1, KeepsItself
<1>4. /\ IsService(RemoveElements(service, {ComparisonKey[m]}), pushed, E)
      /\ Keeps(service, RemoveElements(service, {ComparisonKey[m]}))
  BY <1>1, <1>2, RemoveElementsKeeps
<1>5. \A models : /\ IsService(Restore(service, models), pushed, E)
                  /\ Keeps(service, Restore(service, models))
  BY <1>1, RestoreKeeps
<1>6. \A isValid \in BOOLEAN :
        /\ IsService(SetElementsValidFlag(service, m, isValid), pushed, E)
        /\ Keeps(service, SetElementsValidFlag(service, m, isValid))
  BY <1>1, SetElementsValidFlagKeeps
<1>7. ASSUME NEW models
      PROVE  /\ IsService(SetElementsValidFlag(Restore(service, models), m, FALSE), pushed, E)
             /\ Keeps(service, SetElementsValidFlag(Restore(service, models), m, FALSE))
  <2> DEFINE t == Restore(service, models)
  <2> DEFINE no == FALSE
  <2>1. IsService(t, pushed, E) /\ Keeps(service, t) /\ no \in BOOLEAN
    BY <1>5
  <2> HIDE DEF t, no
  <2>2. IsService(SetElementsValidFlag(t, m, no), pushed, E) /\ Keeps(t, SetElementsValidFlag(t, m, no))
    BY <1>1, <2>1, SetElementsValidFlagKeeps
  <2>3. Keeps(service, SetElementsValidFlag(t, m, no))
    BY <1>1, <2>1, <2>2, KeepsTwice
  <2> QED BY <2>2, <2>3 DEF t, no
<1>8. ASSUME SamePlan, calls' = calls, flows' = flows,
             IsService(service', pushed, E), Keeps(service, service')
      PROVE  StacksOK'
  BY <1>8, ServiceStep DEF E
<1>9. ASSUME SetValue(m) PROVE StacksOK'
  <2>1. /\ SamePlan /\ calls' = calls /\ flows' = flows
        /\ service' = RemoveElements(service, {ComparisonKey[m]})
    BY <1>9 DEF SetValue, bounds, SamePlan
  <2> QED BY <1>4, <1>8, <2>1
<1>10. ASSUME NEW evicted \in SUBSET Model, CloseMaintained(m, evicted) PROVE StacksOK'
  <2>1. /\ SamePlan /\ calls' = calls /\ flows' = flows
        /\ service' = SetElementsValidFlag(Restore(service, evicted), m, FALSE)
    BY <1>10 DEF CloseMaintained, Closes, bounds, SamePlan
  <2> QED BY <1>7, <1>8, <2>1
<1>11. ASSUME CloseDropped(m) PROVE StacksOK'
  <2>1. /\ SamePlan /\ calls' = calls /\ flows' = flows
        /\ service' = service \/ service' = Restore(service, {m})
    BY <1>11 DEF CloseDropped, Closes, bounds, SamePlan
  <2> QED BY <1>1, <1>3, <1>5, <1>8, <2>1
<1>12. ASSUME Reopen(m) PROVE StacksOK'
  <2>1. /\ SamePlan /\ calls' = calls /\ flows' = flows
        /\ service' = service \/ service' = SetElementsValidFlag(service, m, TRUE)
    BY <1>12 DEF Reopen, bounds, SamePlan
  <2> QED BY <1>1, <1>3, <1>6, <1>8, <2>1
<1>13. ASSUME ReopenOther(m) PROVE StacksOK'
  <2>1. /\ SamePlan /\ calls' = calls /\ flows' = flows
        /\ service' = service \/ service' = Restore(service, {m})
    BY <1>13 DEF ReopenOther, bounds, SamePlan
  <2> QED BY <1>1, <1>3, <1>5, <1>8, <2>1
<1> QED BY <1>9, <1>10, <1>11, <1>12, <1>13

\* Undo and redo are asked for.
LEMMA AskStacks ==
  ASSUME StacksOK, NEW side \in Sides
  PROVE  /\ \A m \in Model : Ask(side, m) => StacksOK'
         /\ AskSource(side, 1) => StacksOK'
<1>1. ASSUME NEW c \in CallSet, SamePlan, service' = service, flows' = flows, calls' = <<c>>,
             Len(flows) < MaxFlows
      PROVE  StacksOK'
  <2>1. FlowsOK(flows', calls', UndoElements)
    BY <1>1 DEF FlowsOK, CallsOK, StacksOK
  <2> QED BY <1>1, <2>1, StacksStep DEF StacksOK
<1>2. ASSUME NEW m \in Model, Ask(side, m) PROVE StacksOK'
  <2>1. UndoCall(side, ComparisonKey[m], 0, FALSE) \in CallSet
    BY CallTypes DEF Resource
  <2> QED BY <1>1, <1>2, <2>1 DEF Ask, bounds, SamePlan
<1>3. ASSUME AskSource(side, 1) PROVE StacksOK'
  <2>1. PICK r \in OfSource(service, side, 1) :
          calls' = <<UndoCall(side, r, IF side = "past" THEN 1 ELSE 0, FALSE)>>
    BY <1>3 DEF AskSource
  <2> DEFINE source == IF side = "past" THEN 1 ELSE 0
  <2>2. r \in Resource /\ source \in Nat
    BY <2>1, GroupResources
  <2> HIDE DEF source
  <2>3. UndoCall(side, r, source, FALSE) \in CallSet
    BY <2>2, CallTypes
  <2>4. calls' = <<UndoCall(side, r, source, FALSE)>>
    BY <2>1 DEF source
  <2> QED BY <1>1, <1>3, <2>3, <2>4 DEF AskSource, bounds, SamePlan
<1> QED BY <1>2, <1>3

\* The closest element is the last on its side.
LEMMA ClosestFacts ==
  ASSUME NEW E, NEW v \in StackOver(E), NEW side \in Sides, Closest(v, side) # NoElement
  PROVE  /\ v[side] \in Seq(E) /\ v[side] # <<>>
         /\ Last(v[side]) = Closest(v, side) /\ Closest(v, side) \in E
<1>1. v[side] \in Seq(E)
  BY DEF StackOver, Sides
<1>2. v[side] # <<>> /\ Last(v[side]) = Closest(v, side)
  BY DEF Closest
<1>3. Last(v[side]) \in E
  BY <1>1, <1>2 DEF Last
<1> QED BY <1>1, <1>2, <1>3

\* The call that is made.
LEMMA CalledFacts ==
  ASSUME StacksOK, Called
  PROVE  /\ theCall \in CallSet /\ calls = <<theCall>> /\ Len(flows) < MaxFlows
         /\ theCall.side \in Sides /\ theCall.resource \in Resource
         /\ (CalledElement # NoElement => CalledElement \in UndoElements)
<1>1. /\ CallsOK(calls) /\ calls # <<>> /\ Len(flows) < MaxFlows
      /\ IsService(service, pushed, UndoElements) /\ pushed \in Nat
  BY DEF StacksOK, FlowsOK, Called, Idle, PlanOK
<1>2. PICK c \in CallSet : calls = <<c>>
  BY <1>1 DEF CallsOK
<1>3. theCall = c
  BY <1>2 DEF theCall
<1>4. theCall.side \in Sides /\ theCall.resource \in Resource
  BY <1>2, <1>3 DEF CallSet
<1>5. CalledStack \in StackOver(UndoElements)
  BY <1>1, <1>4, StackTypes DEF CalledStack
<1>6. CalledElement # NoElement => CalledElement \in UndoElements
  BY <1>4, <1>5, ClosestFacts DEF CalledElement
<1> QED BY <1>1, <1>2, <1>3, <1>4, <1>6

\* A call that neither waits nor changes stacks.
LEMMA CallStays ==
  ASSUME StacksOK, SamePlan, service' = service, flows' = flows, CallsOK(calls'),
         Len(flows) < MaxFlows
  PROVE  StacksOK'
<1>1. FlowsOK(flows', calls', UndoElements)
  BY DEF FlowsOK, StacksOK
<1> QED BY <1>1, StacksStep DEF StacksOK

\* A call that waits.
LEMMA CallWaits ==
  ASSUME StacksOK, SamePlan, service' = service, calls' = <<>>, Len(flows) < MaxFlows,
         NEW w \in FlowSet(UndoElements), w.pc # "running", FlowFits(service, w),
         flows' = Append(flows, w)
  PROVE  StacksOK'
<1>1. /\ flows \in Seq(FlowSet(UndoElements)) /\ Core(service, flows) /\ MaxFlows \in Nat
      /\ IsService(service, pushed, UndoElements)
  BY UndoBounds DEF StacksOK, FlowsOK
<1>2. Core(service', flows')
  BY <1>1, CoreAppend
<1> DEFINE A == FlowSet(UndoElements)
<1>3. flows \in Seq(A) /\ w \in A
  BY <1>1
<1> HIDE DEF A
<1>4. flows' \in Seq(A) /\ Len(flows') <= MaxFlows
  BY <1>1, <1>3
<1>5. FlowsOK(flows', calls', UndoElements)
  BY <1>4 DEF FlowsOK, CallsOK, A
<1> QED BY <1>1, <1>2, <1>5, StacksStep

\* An element is split or its resources are given up.
LEMMA SplitAndCallStacks ==
  ASSUME StacksOK, SamePlan, NEW x \in UndoElements, NEW c \in CallSet, NEW ignore,
         flows' \in Seq(FlowSet(UndoElements)), Len(flows') < MaxFlows, Core(service, flows'),
         SplitAndCall(x, c, ignore)
  PROVE  StacksOK'
<1>1. /\ service' = Split(service, x, c.side, ignore)
      /\ calls' = <<>> \/ calls' = <<UndoCall(c.side, c.resource, 0, TRUE)>>
  BY DEF SplitAndCall
<1>2. c.side \in Sides /\ c.resource \in Resource
  BY DEF CallSet
<1>3. PlanOK /\ pushed \in Nat /\ IsService(service, pushed, UndoElements)
  BY DEF StacksOK, PlanOK
<1>4. IsService(service', pushed, UndoElements) /\ Keeps(service, service')
  BY <1>1, <1>2, <1>3, SplitKeeps
<1>5. Core(service', flows')
  BY <1>3, <1>4, CoreKeeps
<1>6. UndoCall(c.side, c.resource, 0, TRUE) \in CallSet
  BY <1>2, CallTypes
<1>7. Len(flows') \in Nat /\ MaxFlows \in Nat
  BY UndoBounds
<1>8. FlowsOK(flows', calls', UndoElements)
  <2>1. CallsOK(calls')
    BY <1>1, <1>6 DEF CallsOK
  <2>2. Len(flows') <= MaxFlows
    BY <1>7
  <2> QED BY <2>1, <2>2 DEF FlowsOK
<1> QED BY <1>4, <1>5, <1>8, StacksStep

LEMMA TryToSplitStacks ==
  ASSUME StacksOK, SamePlan, NEW x \in UndoElements, NEW c \in CallSet, NEW check,
         flows' \in Seq(FlowSet(UndoElements)), Len(flows') < MaxFlows, Core(service, flows'),
         TryToSplit(x, c, check)
  PROVE  StacksOK'
<1>1. CASE CanSplit(x)
  <2>1. SplitAndCall(x, c, Ignored(service, x, check))
    BY <1>1 DEF TryToSplit
  <2> QED BY <2>1, SplitAndCallStacks
<1>2. CASE ~CanSplit(x)
  <2>1. service' = RemoveElements(service, Resources(x)) /\ calls' = <<>>
    BY <1>2 DEF TryToSplit
  <2>2. /\ pushed \in Nat /\ IsService(service, pushed, UndoElements)
        /\ Numbered(UndoElements, pushed) /\ Resources(x) \in SUBSET Resource
    BY ElementFacts DEF StacksOK, PlanOK
  <2>3. IsService(service', pushed, UndoElements) /\ Keeps(service, service')
    BY <2>1, <2>2, RemoveElementsKeeps
  <2>4. Core(service', flows')
    BY <2>2, <2>3, CoreKeeps
  <2>5. Len(flows') \in Nat /\ MaxFlows \in Nat
    BY UndoBounds
  <2>6. FlowsOK(flows', calls', UndoElements)
    BY <2>1, <2>5 DEF FlowsOK, CallsOK
  <2> QED BY <2>3, <2>4, <2>6, StacksStep
<1> QED BY <1>1, <1>2

\* The simple calls.
LEMMA CallStacks ==
  ASSUME StacksOK
  PROVE  /\ CallNothing => StacksOK'
         /\ CallInGroup => StacksOK'
         /\ CallConfirm => StacksOK'
         /\ CallResourceInvalid => StacksOK'
<1>1. ASSUME CallNothing PROVE StacksOK'
  <2>1. /\ SamePlan /\ service' = service /\ flows' = flows /\ calls' = <<>> /\ Called
    BY <1>1 DEF CallNothing, bounds, SamePlan
  <2>2. CallsOK(calls') /\ Len(flows) < MaxFlows
    BY <2>1, CalledFacts DEF CallsOK
  <2> QED BY <2>1, <2>2, CallStays
<1>2. ASSUME CallInGroup PROVE StacksOK'
  <2>1. /\ SamePlan /\ service' = service /\ flows' = flows /\ Called
    BY <1>2 DEF CallInGroup, bounds, SamePlan
  <2>2. PICK r \in InGroup(service, theCall.side, Group(CalledElement)) :
          calls' = <<[theCall EXCEPT !.resource = r]>>
    BY <1>2 DEF CallInGroup
  <2>3. r \in Resource
    BY <2>2, GroupResources
  <2>4. [theCall EXCEPT !.resource = r] \in CallSet
    BY <2>1, <2>3, CalledFacts DEF CallSet
  <2>5. CallsOK(calls') /\ Len(flows) < MaxFlows
    BY <2>1, <2>2, <2>4, CalledFacts DEF CallsOK
  <2> QED BY <2>1, <2>5, CallStays
<1>3. ASSUME CallConfirm PROVE StacksOK'
  <2> DEFINE none == {}
  <2> DEFINE w == Flow("confirm", theCall, CalledElement, none)
  <2>1. /\ SamePlan /\ service' = service /\ flows' = Append(flows, w) /\ Called
        /\ CalledElement # NoElement /\ calls' = <<>>
    BY <1>3 DEF CallConfirm, bounds, SamePlan, Waits
  <2>2. none \in SUBSET ((Resource \X Nat) \X Nat) /\ \A a \in none : FALSE
    OBVIOUS
  <2> HIDE DEF none
  <2>3. w \in FlowSet(UndoElements) /\ w.pc = "confirm" /\ w.snapshot = none
    BY <2>1, <2>2, CalledFacts, FlowType DEF StacksOK
  <2> HIDE DEF w
  <2>4. FlowFits(service, w)
    BY <2>2, <2>3 DEF FlowFits, Known, Fits, Single
  <2>5. w.pc # "running"
    BY <2>3
  <2> QED BY <2>1, <2>3, <2>4, <2>5, CalledFacts, CallWaits
<1>4. ASSUME CallResourceInvalid PROVE StacksOK'
  <2>1. /\ SamePlan /\ flows' = flows /\ Called /\ calls' = <<>>
        /\ service' = service \/ service' = Flush(service, theCall.resource)
    BY <1>4 DEF CallResourceInvalid, Runs, bounds, SamePlan
  <2>2. /\ pushed \in Nat /\ IsService(service, pushed, UndoElements)
        /\ flows \in Seq(FlowSet(UndoElements)) /\ Core(service, flows)
    BY DEF StacksOK, PlanOK, FlowsOK
  <2>3. IsService(service', pushed, UndoElements) /\ Keeps(service, service')
    BY <2>1, <2>2, CalledFacts, FlushKeeps, KeepsItself
  <2>4. Core(service', flows')
    BY <2>1, <2>2, <2>3, CoreKeeps
  <2>5. FlowsOK(flows', calls', UndoElements)
    BY <2>1 DEF FlowsOK, CallsOK, StacksOK
  <2> QED BY <2>1, <2>3, <2>4, <2>5, StacksStep
<1> QED BY <1>1, <1>2, <1>3, <1>4

\* One resource: the stack is moved at once, or what it was is kept.
LEMMA CallResourceStacks ==
  ASSUME StacksOK, CallResource
  PROVE  StacksOK'
<1> DEFINE x == CalledElement
<1> DEFINE r == theCall.resource
<1> DEFINE i == StackId(service, r)
<1> DEFINE side == theCall.side
<1> DEFINE snapshot == {<<i, CalledStack.versionId>>}
<1> DEFINE w == Flow("prepare", theCall, x, snapshot)
<1> DEFINE t == MoveAll(service, {i}, x, side)
<1>1. /\ Called /\ x # NoElement /\ ~IsWorkspace(x)
      /\ \/ /\ SamePlan /\ service' = service /\ flows' = Append(flows, w) /\ calls' = <<>>
         \/ Invoke(t, x, {i}, theCall, flows, {})
  BY DEF CallResource, Runs, Waits, bounds, SamePlan
<1>2. /\ PlanOK /\ pushed \in Nat /\ IsService(service, pushed, UndoElements)
      /\ flows \in Seq(FlowSet(UndoElements)) /\ Core(service, flows)
  BY DEF StacksOK, PlanOK, FlowsOK
<1>3. /\ theCall \in CallSet /\ Len(flows) < MaxFlows /\ side \in Sides /\ r \in Resource
      /\ x \in UndoElements
  BY <1>1, CalledFacts
<1>4. /\ i \in Resource \X Nat /\ i[1] = r /\ i[2] <= Len(service.stacks[i[1]])
      /\ CalledStack \in StackOver(UndoElements)
  BY <1>2, <1>3, OwnStackId DEF CalledStack
<1>5. CASE SamePlan /\ service' = service /\ flows' = Append(flows, w) /\ calls' = <<>>
  <2>1. /\ snapshot \in SUBSET ((Resource \X Nat) \X Nat) /\ \A a \in snapshot : a[1] = i
    BY <1>4 DEF StackOver
  <2> HIDE DEF snapshot, i, x
  <2>2. /\ w \in FlowSet(UndoElements) /\ w.pc = "prepare" /\ w.snapshot = snapshot
        /\ w.element = x
    BY <1>2, <1>3, <2>1, FlowType
  <2> HIDE DEF w
  <2>3. FlowFits(service, w)
    BY <1>1, <1>4, <2>1, <2>2 DEF FlowFits, Known, Fits, Single
  <2>4. w.pc # "running"
    BY <2>2
  <2> QED BY <1>3, <1>5, <2>2, <2>3, <2>4, CallWaits
<1>6. CASE Invoke(t, x, {i}, theCall, flows, {})
  <2> DEFINE is == {i}
  <2> DEFINE none == {}
  <2>1. is \in SUBSET (Resource \X Nat) /\ \A j \in is : j = i
    BY <1>4
  <2>2. Invoke(t, x, is, theCall, flows, none) /\ t = MoveAll(service, is, x, side)
    BY <1>6
  <2> HIDE DEF is, none, i, x, side, r, t
  <2>3. /\ IsService(t, pushed, UndoElements) /\ Keeps(service, t)
    BY <1>1, <1>2, <1>3, <2>2, MoveAllFacts
  <2>4. Core(t, flows)
    BY <1>2, <2>3, CoreKeeps
  <2>5. \A j \in is : j[2] <= Len(t.stacks[j[1]])
    <3>1. i[1] \in Resource /\ i[2] \in Nat
      BY <1>4
    <3>2. /\ Len(service.stacks[i[1]]) \in Nat /\ Len(t.stacks[i[1]]) \in Nat
          /\ Len(service.stacks[i[1]]) <= Len(t.stacks[i[1]])
      BY <1>2, <2>3, <3>1, StackTypes DEF Keeps, Ages
    <3> DEFINE p == Len(service.stacks[i[1]])
    <3> DEFINE q == Len(t.stacks[i[1]])
    <3>3. p \in Nat /\ q \in Nat /\ p <= q /\ i[2] <= p
      BY <1>4, <3>2
    <3> HIDE DEF p, q
    <3>4. i[2] <= q
      BY <3>1, <3>3
    <3> QED BY <2>1, <3>4 DEF q
  <2> QED BY <1>2, <1>3, <2>1, <2>2, <2>3, <2>4, <2>5, InvokeStacks
<1> QED BY <1>1, <1>5, <1>6

\* Several resources: the snapshot is of the stacks as they are.
LEMMA CallWorkspaceStacks ==
  ASSUME StacksOK, CallWorkspace
  PROVE  StacksOK'
<1> DEFINE x == CalledElement
<1> DEFINE affected == Affected(service, x)
<1>1. PICK pc \in {"prompt", "prepareAll"} :
        /\ SamePlan /\ Called /\ x # NoElement
        /\ \/ /\ service' = service /\ calls' = <<>>
              /\ flows' = Append(flows, Flow(pc, theCall, x, affected))
           \/ TryToSplit(x, theCall, FALSE) /\ flows' = flows
  BY DEF CallWorkspace, Runs, Waits, bounds, SamePlan
<1>2. /\ PlanOK /\ pushed \in Nat /\ IsService(service, pushed, UndoElements)
      /\ flows \in Seq(FlowSet(UndoElements)) /\ Core(service, flows)
  BY DEF StacksOK, PlanOK, FlowsOK
<1>3. /\ theCall \in CallSet /\ Len(flows) < MaxFlows /\ x \in UndoElements
  BY <1>1, CalledFacts
<1>4. CASE TryToSplit(x, theCall, FALSE) /\ flows' = flows
  <2> DEFINE no == FALSE
  <2>1. TryToSplit(x, theCall, no)
    BY <1>4
  <2> HIDE DEF no, x
  <2> QED BY <1>1, <1>2, <1>3, <1>4, <2>1, TryToSplitStacks
<1>5. CASE /\ service' = service /\ calls' = <<>>
           /\ flows' = Append(flows, Flow(pc, theCall, x, affected))
  <2> DEFINE w == Flow(pc, theCall, x, affected)
  <2>1. Resources(x) \subseteq Resource
    BY <1>2, <1>3, ElementFacts
  <2> HIDE DEF x
  <2>2. ASSUME NEW r \in Resources(x)
        PROVE  /\ StackId(service, r) \in Resource \X Nat /\ StackId(service, r)[1] = r
               /\ StackId(service, r)[2] = service.editStacks[r]
               /\ service.editStacks[r] <= Len(service.stacks[r])
               /\ StackOf(service, r).versionId \in Nat
               /\ Stack(service, StackId(service, r)) = StackOf(service, r)
    BY <1>2, <2>1, <2>2, OwnStackId DEF StackOver
  <2>3. affected \in SUBSET ((Resource \X Nat) \X Nat)
    BY <2>2 DEF Affected
  <2>4. \A a \in affected : \E r \in Resources(x) :
          a[1] = StackId(service, r) /\ a[2] = StackOf(service, r).versionId
    BY DEF Affected
  <2>5. \A r \in Resources(x) : \E a \in affected : a[1] = StackId(service, r)
    <3>1. ASSUME NEW r \in Resources(x) PROVE \E a \in affected : a[1] = StackId(service, r)
      <4>1. <<StackId(service, r), StackOf(service, r).versionId>> \in affected
        BY DEF Affected
      <4> HIDE DEF affected
      <4> QED BY <4>1
    <3> QED BY <3>1
  <2> HIDE DEF affected
  <2>6. /\ w \in FlowSet(UndoElements) /\ w.pc = pc /\ w.snapshot = affected /\ w.element = x
    BY <1>2, <1>3, <2>3, FlowType
  <2> HIDE DEF w
  <2>7. Known(service, w)
    BY <2>2, <2>4, <2>6 DEF Known
  <2>8. Fits(service, w)
    <3>1. \A r \in Resources(w.element) : \E a \in w.snapshot : a[1][1] = r
      BY <2>2, <2>5, <2>6
    <3>2. ASSUME NEW a \in w.snapshot
          PROVE  /\ a[1][1] \in Resources(w.element)
                 /\ a[2] <= Stack(service, a[1]).versionId
                 /\ service.editStacks[a[1][1]] = a[1][2]
      <4>1. PICK r \in Resources(x) :
              a[1] = StackId(service, r) /\ a[2] = StackOf(service, r).versionId
        BY <2>4, <2>6
      <4>2. a[2] = Stack(service, a[1]).versionId /\ a[2] \in Nat
        BY <2>2, <4>1
      <4>3. \A k \in Nat : k <= k
        OBVIOUS
      <4> QED BY <2>2, <2>6, <4>1, <4>2, <4>3
    <3> QED BY <3>1, <3>2 DEF Fits
  <2>9. FlowFits(service, w) /\ w.pc # "running"
    BY <2>6, <2>7, <2>8 DEF FlowFits, Single
  <2>10. flows' = Append(flows, w)
    BY <1>5 DEF w
  <2> QED BY <1>1, <1>3, <1>5, <2>6, <2>9, <2>10, CallWaits
<1> QED BY <1>1, <1>4, <1>5

\* What waits, and what is left when it does not.
LEMMA WaitingFacts ==
  ASSUME StacksOK, NEW f \in DOMAIN flows
  PROVE  /\ flows[f] \in FlowSet(UndoElements) /\ flows[f].call \in CallSet
         /\ flows[f].element \in UndoElements /\ flows[f].call.side \in Sides
         /\ FlowFits(service, flows[f])
         /\ RemoveAt(flows, f) \in Seq(FlowSet(UndoElements))
         /\ Len(RemoveAt(flows, f)) < MaxFlows /\ Len(flows) <= MaxFlows
<1>1. /\ flows \in Seq(FlowSet(UndoElements)) /\ Core(service, flows) /\ Len(flows) <= MaxFlows
      /\ MaxFlows \in Nat
  BY UndoBounds DEF StacksOK, FlowsOK
<1> DEFINE A == FlowSet(UndoElements)
<1>2. flows \in Seq(A)
  BY <1>1
<1> HIDE DEF A
<1>3. /\ flows[f] \in A /\ RemoveAt(flows, f) \in Seq(A)
      /\ Len(RemoveAt(flows, f)) = Len(flows) - 1 /\ Len(flows) \in Nat
  BY <1>2, RemoveAtFacts
<1>4. Len(RemoveAt(flows, f)) < MaxFlows
  BY <1>1, <1>3
<1>5. /\ flows[f].call \in CallSet /\ flows[f].element \in UndoElements
  BY <1>3, FlowFields DEF A
<1>6. flows[f].call.side \in Sides
  BY <1>5 DEF CallSet
<1>7. FlowFits(service, flows[f])
  BY <1>1 DEF Core
<1> QED BY <1>1, <1>3, <1>4, <1>5, <1>6, <1>7 DEF A

\* A flow that held nothing ends.
LEMMA FlowEnds ==
  ASSUME StacksOK, SamePlan, NEW f \in DOMAIN flows, flows[f].pc # "running",
         service' = service, flows' = RemoveAt(flows, f), CallsOK(calls')
  PROVE  StacksOK'
<1>1. /\ flows \in Seq(FlowSet(UndoElements)) /\ Core(service, flows)
      /\ IsService(service, pushed, UndoElements)
  BY DEF StacksOK, FlowsOK
<1>2. Core(service', flows')
  BY <1>1, CoreRemove
<1>3. FlowsOK(flows', calls', UndoElements)
  <2>1. flows' \in Seq(FlowSet(UndoElements)) /\ Len(flows') < MaxFlows
    BY WaitingFacts
  <2>2. Len(flows') \in Nat /\ MaxFlows \in Nat
    BY <2>1, UndoBounds
  <2>3. Len(flows') <= MaxFlows
    BY <2>1, <2>2
  <2> QED BY <2>1, <2>3 DEF FlowsOK
<1> QED BY <1>1, <1>2, <1>3, StacksStep

\* A dialog is answered.
LEMMA AnswerStacks ==
  ASSUME StacksOK, NEW f \in DOMAIN flows
  PROVE  /\ \A yes \in BOOLEAN : ConfirmAnswered(f, yes) => StacksOK'
         /\ PromptCancelled(f) => StacksOK'
         /\ PromptAnsweredThis(f) => StacksOK'
<1>0. /\ flows[f].call \in CallSet /\ flows[f].element \in UndoElements
      /\ RemoveAt(flows, f) \in Seq(FlowSet(UndoElements)) /\ Len(RemoveAt(flows, f)) < MaxFlows
  BY WaitingFacts
<1>1. ASSUME NEW yes \in BOOLEAN, ConfirmAnswered(f, yes) PROVE StacksOK'
  <2>1. /\ SamePlan /\ flows[f].pc = "confirm" /\ service' = service
        /\ flows' = RemoveAt(flows, f)
        /\ calls' = <<[flows[f].call EXCEPT !.confirmed = TRUE]>> \/ calls' = <<>>
    BY <1>1 DEF ConfirmAnswered, At, bounds, SamePlan
  <2>2. [flows[f].call EXCEPT !.confirmed = TRUE] \in CallSet
    BY <1>0 DEF CallSet
  <2>3. CallsOK(calls') /\ flows[f].pc # "running"
    BY <2>1, <2>2 DEF CallsOK
  <2> QED BY <2>1, <2>3, FlowEnds
<1>2. ASSUME PromptCancelled(f) PROVE StacksOK'
  <2>1. /\ SamePlan /\ flows[f].pc = "prompt" /\ service' = service
        /\ flows' = RemoveAt(flows, f) /\ calls' = calls
    BY <1>2 DEF PromptCancelled, At, bounds, SamePlan
  <2>2. CallsOK(calls') /\ flows[f].pc # "running"
    BY <2>1 DEF StacksOK, FlowsOK
  <2> QED BY <2>1, <2>2, FlowEnds
<1>3. ASSUME PromptAnsweredThis(f) PROVE StacksOK'
  <2> DEFINE none == {}
  <2>1. /\ SamePlan /\ flows[f].pc # "running" /\ flows' = RemoveAt(flows, f)
        /\ SplitAndCall(flows[f].element, flows[f].call, none)
    BY <1>3 DEF PromptAnsweredThis, At, bounds, SamePlan
  <2> HIDE DEF none
  <2>2. flows \in Seq(FlowSet(UndoElements)) /\ Core(service, flows)
    BY DEF StacksOK, FlowsOK
  <2>3. Core(service, flows')
    BY <2>1, <2>2, CoreRemove
  <2> QED BY <1>0, <2>1, <2>3, SplitAndCallStacks
<1> QED BY <1>1, <1>2, <1>3

\* The answer is to undo in all files.
LEMMA PromptAnsweredAllStacks ==
  ASSUME StacksOK, NEW f \in DOMAIN flows, PromptAnsweredAll(f)
  PROVE  StacksOK'
<1> DEFINE x == flows[f].element
<1> DEFINE c == [flows[f].call EXCEPT !.confirmed = TRUE]
<1> DEFINE w == Flow("prepareAll", c, x, flows[f].snapshot)
<1>1. /\ SamePlan /\ flows[f].pc = "prompt"
      /\ \/ flows' = [flows EXCEPT ![f] = w] /\ service' = service /\ calls' = calls
         \/ flows' = RemoveAt(flows, f) /\ TryToSplit(x, c, FALSE)
  BY DEF PromptAnsweredAll, At, bounds, SamePlan
<1>2. /\ flows[f].call \in CallSet /\ x \in UndoElements /\ flows[f] \in FlowSet(UndoElements)
      /\ RemoveAt(flows, f) \in Seq(FlowSet(UndoElements)) /\ Len(RemoveAt(flows, f)) < MaxFlows
      /\ FlowFits(service, flows[f]) /\ flows[f].pc # "running"
  BY <1>1, WaitingFacts
<1>3. /\ PlanOK /\ flows \in Seq(FlowSet(UndoElements)) /\ Core(service, flows)
      /\ IsService(service, pushed, UndoElements)
  BY DEF StacksOK, FlowsOK
<1>4. c \in CallSet
  BY <1>2 DEF CallSet
<1> HIDE DEF c
<1>5. CASE flows' = RemoveAt(flows, f) /\ TryToSplit(x, c, FALSE)
  <2> DEFINE no == FALSE
  <2>1. TryToSplit(x, c, no)
    BY <1>5
  <2> HIDE DEF no, x
  <2>2. Core(service, flows')
    BY <1>2, <1>3, <1>5, CoreRemove
  <2> QED BY <1>1, <1>2, <1>4, <1>5, <2>1, <2>2, TryToSplitStacks
<1>6. CASE flows' = [flows EXCEPT ![f] = w] /\ service' = service /\ calls' = calls
  <2>1. flows[f].snapshot \in SUBSET ((Resource \X Nat) \X Nat)
    BY <1>2 DEF FlowSet
  <2> DEFINE q == flows[f].snapshot
  <2> HIDE DEF x, q
  <2>2. /\ w \in FlowSet(UndoElements) /\ w.pc = "prepareAll" /\ w.snapshot = q /\ w.element = x
    BY <1>2, <1>3, <1>4, <2>1, FlowType DEF q
  <2> HIDE DEF w
  <2>3. FlowFits(service, w) /\ w.pc # "running"
    BY <1>1, <1>2, <2>2 DEF FlowFits, Known, Fits, Single, q, x
  <2>4. Core(service', flows')
    BY <1>2, <1>3, <1>6, <2>2, <2>3, CoreReplace
  <2> DEFINE A == FlowSet(UndoElements)
  <2>5. flows \in Seq(A) /\ w \in A
    BY <1>3, <2>2
  <2> HIDE DEF A
  <2>6. flows' \in Seq(A) /\ Len(flows') = Len(flows)
    BY <2>5, <1>6
  <2>7. FlowsOK(flows', calls', UndoElements)
    BY <2>6, <1>6 DEF StacksOK, FlowsOK, A
  <2> QED BY <1>1, <1>3, <1>6, <2>4, <2>7, StacksStep
<1> QED BY <1>1, <1>5, <1>6

\* The models are loaded, of an edit of one resource or several.  What it took a snapshot
\* of is moved.
LEMMA LoadedStacks ==
  ASSUME StacksOK, NEW f \in DOMAIN flows, flows[f].pc # "running", NEW notes,
         NEW t, t = MoveAll(service, Stacks(flows[f]), flows[f].element, flows[f].call.side),
         Tidy(t),
         Invoke(t, flows[f].element, Stacks(flows[f]), flows[f].call, RemoveAt(flows, f), notes)
  PROVE  StacksOK'
<1> DEFINE is == Stacks(flows[f])
<1> DEFINE x == flows[f].element
<1> DEFINE c == flows[f].call
<1>1. /\ c \in CallSet /\ x \in UndoElements /\ flows[f] \in FlowSet(UndoElements)
      /\ RemoveAt(flows, f) \in Seq(FlowSet(UndoElements)) /\ Len(RemoveAt(flows, f)) < MaxFlows
      /\ FlowFits(service, flows[f]) /\ c.side \in Sides
  BY WaitingFacts
<1>2. /\ PlanOK /\ flows \in Seq(FlowSet(UndoElements)) /\ Core(service, flows)
      /\ IsService(service, pushed, UndoElements) /\ pushed \in Nat
  BY DEF StacksOK, FlowsOK, PlanOK
<1>3. is \in SUBSET (Resource \X Nat)
  BY <1>1, FlowFields
<1>4. \A i \in is : i[1] \in Resource /\ i[2] \in Nat /\ i[2] <= Len(service.stacks[i[1]])
  BY <1>1, <1>3 DEF FlowFits, Known, Stacks
<1> HIDE DEF is, x, c
<1>5. t = MoveAll(service, is, x, c.side) /\ Invoke(t, x, is, c, RemoveAt(flows, f), notes)
  BY DEF is, x, c
<1>6. IsService(t, pushed, UndoElements) /\ SameLocks(service, t) /\ Ages(service, t)
  <2> DEFINE u == MoveAll(service, is, x, c.side)
  <2>1. IsService(u, pushed, UndoElements) /\ SameLocks(service, u) /\ Ages(service, u)
    BY <1>1, <1>2, MoveAllFacts
  <2> HIDE DEF u
  <2>2. t = u
    BY <1>5 DEF u
  <2> QED BY <2>1, <2>2
<1>7. Core(service, RemoveAt(flows, f))
  BY <1>2, CoreRemove
<1>8. Core(t, RemoveAt(flows, f))
  BY <1>1, <1>2, <1>6, <1>7, CoreAges
<1>9. ASSUME NEW i \in is PROVE i[2] <= Len(t.stacks[i[1]])
  <2> DEFINE p == Len(service.stacks[i[1]])
  <2> DEFINE q == Len(t.stacks[i[1]])
  <2>1. p \in Nat /\ q \in Nat /\ p <= q /\ i[2] <= p /\ i[2] \in Nat
    BY <1>2, <1>4, <1>6, StackTypes DEF Ages
  <2> HIDE DEF p, q
  <2>2. i[2] <= q
    BY <2>1
  <2> QED BY <2>2 DEF q
<1> QED BY <1>1, <1>3, <1>5, <1>6, <1>8, <1>9, InvokeStacks

\* The models of an element of one resource are loaded.
LEMMA PreparedStacks ==
  ASSUME StacksOK, NEW f \in DOMAIN flows, Prepared(f)
  PROVE  StacksOK'
<1> DEFINE is == Stacks(flows[f])
<1> DEFINE x == flows[f].element
<1> DEFINE c == flows[f].call
<1> DEFINE t == MoveAll(service, is, x, c.side)
<1> DEFINE notes == Note("overtaken", Overtaken(f))
<1>1. flows[f].pc = "prepare" /\ Invoke(t, x, is, c, RemoveAt(flows, f), notes)
  BY DEF Prepared, At
<1>2. /\ x \in UndoElements /\ FlowFits(service, flows[f]) /\ c.side \in Sides
  BY WaitingFacts
<1>3. ~IsWorkspace(x)
  BY <1>1, <1>2 DEF FlowFits, Single
<1>4. /\ Core(service, flows) /\ IsService(service, pushed, UndoElements) /\ pushed \in Nat
  BY DEF StacksOK, PlanOK
<1> HIDE DEF is, x, c
<1>5. IsService(t, pushed, UndoElements) /\ Keeps(service, t)
  BY <1>2, <1>3, <1>4, MoveAllFacts
<1>6. t = MoveAll(service, is, x, c.side)
  OBVIOUS
<1> HIDE DEF t, notes
<1>7. Tidy(t)
  BY <1>4, <1>5, TidyShrinks DEF Core, Keeps
<1>8. flows[f].pc # "running"
  BY <1>1
<1> QED BY <1>1, <1>6, <1>7, <1>8, LoadedStacks DEF is, x, c

\* Those of an element of several are: the stacks that pass the check are those of its
\* resources, and all have it last.
LEMMA AllPreparedStacks ==
  ASSUME StacksOK, NEW f \in DOMAIN flows, AllPrepared(f)
  PROVE  StacksOK'
<1> DEFINE is == Stacks(flows[f])
<1> DEFINE x == flows[f].element
<1> DEFINE c == flows[f].call
<1> DEFINE w == flows[f]
<1> DEFINE t == MoveAll(service, is, x, c.side)
<1> DEFINE none == {}
<1>1. /\ w.pc = "prepareAll"
      /\ \/ /\ Verified(service, x, c.side, w.snapshot, TRUE)
            /\ Invoke(t, x, is, c, RemoveAt(flows, f), none)
         \/ SamePlan /\ flows' = RemoveAt(flows, f) /\ TryToSplit(x, c, TRUE)
  BY DEF AllPrepared, At, bounds, SamePlan
<1>2. /\ c \in CallSet /\ x \in UndoElements /\ FlowFits(service, w) /\ c.side \in Sides
      /\ w \in FlowSet(UndoElements) /\ w.pc # "running"
      /\ RemoveAt(flows, f) \in Seq(FlowSet(UndoElements)) /\ Len(RemoveAt(flows, f)) < MaxFlows
  BY <1>1, WaitingFacts
<1>3. /\ PlanOK /\ flows \in Seq(FlowSet(UndoElements)) /\ Core(service, flows)
      /\ IsService(service, pushed, UndoElements) /\ pushed \in Nat
  BY DEF StacksOK, FlowsOK, PlanOK
<1>4. CASE SamePlan /\ flows' = RemoveAt(flows, f) /\ TryToSplit(x, c, TRUE)
  <2> DEFINE yes == TRUE
  <2>1. TryToSplit(x, c, yes)
    BY <1>4
  <2> HIDE DEF yes, x, c
  <2>2. Core(service, flows')
    BY <1>2, <1>3, <1>4, CoreRemove DEF w
  <2> QED BY <1>2, <1>4, <2>1, <2>2, TryToSplitStacks
<1>5. CASE /\ Verified(service, x, c.side, w.snapshot, TRUE)
           /\ Invoke(t, x, is, c, RemoveAt(flows, f), none)
  <2>1. \A a \in w.snapshot : /\ Closest(Stack(service, a[1]), c.side) = x
                              /\ ~Stack(service, a[1]).locked
                              /\ Stack(service, a[1]).versionId = a[2]
    BY <1>5 DEF Verified, Changed
  <2>2. \A r \in Resources(x) : \E a \in w.snapshot : a[1][1] = r
    BY <1>1, <1>2 DEF FlowFits, Fits
  <2>3. ASSUME NEW a \in w.snapshot
        PROVE  /\ a[1][1] \in Resources(x) /\ a[1][1] \in Resource /\ a[1][2] # 0
               /\ service.editStacks[a[1][1]] = a[1][2] /\ a[1] = StackId(service, a[1][1])
    <3>1. a[1] = <<a[1][1], a[1][2]>> /\ a[1][1] \in Resource
      BY <1>2, FlowFields
    <3>2. a[1][2] # 0
      BY <2>1, <3>1 DEF Stack, Missing
    <3>3. a[1][1] \in Resources(x) /\ service.editStacks[a[1][1]] = a[1][2]
      BY <1>1, <1>2, <2>1, <3>2 DEF FlowFits, Fits
    <3> QED BY <3>1, <3>2, <3>3 DEF StackId
  <2>4. Resources(x) \subseteq Resource /\ x # NoElement
    BY <1>2, <1>3, ElementFacts
  <2>5. \A i \in is : \E a \in w.snapshot : i = a[1]
    BY DEF Stacks
  <2>6. \A a \in w.snapshot : a[1] \in is
    BY DEF Stacks
  <2> HIDE DEF is, x, c, w
  <2>7. ASSUME NEW r \in Resources(x)
        PROVE  /\ service.editStacks[r] # 0 /\ StackId(service, r) \in is
               /\ StackOf(service, r)[c.side] # <<>> /\ Last(StackOf(service, r)[c.side]) = x
    <3>1. PICK a \in w.snapshot : a[1][1] = r
      BY <2>2
    <3>2. a[1] = StackId(service, r) /\ service.editStacks[r] # 0
      BY <2>3, <3>1
    <3>3. Closest(StackOf(service, r), c.side) = x
      BY <2>1, <3>2 DEF StackOf
    <3>4. StackOf(service, r) \in StackOver(UndoElements)
      BY <1>3, <2>4, StackTypes
    <3>5. /\ StackOf(service, r)[c.side] # <<>> /\ Last(StackOf(service, r)[c.side]) = x
      BY <1>2, <2>4, <3>3, <3>4, ClosestFacts
    <3> QED BY <2>6, <3>2, <3>5
  <2>8. ASSUME NEW r \in Resource \ Resources(x) PROVE StackId(service, r) \notin is
    <3>1. SUFFICES ASSUME StackId(service, r) \in is PROVE FALSE
      OBVIOUS
    <3>2. PICK a \in w.snapshot : StackId(service, r) = a[1]
      BY <2>5, <3>1
    <3>3. a[1][1] = r
      BY <3>2 DEF StackId
    <3> QED BY <2>3, <3>3
  <2>9. IsService(t, pushed, UndoElements) /\ (~IsWorkspace(x) => Keeps(service, t))
    BY <1>2, <1>3, MoveAllFacts
  <2>10. Tidy(t)
    <3>1. CASE IsWorkspace(x)
      <4>1. Resources(x) # {}
        <5>1. SUFFICES ASSUME Resources(x) = {} PROVE FALSE
          OBVIOUS
        <5>2. Cardinality({}) = 0 /\ ~(0 > 1)
          BY FS_EmptySet
        <5> QED BY <3>1, <5>1, <5>2 DEF IsWorkspace
      <4>2. Tidy(service)
        BY <1>3 DEF Core
      <4> QED BY <1>2, <1>3, <2>4, <2>7, <2>8, <3>1, <4>1, <4>2, TidyMoved
    <3>2. CASE ~IsWorkspace(x)
      BY <1>3, <2>9, <3>2, TidyShrinks DEF Core, Keeps
    <3> QED BY <3>1, <3>2
  <2>11. t = MoveAll(service, is, x, c.side) /\ Invoke(t, x, is, c, RemoveAt(flows, f), none)
    BY <1>5
  <2> HIDE DEF t, none
  <2> QED BY <1>2, <2>10, <2>11, LoadedStacks DEF is, x, c, w
<1> QED BY <1>1, <1>4, <1>5

\* Files are undone, or not.
LEMMA FilesStacks ==
  ASSUME StacksOK, NEW f \in DOMAIN flows, FilesDone(f) \/ FilesFail(f)
  PROVE  StacksOK'
<1> DEFINE w == flows[f]
<1> DEFINE no == FALSE
<1> DEFINE s == SetLocked(service, Stacks(w), no)
<1>1. /\ SamePlan /\ flows[f].pc = "running" /\ flows' = RemoveAt(flows, f)
      /\ \/ service' = s /\ calls' \in Continue(s, w.element, w.call)
         \/ service' = RemoveElements(s, Resources(w.element)) /\ calls' = calls
  BY DEF FilesDone, FilesFail, At, bounds, SamePlan
<1>2. /\ w.call \in CallSet /\ w.element \in UndoElements
      /\ RemoveAt(flows, f) \in Seq(FlowSet(UndoElements)) /\ Len(RemoveAt(flows, f)) < MaxFlows
  BY WaitingFacts
<1>3. /\ PlanOK /\ flows \in Seq(FlowSet(UndoElements)) /\ Core(service, flows)
      /\ IsService(service, pushed, UndoElements) /\ pushed \in Nat
      /\ CallsOK(calls)
  BY DEF StacksOK, FlowsOK, PlanOK
<1>4. no \in BOOLEAN
  OBVIOUS
<1>5. Core(s, flows')
  BY <1>1, <1>3, CoreUnlock
<1> HIDE DEF no
<1>6. IsService(s, pushed, UndoElements)
  BY <1>3, <1>4, SetLockedFacts
<1> HIDE DEF s, w
<1>7. Len(flows') \in Nat /\ MaxFlows \in Nat
  BY <1>1, <1>2, UndoBounds
<1>8. flows' \in Seq(FlowSet(UndoElements)) /\ Len(flows') <= MaxFlows /\ Len(flows') < MaxFlows
  BY <1>1, <1>2, <1>7
<1>9. CASE service' = s /\ calls' \in Continue(s, w.element, w.call)
  <2>1. CallsOK(calls')
    BY <1>2, <1>9, ContinueType
  <2>2. FlowsOK(flows', calls', UndoElements)
    BY <1>8, <2>1 DEF FlowsOK
  <2> QED BY <1>1, <1>5, <1>6, <1>9, <2>2, StacksStep
<1>10. CASE service' = RemoveElements(s, Resources(w.element)) /\ calls' = calls
  <2>1. Numbered(UndoElements, pushed) /\ Resources(w.element) \in SUBSET Resource
    BY <1>2, <1>3, ElementFacts
  <2>2. IsService(service', pushed, UndoElements) /\ Keeps(s, service')
    BY <1>3, <1>6, <1>10, <2>1, RemoveElementsKeeps
  <2>3. Core(service', flows')
    BY <1>3, <1>5, <1>6, <1>8, <2>2, CoreKeeps
  <2>4. FlowsOK(flows', calls', UndoElements)
    BY <1>3, <1>8, <1>10 DEF FlowsOK
  <2> QED BY <1>1, <2>2, <2>3, <2>4, StacksStep
<1> QED BY <1>1, <1>9, <1>10

(***************************************************************************)
(* Models, texts and what is recorded.                                     *)
(***************************************************************************)
\* The invariant of the models and of what is recorded.
TextsOK ==
  /\ asked \in 0 .. MaxAsked
  /\ open \subseteq Edited /\ disposedModels \subseteq Edited \ open
  /\ linked \subseteq (1 .. pushed) \X Edited
  /\ \E S : before \in Seq(S) /\ Len(before) = pushed
  /\ text \in [Model -> Seq(0 .. pushed)]
  /\ noted \subseteq {"disorder", "overtaken", "kept"}

\* A step that changes at most a text and what is noted.
LEMMA TextsStay ==
  ASSUME TextsOK, SamePlan, modelVars' = modelVars, asked' = asked, before' = before,
         text' \in [Model -> Seq(0 .. pushed)],
         noted' \subseteq {"disorder", "overtaken", "kept"}
  PROVE  TextsOK'
<1>1. Edited' = Edited /\ pushed' = pushed
  BY DEF SamePlan, Edited
<1> QED BY <1>1 DEF TextsOK, modelVars

\* Texts where an edit is undone or redone.
LEMMA AppliedType ==
  ASSUME StacksOK, TextsOK, NEW x \in UndoElements, NEW models, NEW side
  PROVE  Applied(x, models, side) \in [Model -> Seq(0 .. pushed)]
<1> DEFINE E == 0 .. pushed
<1>1. x.of \in E
  BY ElementFacts DEF StacksOK
<1>2. \A m \in Model : text[m] \in Seq(E)
  BY DEF TextsOK
<1> HIDE DEF E
<1>3. ASSUME NEW m \in Model
      PROVE  Without(text[m], x.of) \in Seq(E) /\ Append(text[m], x.of) \in Seq(E)
  BY <1>1, <1>2, WithoutType
<1>4. ASSUME NEW m \in Model PROVE Applied(x, models, side)[m] \in Seq(E)
  BY <1>2, <1>3 DEF Applied
<1>5. Applied(x, models, side) = [m \in Model |-> Applied(x, models, side)[m]]
  BY DEF Applied
<1> DEFINE a == Applied(x, models, side)
<1>6. a = [m \in Model |-> a[m]] /\ \A m \in Model : a[m] \in Seq(E)
  BY <1>4, <1>5
<1> HIDE DEF a
<1>7. a \in [Model -> Seq(E)]
  BY <1>6
<1> QED BY <1>7 DEF a, E

\* _safeInvokeWithLocks edits texts of the element.
LEMMA InvokeTexts ==
  ASSUME StacksOK, TextsOK, NEW s, NEW is, NEW c, NEW x \in UndoElements, NEW waiting,
         NEW notes \in SUBSET {"disorder", "overtaken", "kept"},
         Invoke(s, x, is, c, waiting, notes)
  PROVE  TextsOK'
<1>1. SamePlan /\ modelVars' = modelVars /\ asked' = asked /\ before' = before
  BY DEF Invoke, SamePlan, bounds
<1>2. text' = text \/ \E models : text' = Applied(x, models, c.side)
  BY DEF Invoke, CannotLock, InvokeFiles, InvokeEdits
<1>3. text' \in [Model -> Seq(0 .. pushed)]
  BY <1>2, AppliedType DEF TextsOK
<1>4. noted' \subseteq {"disorder", "overtaken", "kept"}
  BY DEF TextsOK, Invoke, Note
<1> QED BY <1>1, <1>3, <1>4, TextsStay

\* An edit is made.
LEMMA PushTexts ==
  ASSUME StacksOK, TextsOK, Push
  PROVE  TextsOK'
<1> DEFINE x == Whole(pushed + 1)
<1> DEFINE models == ToSet(x.on)
<1> DEFINE y == [m \in models |-> text[m]]
<1>1. PICK edited \in SUBSET models :
        /\ edited \subseteq open
        /\ linked' = linked \cup ({pushed + 1} \X edited)
  BY DEF Push
<1>2. /\ pushed < Len(plan) /\ pushed' = pushed + 1 /\ plan' = plan
      /\ before' = Append(before, y)
      /\ text' = [m \in Model |-> IF m \in models THEN Append(text[m], pushed + 1) ELSE text[m]]
      /\ open' = open /\ disposedModels' = disposedModels /\ asked' = asked /\ noted' = noted
  BY DEF Push, bounds
<1>3. pushed \in Nat
  BY DEF StacksOK, PlanOK
<1>4. Edited' = Edited
  BY <1>2 DEF Edited
<1>5. linked' \subseteq (1 .. pushed + 1) \X Edited
  BY <1>1, <1>3 DEF TextsOK
<1>6. \E S : before' \in Seq(S) /\ Len(before') = pushed + 1
  <2>1. PICK S : before \in Seq(S) /\ Len(before) = pushed
    BY DEF TextsOK
  <2> DEFINE U == S \cup {y}
  <2>2. S \subseteq U /\ y \in U
    OBVIOUS
  <2> HIDE DEF U, y
  <2>3. before \in Seq(U)
    BY <2>1, <2>2
  <2>4. before' \in Seq(U) /\ Len(before') = pushed + 1
    BY <1>2, <2>1, <2>2, <2>3
  <2> QED BY <2>4
<1>7. text' \in [Model -> Seq(0 .. pushed + 1)]
  <2> DEFINE A == 0 .. pushed
  <2> DEFINE B == 0 .. pushed + 1
  <2>1. A \subseteq B /\ pushed + 1 \in B
    BY <1>3
  <2>2. \A m \in Model : text[m] \in Seq(A)
    BY DEF TextsOK
  <2> DEFINE k == pushed + 1
  <2> HIDE DEF A, B, models, k
  <2>3. \A m \in Model : text[m] \in Seq(B)
    BY <2>1, <2>2
  <2>4. \A m \in Model : Append(text[m], k) \in Seq(B)
    BY <2>1, <2>3 DEF k
  <2>5. text' \in [Model -> Seq(B)]
    BY <1>2, <2>3, <2>4 DEF k
  <2> QED BY <2>5 DEF B
<1> QED BY <1>2, <1>4, <1>5, <1>6, <1>7 DEF TextsOK

\* A content that is replaced.
LEMMA ForeignType ==
  ASSUME TextsOK, pushed \in Nat, NEW m \in Model
  PROVE  [text EXCEPT ![m] = Append(@, Foreign)] \in [Model -> Seq(0 .. pushed)]
<1> DEFINE A == 0 .. pushed
<1>1. text \in [Model -> Seq(A)] /\ Foreign \in A
  BY DEF TextsOK, Foreign
<1> HIDE DEF A
<1>2. Append(text[m], Foreign) \in Seq(A)
  BY <1>1
<1>3. [text EXCEPT ![m] = Append(@, Foreign)] \in [Model -> Seq(A)]
  BY <1>1, <1>2
<1> QED BY <1>3 DEF A

\* Models are closed and opened.
LEMMA ModelTexts ==
  ASSUME StacksOK, TextsOK, NEW m \in Model
  PROVE  /\ SetValue(m) => TextsOK'
         /\ \A evicted \in SUBSET Model : CloseMaintained(m, evicted) => TextsOK'
         /\ CloseDropped(m) => TextsOK'
         /\ Reopen(m) => TextsOK'
         /\ ReopenOther(m) => TextsOK'
<1>1. pushed \in Nat /\ IsService(service, pushed, UndoElements) /\ PlanOK
  BY DEF StacksOK, PlanOK
<1>2. ASSUME SamePlan, asked' = asked, before' = before,
             open' \subseteq Edited, disposedModels' \subseteq Edited \ open',
             linked' \subseteq (1 .. pushed) \X Edited,
             text' \in [Model -> Seq(0 .. pushed)],
             noted' \subseteq {"disorder", "overtaken", "kept"}
      PROVE  TextsOK'
  <2>1. Edited' = Edited /\ pushed' = pushed
    BY <1>2 DEF SamePlan, Edited
  <2> QED BY <1>2, <2>1 DEF TextsOK
<1>3. ASSUME SetValue(m) PROVE TextsOK'
  <2>1. /\ SamePlan /\ modelVars' = modelVars /\ asked' = asked /\ before' = before
        /\ noted' = noted /\ text' = [text EXCEPT ![m] = Append(@, Foreign)]
    BY <1>3 DEF SetValue, SamePlan, bounds
  <2>2. text' \in [Model -> Seq(0 .. pushed)]
    BY <1>1, <2>1, ForeignType
  <2> QED BY <2>1, <2>2, TextsStay DEF TextsOK
<1>4. ASSUME Closes(m)
      PROVE  /\ SamePlan /\ asked' = asked /\ before' = before /\ text' = text /\ noted' = noted
             /\ m \in Edited /\ m \notin open' /\ open' \subseteq open /\ linked' \subseteq linked
  BY <1>4 DEF Closes, SamePlan, bounds, TextsOK
<1>5. ASSUME NEW evicted \in SUBSET Model, CloseMaintained(m, evicted) PROVE TextsOK'
  <2>1. Closes(m) /\ disposedModels' = (disposedModels \ evicted) \cup {m}
    BY <1>5 DEF CloseMaintained
  <2>2. open' \subseteq Edited /\ disposedModels' \subseteq Edited \ open'
        /\ linked' \subseteq (1 .. pushed) \X Edited
    BY <1>4, <2>1 DEF TextsOK
  <2> QED BY <1>2, <1>4, <2>1, <2>2 DEF TextsOK
<1>6. ASSUME CloseDropped(m) PROVE TextsOK'
  <2>1. Closes(m) /\ disposedModels' = disposedModels
    BY <1>6 DEF CloseDropped
  <2>2. open' \subseteq Edited /\ disposedModels' \subseteq Edited \ open'
        /\ linked' \subseteq (1 .. pushed) \X Edited
    BY <1>4, <2>1 DEF TextsOK
  <2> QED BY <1>2, <1>4, <2>1, <2>2 DEF TextsOK
<1>7. {<<x.of, m>> : x \in Matching(service, m)} \subseteq (1 .. pushed) \X {m}
  <2>1. ComparisonKey[m] \in Resource
    BY DEF Resource
  <2>2. Matching(service, m) \subseteq UndoElements
    BY <1>1, <2>1, StackTypes, ElementsType DEF Matching
  <2> QED BY <1>1, <2>2, ElementFacts
<1>8. ASSUME Reopen(m) PROVE TextsOK'
  <2>1. /\ SamePlan /\ asked' = asked /\ before' = before /\ text' = text /\ noted' = noted
        /\ m \in Edited \ open /\ open' = open \cup {m}
        /\ \/ /\ linked' = linked \cup {<<x.of, m>> : x \in Matching(service, m)}
              /\ disposedModels' = disposedModels \ {m}
           \/ linked' = linked /\ disposedModels' = disposedModels /\ m \notin disposedModels
    BY <1>8 DEF Reopen, SamePlan, bounds
  <2>2. open' \subseteq Edited /\ disposedModels' \subseteq Edited \ open'
    BY <2>1 DEF TextsOK
  <2>3. linked' \subseteq (1 .. pushed) \X Edited
    BY <1>7, <2>1 DEF TextsOK
  <2> QED BY <1>2, <2>1, <2>2, <2>3 DEF TextsOK
<1>9. ASSUME ReopenOther(m) PROVE TextsOK'
  <2>1. /\ SamePlan /\ asked' = asked /\ before' = before /\ linked' = linked
        /\ text' = [text EXCEPT ![m] = Append(@, Foreign)]
        /\ noted' \subseteq noted \cup {"kept"}
        /\ m \in Edited \ open /\ open' = open \cup {m} /\ disposedModels' = disposedModels \ {m}
    BY <1>9 DEF ReopenOther, SamePlan, bounds, Note
  <2>2. open' \subseteq Edited /\ disposedModels' \subseteq Edited \ open'
    BY <2>1 DEF TextsOK
  <2>3. text' \in [Model -> Seq(0 .. pushed)]
    BY <1>1, <2>1, ForeignType
  <2>4. noted' \subseteq {"disorder", "overtaken", "kept"}
    BY <2>1 DEF TextsOK
  <2> QED BY <1>2, <2>1, <2>2, <2>3, <2>4 DEF TextsOK
<1> QED BY <1>3, <1>5, <1>6, <1>8, <1>9

\* Undo and redo are asked for.
LEMMA AskTexts ==
  ASSUME TextsOK, NEW side
  PROVE  /\ \A m \in Model : Ask(side, m) => TextsOK'
         /\ AskSource(side, 1) => TextsOK'
<1>1. SUFFICES ASSUME AskSource(side, 1) \/ \E m \in Model : Ask(side, m) PROVE TextsOK'
  OBVIOUS
<1>2. /\ SamePlan /\ modelVars' = modelVars /\ before' = before /\ text' = text
      /\ noted' = noted /\ asked' = asked + 1 /\ asked < MaxAsked
  BY <1>1 DEF Ask, AskSource, SamePlan, bounds
<1>3. asked' \in 0 .. MaxAsked
  BY <1>2, UndoBounds DEF TextsOK
<1>4. Edited' = Edited /\ pushed' = pushed
  BY <1>2 DEF SamePlan, Edited
<1> QED BY <1>2, <1>3, <1>4 DEF TextsOK, modelVars

\* They are called.
LEMMA CallTexts ==
  ASSUME StacksOK, TextsOK
  PROVE  /\ CallNothing \/ CallInGroup \/ CallConfirm \/ CallResourceInvalid => TextsOK'
         /\ CallResource => TextsOK'
         /\ CallWorkspace => TextsOK'
<1>1. ASSUME SamePlan, modelVars' = modelVars, asked' = asked, before' = before, text' = text,
             noted' = noted
      PROVE  TextsOK'
  BY <1>1, TextsStay DEF TextsOK
<1>2. ASSUME CallNothing \/ CallInGroup \/ CallConfirm \/ CallResourceInvalid PROVE TextsOK'
  BY <1>1, <1>2 DEF CallNothing, CallInGroup, CallConfirm, CallResourceInvalid, bounds, SamePlan
<1>3. ASSUME CallWorkspace PROVE TextsOK'
  BY <1>1, <1>3 DEF CallWorkspace, bounds, SamePlan
<1>4. ASSUME CallResource PROVE TextsOK'
  <2>1. Called /\ CalledElement # NoElement
    BY <1>4 DEF CallResource, Runs
  <2>2. CalledElement \in UndoElements
    BY <2>1, CalledFacts
  <2>3. CASE /\ SamePlan /\ modelVars' = modelVars /\ asked' = asked /\ before' = before
             /\ text' = text /\ noted' = noted
    BY <1>1, <2>3
  <2>4. CASE \E s, is : Invoke(s, CalledElement, is, theCall, flows, {})
    <3> DEFINE none == {}
    <3>1. none \in SUBSET {"disorder", "overtaken", "kept"}
      OBVIOUS
    <3>2. \E s, is : Invoke(s, CalledElement, is, theCall, flows, none)
      BY <2>4
    <3> HIDE DEF none
    <3> QED BY <2>2, <3>1, <3>2, InvokeTexts
  <2> QED BY <1>4, <2>3, <2>4 DEF CallResource, bounds, SamePlan
<1> QED BY <1>2, <1>3, <1>4

\* What was waited for is there.
LEMMA FlowTexts ==
  ASSUME StacksOK, TextsOK, NEW f \in DOMAIN flows
  PROVE  /\ \A yes \in BOOLEAN : ConfirmAnswered(f, yes) => TextsOK'
         /\ PromptCancelled(f) \/ PromptAnsweredThis(f) \/ PromptAnsweredAll(f) => TextsOK'
         /\ AllPrepared(f) \/ Prepared(f) => TextsOK'
         /\ FilesDone(f) \/ FilesFail(f) => TextsOK'
<1>1. ASSUME SamePlan, modelVars' = modelVars, asked' = asked, before' = before, text' = text,
             noted' = noted
      PROVE  TextsOK'
  BY <1>1, TextsStay DEF TextsOK
<1>2. ASSUME NEW yes \in BOOLEAN, ConfirmAnswered(f, yes) PROVE TextsOK'
  BY <1>1, <1>2 DEF ConfirmAnswered, bounds, SamePlan
<1>3. ASSUME PromptCancelled(f) \/ PromptAnsweredThis(f) \/ PromptAnsweredAll(f) PROVE TextsOK'
  BY <1>1, <1>3 DEF PromptCancelled, PromptAnsweredThis, PromptAnsweredAll, bounds, SamePlan
<1>4. ASSUME FilesDone(f) \/ FilesFail(f) PROVE TextsOK'
  BY <1>1, <1>4 DEF FilesDone, FilesFail, bounds, SamePlan
<1>5. ASSUME AllPrepared(f) \/ Prepared(f) PROVE TextsOK'
  <2>1. flows[f].element \in UndoElements
    BY WaitingFacts
  <2>2. CASE /\ SamePlan /\ modelVars' = modelVars /\ asked' = asked /\ before' = before
             /\ text' = text /\ noted' = noted
    BY <1>1, <2>2
  <2>3. CASE \E s, is, c, waiting : \E notes \in SUBSET {"disorder", "overtaken", "kept"} :
               Invoke(s, flows[f].element, is, c, waiting, notes)
    BY <2>1, <2>3, InvokeTexts
  <2>4. CASE AllPrepared(f)
    <3> DEFINE none == {}
    <3>1. none \in SUBSET {"disorder", "overtaken", "kept"}
      OBVIOUS
    <3>2. \/ /\ SamePlan /\ modelVars' = modelVars /\ asked' = asked /\ before' = before
             /\ text' = text /\ noted' = noted
          \/ \E s, is, c, waiting : Invoke(s, flows[f].element, is, c, waiting, none)
      BY <2>4 DEF AllPrepared, bounds, SamePlan
    <3> HIDE DEF none
    <3> QED BY <2>2, <2>3, <3>1, <3>2
  <2>5. CASE Prepared(f)
    <3> DEFINE notes == Note("overtaken", Overtaken(f))
    <3>1. notes \in SUBSET {"disorder", "overtaken", "kept"}
      BY DEF Note
    <3>2. \E s, is, c, waiting : Invoke(s, flows[f].element, is, c, waiting, notes)
      BY <2>5 DEF Prepared
    <3> HIDE DEF notes
    <3> QED BY <2>3, <3>1, <3>2
  <2> QED BY <1>5, <2>4, <2>5
<1> QED BY <1>2, <1>3, <1>4, <1>5

(***************************************************************************)
(* The theorems.                                                           *)
(***************************************************************************)
\* The inductive invariant.
UndoInv == StacksOK /\ TextsOK

\* It holds at first: there are no stacks.
LEMMA UndoInitInv == UndoInit => UndoInv
<1>1. SUFFICES ASSUME UndoInit PROVE UndoInv
  OBVIOUS
<1>2. plan \in Seq(PlannedEdits) /\ pushed = 0
  BY <1>1, PlansAreEdits DEF UndoInit
<1>3. PlanOK
  <2>1. Len(plan) \in Nat
    BY <1>2
  <2> QED BY <1>2, <2>1 DEF PlanOK
<1>4. UndoElements = {}
  BY <1>2 DEF UndoElements
<1>5. /\ service = [stacks |-> [r \in Resource |-> <<>>], editStacks |-> [r \in Resource |-> 0],
                    removed |-> {}, invalid |-> {}]
      /\ calls = <<>> /\ flows = <<>>
  BY <1>1 DEF UndoInit
<1>6. \A r \in Resource : service.stacks[r] = <<>> /\ service.editStacks[r] = 0
  BY <1>5
<1> DEFINE A == StackOver(UndoElements)
<1> HIDE DEF A
<1>7. IsService(service, pushed, UndoElements)
  <2> DEFINE e == <<>>
  <2>1. e \in Seq(A) /\ Len(e) = 0
    OBVIOUS
  <2> DEFINE stacks == [r \in Resource |-> e]
  <2> DEFINE none == {}
  <2> DEFINE zeros == [r \in Resource |-> 0]
  <2>2. stacks \in [Resource -> Seq(A)] /\ \A r \in Resource : stacks[r] = e
    <3> HIDE DEF e
    <3> QED BY <2>1
  <2>3. zeros \in [Resource -> Nat] /\ \A r \in Resource : zeros[r] = 0
    OBVIOUS
  <2>4. none \in SUBSET ((1 .. pushed) \X Resource) /\ none \in SUBSET (UndoElements \X Resource)
    OBVIOUS
  <2>5. service = [stacks |-> stacks, editStacks |-> zeros, removed |-> none, invalid |-> none]
    BY <1>5
  <2> HIDE DEF e, stacks, none, zeros
  <2>6. service \in [stacks : [Resource -> Seq(A)], editStacks : [Resource -> Nat],
                     removed : SUBSET ((1 .. pushed) \X Resource),
                     invalid : SUBSET (UndoElements \X Resource)]
        /\ service.stacks = stacks /\ service.editStacks = zeros
    BY <2>2, <2>3, <2>4, <2>5
  <2>7. \A r \in Resource : service.editStacks[r] <= Len(service.stacks[r])
    BY <2>1, <2>2, <2>3, <2>6
  <2> QED BY <2>6, <2>7 DEF IsService, A
<1>8. /\ DOMAIN flows = {} /\ Len(flows) = 0
  BY <1>5
<1>9. FlowsOK(flows, calls, UndoElements)
  <2> DEFINE F == FlowSet(UndoElements)
  <2> HIDE DEF F
  <2>1. flows \in Seq(F)
    BY <1>5
  <2>2. Len(flows) <= MaxFlows
    BY <1>8, UndoBounds
  <2> QED BY <1>5, <2>1, <2>2 DEF FlowsOK, CallsOK, F
<1>10. Core(service, flows)
  <2>1. \A r \in Resource : \A k \in 1 .. Len(service.stacks[r]) : FALSE
    BY <1>6
  <2>2. \A r \in Resource : \A side \in Sides : StackOf(service, r)[side] = <<>>
    BY <1>6 DEF StackOf, StackId, Stack, Missing, Sides
  <2>3. \A r \in Resource :
          ToSet(StackOf(service, r).past) = {} /\ ToSet(StackOf(service, r).future) = {}
    BY <2>2 DEF Sides, ToSet
  <2>4. Tidy(service)
    <3>1. SUFFICES ASSUME NEW w, NEW r \in Resource, NEW side \in Sides
                   PROVE  /\ w \notin ToSet(StackOf(service, r)[side])
                          /\ OnceIn(StackOf(service, r)[side], w)
                          /\ w \notin ToSet(StackOf(service, r).past)
      BY DEF Tidy, TidyFor, Sides
    <3> QED BY <2>2, <2>3 DEF OnceIn, ToSet
  <2> QED BY <1>8, <2>1, <2>4 DEF Core, HeldOnce, LocksOf
<1>11. StacksOK
  BY <1>3, <1>7, <1>9, <1>10 DEF StacksOK
<1>12. /\ asked = 0 /\ open = Edited /\ disposedModels = {} /\ linked = {} /\ before = <<>>
       /\ text = [m \in Model |-> <<>>] /\ noted = {}
  BY <1>1 DEF UndoInit
<1>13. text \in [Model -> Seq(0 .. pushed)]
  <2> DEFINE e == <<>>
  <2> DEFINE B == 0 .. pushed
  <2> HIDE DEF B
  <2>1. e \in Seq(B) /\ text = [m \in Model |-> e]
    BY <1>12
  <2> HIDE DEF e
  <2> QED BY <2>1 DEF B
<1>14. \E S : before \in Seq(S) /\ Len(before) = pushed
  <2>1. before \in Seq({}) /\ Len(before) = pushed
    BY <1>2, <1>12
  <2> QED BY <2>1
<1>15. asked \in 0 .. MaxAsked
  BY <1>12, UndoBounds
<1>16. TextsOK
  BY <1>12, <1>13, <1>14, <1>15 DEF TextsOK
<1> QED BY <1>11, <1>16 DEF UndoInv

\* It holds when nothing happens.
LEMMA UndoInvStutters == UndoInv /\ UNCHANGED undoVars => UndoInv'
<1>1. SUFFICES ASSUME UndoInv, UNCHANGED undoVars PROVE UndoInv'
  OBVIOUS
<1>2. /\ SamePlan /\ service' = service /\ flows' = flows /\ calls' = calls
      /\ modelVars' = modelVars /\ asked' = asked /\ before' = before /\ text' = text
      /\ noted' = noted
  BY <1>1 DEF undoVars, bounds, SamePlan
<1>3. StacksOK'
  BY <1>1, <1>2, StacksStep DEF UndoInv, StacksOK
<1>4. TextsOK'
  BY <1>1, <1>2, TextsStay DEF UndoInv, TextsOK
<1> QED BY <1>3, <1>4 DEF UndoInv

\* It holds after every action.
LEMMA UndoInvKept == UndoInv /\ UndoNext => UndoInv'
<1>1. SUFFICES ASSUME StacksOK, TextsOK, UndoNext PROVE StacksOK' /\ TextsOK'
  BY DEF UndoInv
<1>2. CASE Push
  BY <1>1, <1>2, PushStacks, PushTexts
<1>3. ASSUME NEW m \in Model,
             \/ SetValue(m)
             \/ \E evicted \in SUBSET Model : CloseMaintained(m, evicted)
             \/ CloseDropped(m)
             \/ Reopen(m) \/ ReopenOther(m)
      PROVE  StacksOK' /\ TextsOK'
  BY <1>1, <1>3, ModelStacks, ModelTexts
<1>4. ASSUME NEW side \in {"past", "future"},
             AskSource(side, 1) \/ \E m \in Model : Ask(side, m)
      PROVE  StacksOK' /\ TextsOK'
  BY <1>1, <1>4, AskStacks, AskTexts DEF Sides
<1>5. CASE CallNothing \/ CallInGroup \/ CallConfirm \/ CallResourceInvalid
  BY <1>1, <1>5, CallStacks, CallTexts
<1>6. CASE CallResource \/ CallWorkspace
  BY <1>1, <1>6, CallResourceStacks, CallWorkspaceStacks, CallTexts
<1>7. ASSUME NEW f \in DOMAIN flows,
             \/ \E yes \in BOOLEAN : ConfirmAnswered(f, yes)
             \/ PromptCancelled(f) \/ PromptAnsweredThis(f)
      PROVE  StacksOK' /\ TextsOK'
  BY <1>1, <1>7, AnswerStacks, FlowTexts
<1>8. ASSUME NEW f \in DOMAIN flows, PromptAnsweredAll(f) PROVE StacksOK' /\ TextsOK'
  BY <1>1, <1>8, PromptAnsweredAllStacks, FlowTexts
<1>9. ASSUME NEW f \in DOMAIN flows, AllPrepared(f) \/ Prepared(f) PROVE StacksOK' /\ TextsOK'
  BY <1>1, <1>9, AllPreparedStacks, PreparedStacks, FlowTexts
<1>10. ASSUME NEW f \in DOMAIN flows, FilesDone(f) \/ FilesFail(f) PROVE StacksOK' /\ TextsOK'
  BY <1>1, <1>10, FilesStacks, FlowTexts
<1> QED BY <1>1, <1>2, <1>3, <1>4, <1>5, <1>6, <1>7, <1>8, <1>9, <1>10 DEF UndoNext

\* For any plan of edits and any bounds, the inductive invariant holds.
THEOREM UndoInvariant == UndoSpec => []UndoInv
<1>1. UndoInit => UndoInv
  BY UndoInitInv
<1>2. UndoInv /\ [UndoNext]_undoVars => UndoInv'
  BY UndoInvKept, UndoInvStutters
<1> QED BY <1>1, <1>2, PTL DEF UndoSpec

\* The types are part of it.
LEMMA TypesFollow == UndoInv => UndoTypeOK
<1>1. SUFFICES ASSUME StacksOK, TextsOK PROVE UndoTypeOK
  BY DEF UndoInv
<1>2. /\ pushed \in 0 .. Len(plan) /\ pushed \in Nat
      /\ flows \in Seq(FlowSet(UndoElements)) /\ Len(flows) <= MaxFlows /\ CallsOK(calls)
      /\ IsService(service, pushed, UndoElements)
  BY <1>1 DEF StacksOK, FlowsOK, PlanOK
<1>3. /\ service.stacks \in [Resource -> Seq(StackOver(UndoElements))]
      /\ service.editStacks \in [Resource -> Nat]
      /\ \A r \in Resource : service.editStacks[r] <= Len(service.stacks[r])
      /\ service.removed \subseteq (1 .. pushed) \X Resource
      /\ service.invalid \subseteq UndoElements \X Resource
  BY <1>2 DEF IsService
<1>4. ASSUME NEW f \in DOMAIN flows
      PROVE  /\ flows[f].call \in CallSet /\ flows[f].element \in UndoElements
             /\ Stacks(flows[f]) \subseteq Resource \X Nat
  <2>1. flows[f] \in FlowSet(UndoElements)
    BY <1>2
  <2> QED BY <2>1, FlowFields
<1>5. ASSUME NEW c \in ToSet(calls) PROVE c \in CallSet
  BY <1>2 DEF CallsOK, ToSet
<1>6. DOMAIN before = 1 .. pushed
  BY <1>1 DEF TextsOK
<1>7. \A c \in ToSet(calls) \cup {flows[f].call : f \in DOMAIN flows} :
         c \in [side : {"past", "future"}, resource : Resource, source : Nat,
                confirmed : BOOLEAN]
  BY <1>4, <1>5 DEF CallSet, Sides
<1>8. /\ asked \in 0..MaxAsked /\ disposedModels \subseteq Edited \ open /\ open \subseteq Edited
      /\ linked \subseteq (1..pushed) \X Edited /\ text \in [Model -> Seq(0..pushed)]
      /\ noted \subseteq {"disorder", "overtaken", "kept"}
  BY <1>1 DEF TextsOK
<1> QED BY <1>2, <1>3, <1>4, <1>6, <1>7, <1>8, Zenon DEF UndoTypeOK, StackOver

\* Every variable of the service has its type, for any models, plans and bounds.
THEOREM UndoTypesCorrect == UndoSpec => []UndoTypeOK
BY UndoInvariant, TypesFollow, PTL

\* The stacks that are locked are exactly those that a running undo or redo of files holds:
\* _acquireLocks and its dispose, whatever fails or is pushed, split and closed in between.
THEOREM LocksAreHeldCorrect == UndoSpec => []LocksAreHeld
<1>1. UndoInv => LocksAreHeld
  <2>1. SUFFICES ASSUME UndoInv PROVE LocksAreHeld
    OBVIOUS
  <2>2. IsService(service, pushed, UndoElements) /\ pushed \in Nat /\ LocksOf(service, flows)
    BY <2>1 DEF UndoInv, StacksOK, Core, PlanOK
  <2>3. \A r \in Resource : DOMAIN service.stacks[r] = 1 .. Len(service.stacks[r])
    BY <2>2, StackTypes
  <2> QED BY <2>2, <2>3 DEF LocksAreHeld, LocksOf, IsRunning
<1> QED BY <1>1, UndoInvariant, PTL

\* An edit of several resources that was not split is never in the past of one of them and in
\* the future of another: what _checkWorkspaceUndo compares is enough, for any plan of edits.
THEOREM WholeMovesCorrect == UndoSpec => []WholeMoves
<1>1. UndoInv => WholeMoves
  BY DEF UndoInv, StacksOK, Core, Tidy, TidyFor, WholeMoves
<1> QED BY <1>1, UndoInvariant, PTL
=============================================================================
