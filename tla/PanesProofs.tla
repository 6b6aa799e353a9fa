----------------------------- MODULE PanesProofs -----------------------------
(***************************************************************************)
(* Proofs about Panes for any disk, any tabs restored, any cap of the       *)
(* history and any number of calls in flight.                               *)
(***************************************************************************)
EXTENDS Panes, TLAPS, FiniteSetTheorems, SequenceTheorems

\* Two tabs differ in their ids, whichever pane they are in.
IdsDiffer ==
  \A p, q \in PaneIds : \A i \in DOMAIN tabs[p], j \in DOMAIN tabs[q] :
    tabs[p][i].id = tabs[q][j].id => p = q /\ i = j

\* A walk goes on at each step.  Its length is why no stack is cut when it is
\* walked back and forth: only a step to a new folder may lose the oldest one.
Through(b, d, f) == b \o <<d>> \o Reverse(f)
Short(b, f) == Len(b) + Len(f) <= MaxHistory
GoesOn(w) == \A i \in 1 .. Len(w) - 1 : w[i] # w[i + 1]
IsWalk(t) == Short(t.back, t.forward) /\ GoesOn(Walk(t))

TabsInv ==
  /\ tabs \in [PaneIds -> Seq(TabType)] /\ index \in [PaneIds -> Nat]
  /\ \A p \in PaneIds : index[p] \in DOMAIN tabs[p]
  /\ IdsDiffer
  /\ \A p \in PaneIds : \A i \in DOMAIN tabs[p] : IsWalk(tabs[p][i])

\* The cursor and the selection are rows of the folder shown.
InView(p) == selection[p] \cup ({focus[p]} \ {Nowhere}) \subseteq Rows(Path(p))
CursorInv ==
  /\ selection \in [PaneIds -> SUBSET Seq(STRING)]
  /\ focus \in [PaneIds -> Seq(STRING)] /\ anchor \in [PaneIds -> Seq(STRING)]
  /\ active \in PaneIds /\ term \in [PaneIds -> BOOLEAN]
  /\ \A p \in PaneIds : InView(p)

CallsInv ==
  calls \subseteq CallType /\ IsFiniteSet(calls) /\ Cardinality(calls) <= MaxCalls

IInv == TabsInv /\ CursorInv /\ CallsInv

-----------------------------------------------------------------------------
(* Walks.                                                                    *)

\* A walk, step by step: what is to come is read from its end.
IsThrough(w, b, d, f) ==
  /\ w \in Seq(Dirs) /\ Len(w) = Len(b) + 1 + Len(f)
  /\ \A i \in 1 .. Len(b) : w[i] = b[i]
  /\ w[Len(b) + 1] = d
  /\ \A i \in 1 .. Len(f) : w[Len(b) + 1 + i] = f[Len(f) - i + 1]

LEMMA WalkAt ==
  ASSUME NEW b \in Seq(Dirs), NEW d \in Dirs, NEW f \in Seq(Dirs)
  PROVE  IsThrough(Through(b, d, f), b, d, f)
<1>1. PICK r : r = Reverse(f)
  OBVIOUS
<1>2. /\ r \in Seq(Dirs) /\ Len(r) = Len(f)
      /\ \A i \in 1 .. Len(f) : r[i] = f[Len(f) - i + 1]
  BY <1>1 DEF Reverse
<1>3. PICK v : v = b \o <<d>>
  OBVIOUS
<1>4. PICK w : w = v \o r
  OBVIOUS
<1>5. Through(b, d, f) = w
  BY <1>1, <1>3, <1>4 DEF Through
<1>6. <<d>> \in Seq(Dirs) /\ Len(<<d>>) = 1 /\ <<d>>[1] = d
  OBVIOUS
<1>7. /\ v \in Seq(Dirs) /\ Len(v) = Len(b) + 1
      /\ \A i \in 1 .. Len(b) : v[i] = b[i]
      /\ v[Len(b) + 1] = d
  BY <1>3, <1>6, ConcatProperties
<1>8. /\ w \in Seq(Dirs) /\ Len(w) = Len(v) + Len(r)
      /\ \A i \in 1 .. Len(v) + Len(r) : w[i] = IF i <= Len(v) THEN v[i] ELSE r[i - Len(v)]
  <2>1. v \in Seq(Dirs) /\ r \in Seq(Dirs)
    BY <1>2, <1>7
  <2> QED
    BY <2>1, <1>4, ConcatProperties
<1>9. Len(b) \in Nat /\ Len(f) \in Nat
  OBVIOUS
<1>10. \A i \in 1 .. Len(b) + 1 : w[i] = v[i]
  BY <1>7, <1>8, <1>9
<1>11. ASSUME NEW i \in 1 .. Len(f) PROVE w[Len(v) + i] = r[i]
  <2>1. /\ Len(v) + i \in 1 .. Len(v) + Len(r) /\ ~(Len(v) + i <= Len(v))
        /\ Len(v) + i - Len(v) = i
    BY <1>2, <1>7, <1>9
  <2> QED
    BY <2>1, <1>8
<1>12. IsThrough(w, b, d, f)
  BY <1>2, <1>7, <1>8, <1>9, <1>10, <1>11 DEF IsThrough
<1> QED
  BY <1>5, <1>12

\* The stack a step is pushed on keeps its end.
IsPushed(n, s, d) ==
  \E k \in {0, 1} :
    /\ Len(n) = Len(s) + 1 - k
    /\ \A i \in 1 .. Len(n) : n[i] = IF i + k <= Len(s) THEN s[i + k] ELSE d

LEMMA Pushed ==
  ASSUME NEW s \in Seq(Dirs), NEW d \in Dirs, Len(s) <= MaxHistory
  PROVE  /\ PushCapped(s, d) \in Seq(Dirs) /\ Len(PushCapped(s, d)) <= MaxHistory
         /\ Len(PushCapped(s, d)) > 0
         /\ IsPushed(PushCapped(s, d), s, d)
         /\ Len(s) < MaxHistory => PushCapped(s, d) = Append(s, d)
<1>1. PICK a : a = Append(s, d)
  OBVIOUS
<1>2. PICK n : n = PushCapped(s, d)
  OBVIOUS
<1>3. /\ a \in Seq(Dirs) /\ a # <<>> /\ Len(a) = Len(s) + 1
      /\ \A i \in 1 .. Len(s) : a[i] = s[i]
      /\ a[Len(s) + 1] = d
  BY <1>1, AppendProperties
<1>4. Len(s) \in Nat /\ MaxHistory \in Nat \ {0}
  BY PanesAssumption
<1>5. n = IF Len(a) > MaxHistory THEN Tail(a) ELSE a
  BY <1>1, <1>2 DEF PushCapped
<1>6. CASE Len(a) > MaxHistory
  <2>1. n = Tail(a) /\ Len(s) = MaxHistory
    BY <1>3, <1>4, <1>5, <1>6
  <2>2. /\ n \in Seq(Dirs) /\ Len(n) = Len(s)
        /\ \A i \in 1 .. Len(n) : n[i] = a[i + 1]
    BY <2>1, <1>3, <1>4, HeadTailProperties
  <2>3. \A i \in 1 .. Len(n) : n[i] = IF i + 1 <= Len(s) THEN s[i + 1] ELSE d
    BY <2>2, <1>3, <1>4
  <2>4. IsPushed(n, s, d)
    BY <2>2, <2>3, <1>4 DEF IsPushed
  <2>5. n \in Seq(Dirs) /\ Len(n) <= MaxHistory /\ Len(n) > 0 /\ ~(Len(s) < MaxHistory)
    BY <2>1, <2>2, <1>4
  <2> QED
    BY <2>4, <2>5, <1>2
<1>7. CASE ~(Len(a) > MaxHistory)
  <2>1. n = a
    BY <1>5, <1>7
  <2>2. \A i \in 1 .. Len(n) : n[i] = IF i + 0 <= Len(s) THEN s[i + 0] ELSE d
    BY <2>1, <1>3, <1>4
  <2>3. IsPushed(n, s, d)
    BY <2>1, <2>2, <1>3, <1>4 DEF IsPushed
  <2>4. n \in Seq(Dirs) /\ Len(n) <= MaxHistory /\ Len(n) > 0
    BY <2>1, <1>3, <1>4, <1>7
  <2> QED
    BY <2>1, <2>3, <2>4, <1>1, <1>2
<1> QED
  BY <1>6, <1>7

\* A step to another folder goes on from the one it leaves.
LEMMA GoingOn ==
  ASSUME NEW b \in Seq(Dirs), NEW p \in Dirs, NEW f \in Seq(Dirs), NEW d \in Dirs, d # p,
         Len(b) <= MaxHistory, GoesOn(Through(b, p, f))
  PROVE  GoesOn(Through(PushCapped(b, p), d, <<>>))
<1>1. PICK n : n = PushCapped(b, p)
  OBVIOUS
<1>2. PICK w : w = Through(b, p, f)
  OBVIOUS
<1>3. PICK v : v = Through(n, d, <<>>)
  OBVIOUS
<1>4. n \in Seq(Dirs) /\ Len(n) > 0 /\ IsPushed(n, b, p)
  BY <1>1, Pushed
<1>5. Len(n) \in Nat /\ Len(b) \in Nat /\ Len(f) \in Nat
  BY <1>4
<1>6. PICK k \in {0, 1} :
        /\ Len(n) = Len(b) + 1 - k
        /\ \A i \in 1 .. Len(n) : n[i] = IF i + k <= Len(b) THEN b[i + k] ELSE p
  BY <1>4 DEF IsPushed
<1>7. IsThrough(v, n, d, <<>>)
  <2>1. n \in Seq(Dirs) /\ <<>> \in Seq(Dirs)
    BY <1>4
  <2> QED
    BY <2>1, <1>3, WalkAt
<1>8. Len(v) = Len(n) + 1 /\ v[Len(n) + 1] = d /\ \A i \in 1 .. Len(n) : v[i] = n[i]
  BY <1>5, <1>7 DEF IsThrough
<1>9. IsThrough(w, b, p, f)
  BY <1>2, WalkAt
<1>10. /\ Len(w) = Len(b) + 1 + Len(f) /\ w[Len(b) + 1] = p
       /\ \A i \in 1 .. Len(b) : w[i] = b[i]
  BY <1>9 DEF IsThrough
<1>11. \A i \in 1 .. Len(n) : n[i] = w[i + k] /\ i + k \in 1 .. Len(b) + 1
  BY <1>5, <1>6, <1>10
<1>12. \A i \in 1 .. Len(b) : w[i] # w[i + 1]
  BY <1>2, <1>5, <1>10 DEF GoesOn
<1>13. ASSUME NEW i \in 1 .. Len(n) PROVE v[i] # v[i + 1]
  <2>1. CASE i = Len(n)
    <3>1. n[i] = p
      BY <2>1, <1>5, <1>6
    <3> QED
      BY <2>1, <3>1, <1>8
  <2>2. CASE i < Len(n)
    <3>1. i + 1 \in 1 .. Len(n)
      BY <2>2, <1>5
    <3>2. v[i] = w[i + k] /\ v[i + 1] = w[i + 1 + k]
      BY <3>1, <1>8, <1>11
    <3>3. i + k \in 1 .. Len(b) /\ i + 1 + k = i + k + 1
      BY <2>2, <1>5, <1>6
    <3> QED
      BY <3>2, <3>3, <1>12
  <2> QED
    BY <2>1, <2>2, <1>5
<1>14. GoesOn(v)
  BY <1>5, <1>8, <1>13 DEF GoesOn
<1> QED
  BY <1>1, <1>3, <1>14

\* Back and forth, a walk stays the one it was.
LEMMA GoingBack ==
  ASSUME NEW b \in Seq(Dirs), NEW p \in Dirs, NEW f \in Seq(Dirs), b # <<>>, Len(f) < MaxHistory
  PROVE  /\ Front(b) \in Seq(Dirs) /\ Last(b) \in Dirs /\ PushCapped(f, p) \in Seq(Dirs)
         /\ Through(Front(b), Last(b), PushCapped(f, p)) = Through(b, p, f)
         /\ Len(Front(b)) = Len(b) - 1 /\ Len(PushCapped(f, p)) = Len(f) + 1
<1>1. Len(b) \in Nat \ {0} /\ Len(f) \in Nat /\ MaxHistory \in Nat
  BY EmptySeq, PanesAssumption
<1>2. PICK c : c = Front(b)
  OBVIOUS
<1>3. Last(b) = b[Len(b)] /\ Last(b) \in Dirs
  BY <1>1 DEF Last
<1>4. PICK e \in Seq(Dirs), x \in Dirs : b = Append(e, x)
  BY SequenceEmptyOrAppend
<1>5. c \in Seq(Dirs) /\ Len(c) = Len(b) - 1 /\ \A i \in 1 .. Len(c) : c[i] = b[i]
  <2>1. Len(b) = Len(e) + 1 /\ Len(e) \in Nat /\ \A i \in 1 .. Len(e) : b[i] = e[i]
    BY <1>4, AppendProperties
  <2>2. c = e
    BY <2>1, <1>2, <1>4 DEF Front
  <2> QED
    BY <2>1, <2>2
<1>6. PICK g : g = PushCapped(f, p)
  OBVIOUS
<1>7. g = Append(f, p)
  <2>1. Len(f) <= MaxHistory
    BY <1>1
  <2> QED
    BY <2>1, <1>6, Pushed
<1>8. /\ g \in Seq(Dirs) /\ Len(g) = Len(f) + 1 /\ g[Len(f) + 1] = p
      /\ \A i \in 1 .. Len(f) : g[i] = f[i]
  BY <1>7, AppendProperties
<1>9. PICK v : v = Through(c, Last(b), g)
  OBVIOUS
<1>10. PICK w : w = Through(b, p, f)
  OBVIOUS
<1>11. IsThrough(v, c, Last(b), g)
  BY <1>3, <1>5, <1>8, <1>9, WalkAt
<1>12. v \in Seq(Dirs) /\ Len(v) = Len(b) + Len(f) + 1
  BY <1>1, <1>5, <1>8, <1>11 DEF IsThrough
<1>13. (\A i \in 1 .. Len(b) - 1 : v[i] = b[i]) /\ v[Len(b)] = b[Len(b)]
  BY <1>1, <1>3, <1>5, <1>11 DEF IsThrough
<1>14. \A i \in 1 .. Len(f) + 1 : v[Len(b) + i] = g[Len(f) + 1 - i + 1]
  BY <1>1, <1>5, <1>8, <1>11 DEF IsThrough
<1>15. IsThrough(w, b, p, f)
  BY <1>10, WalkAt
<1>16. /\ w \in Seq(Dirs) /\ Len(w) = Len(b) + 1 + Len(f)
       /\ \A i \in 1 .. Len(b) : w[i] = b[i]
       /\ w[Len(b) + 1] = p
  BY <1>15 DEF IsThrough
<1>17. \A i \in 1 .. Len(f) : w[Len(b) + 1 + i] = f[Len(f) - i + 1]
  BY <1>15 DEF IsThrough
<1>18. ASSUME NEW i \in 1 .. Len(v) PROVE v[i] = w[i]
  <2>1. CASE i <= Len(b)
    BY <2>1, <1>1, <1>13, <1>16
  <2>2. CASE i = Len(b) + 1
    <3>1. v[Len(b) + 1] = g[Len(f) + 1]
      BY <1>1, <1>14
    <3> QED
      BY <2>2, <3>1, <1>8, <1>16
  <2>3. CASE i > Len(b) + 1
    <3>1. PICK j \in 1 .. Len(f) : i = Len(b) + 1 + j
      <4>1. i - Len(b) - 1 \in 1 .. Len(f) /\ i = Len(b) + 1 + (i - Len(b) - 1)
        BY <2>3, <1>1, <1>12
      <4> QED
        BY <4>1
    <3>2. w[i] = f[Len(f) - j + 1]
      BY <3>1, <1>17
    <3>3. j + 1 \in 1 .. Len(f) + 1 /\ Len(b) + (j + 1) = i
      BY <3>1, <1>1
    <3>4. v[i] = g[Len(f) + 1 - (j + 1) + 1]
      BY <3>3, <1>14
    <3>5. Len(f) + 1 - (j + 1) + 1 = Len(f) - j + 1 /\ Len(f) - j + 1 \in 1 .. Len(f)
      BY <1>1
    <3> QED
      BY <3>2, <3>4, <3>5, <1>8
  <2> QED
    BY <2>1, <2>2, <2>3, <1>1, <1>12
<1>19. v = w
  BY <1>1, <1>12, <1>16, <1>18, SeqEqual
<1> QED
  BY <1>2, <1>3, <1>5, <1>6, <1>8, <1>9, <1>10, <1>19

-----------------------------------------------------------------------------
(* A step of a tab.                                                          *)

\* What a step may make of a tab: a walk that is the one it was, or goes on.
Moves(t, u) ==
  /\ u \in TabType /\ u.id = t.id /\ IsWalk(u)
  /\ Walk(u) = Walk(t) \/ Extends(t, u)

LEMMA TabFields ==
  ASSUME NEW t \in TabType
  PROVE  /\ t.id \in TabIds /\ t.path \in Dirs
         /\ t.back \in Seq(Dirs) /\ t.forward \in Seq(Dirs)
         /\ Walk(t) = Through(t.back, t.path, t.forward)
BY DEF TabType, Walk, Through

\* A tab with another path and other stacks.
With(t, d, b, f) == [t EXCEPT !.path = d, !.back = b, !.forward = f]
LEMMA TabWith ==
  ASSUME NEW t \in TabType, NEW d \in Dirs, NEW b \in Seq(Dirs), NEW f \in Seq(Dirs),
         Short(b, f), GoesOn(Through(b, d, f))
  PROVE  /\ With(t, d, b, f) \in TabType /\ With(t, d, b, f).id = t.id
         /\ With(t, d, b, f).path = d /\ With(t, d, b, f).back = b
         /\ With(t, d, b, f).forward = f
         /\ Walk(With(t, d, b, f)) = Through(b, d, f) /\ IsWalk(With(t, d, b, f))
BY DEF With, TabType, Walk, Through, IsWalk

LEMMA Going ==
  ASSUME NEW t \in TabType, IsWalk(t), NEW d \in Dirs, d # t.path
  PROVE  Moves(t, GoesTo(t, d)) /\ GoesTo(t, d).path = d
<1>1. PICK b, p, f : b = t.back /\ p = t.path /\ f = t.forward
  OBVIOUS
<1>2. /\ b \in Seq(Dirs) /\ p \in Dirs /\ f \in Seq(Dirs) /\ d # p
      /\ Short(b, f) /\ GoesOn(Through(b, p, f))
  BY <1>1, TabFields DEF IsWalk
<1>3. Len(b) <= MaxHistory /\ Len(<<>>) = 0 /\ MaxHistory \in Nat
  BY <1>2, PanesAssumption DEF Short
<1>4. PICK n : n = PushCapped(b, p)
  OBVIOUS
<1>5. n \in Seq(Dirs) /\ Len(n) <= MaxHistory
  BY <1>2, <1>3, <1>4, Pushed
<1>6. GoesOn(Through(n, d, <<>>))
  BY <1>2, <1>3, <1>4, GoingOn
<1>7. Short(n, <<>>) /\ <<>> \in Seq(Dirs)
  BY <1>3, <1>5 DEF Short
<1>8. PICK u : u = With(t, d, n, <<>>)
  OBVIOUS
<1>9. /\ u \in TabType /\ u.id = t.id /\ u.path = d /\ u.back = n /\ u.forward = <<>>
      /\ Walk(u) = Through(n, d, <<>>) /\ IsWalk(u)
  <2>1. PICK z \in Seq(Dirs) : z = <<>>
    BY <1>7
  <2>2. u = With(t, d, n, z) /\ Short(n, z) /\ GoesOn(Through(n, d, z))
    BY <2>1, <1>6, <1>7, <1>8
  <2>3. /\ u \in TabType /\ u.id = t.id /\ u.path = d /\ u.back = n /\ u.forward = z
        /\ Walk(u) = Through(n, d, z) /\ IsWalk(u)
    BY <2>2, <1>5, TabWith
  <2> QED
    BY <2>1, <2>3
<1>10. GoesTo(t, d) = u
  BY <1>1, <1>4, <1>8 DEF GoesTo, With
<1>11. Walk(u) = PushCapped(t.back, t.path) \o <<u.path>>
  <2>1. Reverse(<<>>) = <<>>
    BY DEF Reverse
  <2>2. n \o <<d>> \in Seq(Dirs)
    BY <1>5
  <2>3. (n \o <<d>>) \o <<>> = n \o <<d>>
    BY <2>2, ConcatEmptySeq
  <2> QED
    BY <2>1, <2>3, <1>1, <1>4, <1>9 DEF Through
<1> QED
  BY <1>9, <1>10, <1>11 DEF Moves, Extends

\* A stack that gives room is shorter than the cap.
LEMMA Room ==
  ASSUME NEW s \in Seq(Dirs), NEW r \in Seq(Dirs), s # <<>>, Len(s) + Len(r) <= MaxHistory
  PROVE  Len(r) < MaxHistory
<1>1. Len(s) \in Nat \ {0} /\ Len(r) \in Nat /\ MaxHistory \in Nat
  BY EmptySeq, PanesAssumption
<1> QED
  BY <1>1

LEMMA Backing ==
  ASSUME NEW t \in TabType, IsWalk(t), t.back # <<>>
  PROVE  Moves(t, GoesBack(t)) /\ GoesBack(t).path = Last(t.back)
<1>1. PICK b, p, f : b = t.back /\ p = t.path /\ f = t.forward
  OBVIOUS
<1>2. /\ b \in Seq(Dirs) /\ p \in Dirs /\ f \in Seq(Dirs) /\ b # <<>>
      /\ Short(b, f) /\ GoesOn(Through(b, p, f)) /\ Walk(t) = Through(b, p, f)
  BY <1>1, TabFields DEF IsWalk
<1>3. Len(f) < MaxHistory
  BY <1>2, Room DEF Short
<1>4. PICK c, d, g : c = Front(b) /\ d = Last(b) /\ g = PushCapped(f, p)
  OBVIOUS
<1>5. /\ c \in Seq(Dirs) /\ d \in Dirs /\ g \in Seq(Dirs)
      /\ Through(c, d, g) = Through(b, p, f)
      /\ Len(c) = Len(b) - 1 /\ Len(g) = Len(f) + 1
  BY <1>2, <1>3, <1>4, GoingBack
<1>6. Short(c, g)
  <2>1. Len(b) \in Nat /\ Len(f) \in Nat
    BY <1>2
  <2> QED
    BY <2>1, <1>2, <1>5 DEF Short
<1>7. PICK u : u = With(t, d, c, g)
  OBVIOUS
<1>8. /\ u \in TabType /\ u.id = t.id /\ u.path = d
      /\ Walk(u) = Through(c, d, g) /\ IsWalk(u)
  BY <1>2, <1>5, <1>6, <1>7, TabWith
<1>9. GoesBack(t) = u
  BY <1>1, <1>4, <1>7 DEF GoesBack, With
<1> QED
  BY <1>1, <1>2, <1>4, <1>5, <1>8, <1>9 DEF Moves

LEMMA Forwarding ==
  ASSUME NEW t \in TabType, IsWalk(t), t.forward # <<>>
  PROVE  Moves(t, GoesForward(t)) /\ GoesForward(t).path = Last(t.forward)
<1>1. PICK b, p, f : b = t.back /\ p = t.path /\ f = t.forward
  OBVIOUS
<1>2. /\ b \in Seq(Dirs) /\ p \in Dirs /\ f \in Seq(Dirs) /\ f # <<>>
      /\ Short(b, f) /\ GoesOn(Through(b, p, f)) /\ Walk(t) = Through(b, p, f)
  BY <1>1, TabFields DEF IsWalk
<1>3. Len(b) \in Nat /\ Len(f) \in Nat /\ Len(b) < MaxHistory
  <2>1. Len(b) \in Nat /\ Len(f) \in Nat
    BY <1>2
  <2>2. Len(f) + Len(b) <= MaxHistory
    BY <2>1, <1>2 DEF Short
  <2> QED
    BY <2>1, <2>2, <1>2, Room
<1>4. PICK c, d, g : c = PushCapped(b, p) /\ d = Last(f) /\ g = Front(f)
  OBVIOUS
<1>5. c \in Seq(Dirs) /\ Len(c) = Len(b) + 1 /\ c # <<>> /\ Front(c) = b /\ Last(c) = p
  <2>1. c = Append(b, p)
    <3>1. Len(b) <= MaxHistory
      BY <1>3, PanesAssumption
    <3> QED
      BY <3>1, <1>2, <1>3, <1>4, Pushed
  <2>2. /\ c \in Seq(Dirs) /\ c # <<>> /\ Len(c) = Len(b) + 1
        /\ \A i \in 1 .. Len(b) : c[i] = b[i]
        /\ c[Len(b) + 1] = p
    BY <2>1, <1>2, AppendProperties
  <2>3. Front(c) = b
    BY <2>1, <1>2, <1>3 DEF Front
  <2> QED
    BY <2>2, <2>3 DEF Last
<1>6. d \in Dirs /\ g \in Seq(Dirs) /\ Len(g) = Len(f) - 1 /\ f = Append(g, d)
  <2>1. PICK e \in Seq(Dirs), x \in Dirs : f = Append(e, x)
    BY <1>2, SequenceEmptyOrAppend
  <2>2. Len(f) = Len(e) + 1 /\ f[Len(f)] = x /\ Len(e) \in Nat
    BY <2>1, AppendProperties
  <2>3. d = x
    BY <2>2, <1>4 DEF Last
  <2>4. g = e
    BY <2>1, <2>2, <1>4 DEF Front
  <2> QED
    BY <2>1, <2>2, <2>3, <2>4
<1>7. Through(c, d, g) = Through(b, p, f)
  <2>1. Len(g) < MaxHistory /\ Len(g) <= MaxHistory
    BY <1>3, <1>6, <1>2, PanesAssumption DEF Short
  <2>2. PushCapped(g, d) = f
    BY <2>1, <1>6, Pushed
  <2>3. Through(Front(c), Last(c), PushCapped(g, d)) = Through(c, d, g)
    BY <2>1, <1>5, <1>6, GoingBack
  <2> QED
    BY <2>2, <2>3, <1>5
<1>8. Short(c, g)
  BY <1>2, <1>3, <1>5, <1>6 DEF Short
<1>9. PICK u : u = With(t, d, c, g)
  OBVIOUS
<1>10. /\ u \in TabType /\ u.id = t.id /\ u.path = d
       /\ Walk(u) = Through(c, d, g) /\ IsWalk(u)
  BY <1>2, <1>5, <1>6, <1>7, <1>8, <1>9, TabWith
<1>11. GoesForward(t) = u
  BY <1>1, <1>4, <1>9 DEF GoesForward, With
<1> QED
  BY <1>1, <1>2, <1>4, <1>7, <1>10, <1>11 DEF Moves

-----------------------------------------------------------------------------
(* The tabs of a pane.                                                       *)

\* A tab closed takes its place away, one added is given a place.
IsRemoved(r, s, i) ==
  /\ r \in Seq(TabType) /\ Len(r) = Len(s) - 1
  /\ \A j \in 1 .. Len(r) : r[j] = IF j < i THEN s[j] ELSE s[j + 1]
IsInserted(r, s, i, e) ==
  /\ r \in Seq(TabType) /\ Len(r) = Len(s) + 1
  /\ \A j \in 1 .. Len(r) : r[j] = IF j < i THEN s[j] ELSE IF j = i THEN e ELSE s[j - 1]

\* The parts of a list before and from a place on.
LEMMA Parts ==
  ASSUME NEW s \in Seq(TabType), NEW m \in Int, NEW n \in Int, m >= 1, n <= Len(s), n >= m - 1
  PROVE  /\ SubSeq(s, m, n) \in Seq(TabType) /\ Len(SubSeq(s, m, n)) = n - m + 1
         /\ \A i \in 1 .. n - m + 1 : SubSeq(s, m, n)[i] = s[m + i - 1]
<1>1. Len(s) \in Nat /\ \A i \in 1 .. Len(s) : s[i] \in TabType
  OBVIOUS
<1>2. \A i \in m .. n : s[i] \in TabType
  BY <1>1
<1>3. PICK v : v = SubSeq(s, m, n)
  OBVIOUS
<1>4. /\ v \in Seq(TabType) /\ Len(v) = (IF m <= n THEN n - m + 1 ELSE 0)
      /\ \A i \in 1 .. n - m + 1 : v[i] = s[m + i - 1]
  BY <1>2, <1>3, SubSeqProperties
<1>5. Len(v) = n - m + 1
  BY <1>4
<1> QED
  BY <1>3, <1>4, <1>5

LEMMA Removed ==
  ASSUME NEW s \in Seq(TabType), NEW i \in 1 .. Len(s)
  PROVE  IsRemoved(RemoveAt(s, i), s, i)
<1>1. PICK a, b, r : a = SubSeq(s, 1, i - 1) /\ b = SubSeq(s, i + 1, Len(s)) /\ r = a \o b
  OBVIOUS
<1>2. Len(s) \in Nat /\ i \in Nat /\ 1 <= i /\ i <= Len(s)
  OBVIOUS
<1>3. /\ a \in Seq(TabType) /\ Len(a) = i - 1
      /\ \A j \in 1 .. i - 1 : a[j] = s[j]
  <2>1. /\ a \in Seq(TabType) /\ Len(a) = i - 1 - 1 + 1
        /\ \A j \in 1 .. i - 1 - 1 + 1 : a[j] = s[1 + j - 1]
    BY <1>1, <1>2, Parts
  <2>2. i - 1 - 1 + 1 = i - 1 /\ \A j \in 1 .. i - 1 : 1 + j - 1 = j
    BY <1>2
  <2> QED
    BY <2>1, <2>2
<1>4. /\ b \in Seq(TabType) /\ Len(b) = Len(s) - i
      /\ \A j \in 1 .. Len(s) - i : b[j] = s[i + j]
  <2>1. /\ b \in Seq(TabType) /\ Len(b) = Len(s) - (i + 1) + 1
        /\ \A j \in 1 .. Len(s) - (i + 1) + 1 : b[j] = s[i + 1 + j - 1]
    BY <1>1, <1>2, Parts
  <2>2. Len(s) - (i + 1) + 1 = Len(s) - i /\ \A j \in 1 .. Len(s) - i : i + 1 + j - 1 = i + j
    BY <1>2
  <2> QED
    BY <2>1, <2>2
<1>5. /\ r \in Seq(TabType) /\ Len(r) = Len(a) + Len(b)
      /\ \A j \in 1 .. Len(a) + Len(b) : r[j] = IF j <= Len(a) THEN a[j] ELSE b[j - Len(a)]
  <2>1. a \in Seq(TabType) /\ b \in Seq(TabType)
    BY <1>3, <1>4
  <2> QED
    BY <2>1, <1>1, ConcatProperties
<1>6. Len(r) = Len(s) - 1
  BY <1>2, <1>3, <1>4, <1>5
<1>7. ASSUME NEW j \in 1 .. Len(r) PROVE r[j] = IF j < i THEN s[j] ELSE s[j + 1]
  <2>1. CASE j < i
    BY <2>1, <1>2, <1>3, <1>5, <1>6
  <2>2. CASE ~(j < i)
    <3>1. r[j] = b[j - Len(a)] /\ j - Len(a) \in 1 .. Len(s) - i /\ i + (j - Len(a)) = j + 1
      BY <2>2, <1>2, <1>3, <1>4, <1>5, <1>6
    <3> QED
      BY <2>2, <3>1, <1>4
  <2> QED
    BY <2>1, <2>2
<1>8. RemoveAt(s, i) = r
  BY <1>1 DEF RemoveAt
<1> QED
  BY <1>5, <1>6, <1>7, <1>8 DEF IsRemoved

LEMMA Inserted ==
  ASSUME NEW s \in Seq(TabType), NEW i \in 1 .. Len(s) + 1, NEW e \in TabType
  PROVE  IsInserted(InsertAt(s, i, e), s, i, e)
<1>1. PICK a, b, c, r : /\ a = SubSeq(s, 1, i - 1) /\ b = SubSeq(s, i, Len(s))
                        /\ c = a \o <<e>> /\ r = c \o b
  OBVIOUS
<1>2. Len(s) \in Nat /\ i \in Nat /\ 1 <= i /\ i <= Len(s) + 1
  OBVIOUS
<1>3. /\ a \in Seq(TabType) /\ Len(a) = i - 1
      /\ \A j \in 1 .. i - 1 : a[j] = s[j]
  <2>1. /\ a \in Seq(TabType) /\ Len(a) = i - 1 - 1 + 1
        /\ \A j \in 1 .. i - 1 - 1 + 1 : a[j] = s[1 + j - 1]
    BY <1>1, <1>2, Parts
  <2>2. i - 1 - 1 + 1 = i - 1 /\ \A j \in 1 .. i - 1 : 1 + j - 1 = j
    BY <1>2
  <2> QED
    BY <2>1, <2>2
<1>4. /\ b \in Seq(TabType) /\ Len(b) = Len(s) - i + 1
      /\ \A j \in 1 .. Len(s) - i + 1 : b[j] = s[i + j - 1]
  BY <1>1, <1>2, Parts
<1>5. /\ c \in Seq(TabType) /\ Len(c) = i /\ c[i] = e
      /\ \A j \in 1 .. i - 1 : c[j] = a[j]
  <2>1. <<e>> \in Seq(TabType) /\ Len(<<e>>) = 1 /\ <<e>>[1] = e
    OBVIOUS
  <2>2. a \in Seq(TabType)
    BY <1>3
  <2> QED
    BY <2>1, <2>2, <1>1, <1>2, <1>3, ConcatProperties
<1>6. /\ r \in Seq(TabType) /\ Len(r) = Len(c) + Len(b)
      /\ \A j \in 1 .. Len(c) + Len(b) : r[j] = IF j <= Len(c) THEN c[j] ELSE b[j - Len(c)]
  <2>1. c \in Seq(TabType) /\ b \in Seq(TabType)
    BY <1>4, <1>5
  <2>2. r = c \o b
    BY <1>1
  <2> QED
    BY <2>1, <2>2, ConcatProperties
<1>7. Len(r) = Len(s) + 1
  BY <1>2, <1>4, <1>5, <1>6
<1>8. ASSUME NEW j \in 1 .. Len(r)
      PROVE  r[j] = IF j < i THEN s[j] ELSE IF j = i THEN e ELSE s[j - 1]
  <2>1. CASE j < i
    BY <2>1, <1>2, <1>3, <1>5, <1>6, <1>7
  <2>2. CASE j = i
    BY <2>2, <1>2, <1>5, <1>6, <1>7
  <2>3. CASE j > i
    <3>1. r[j] = b[j - i] /\ j - i \in 1 .. Len(s) - i + 1 /\ i + (j - i) - 1 = j - 1
      BY <2>3, <1>2, <1>4, <1>5, <1>6, <1>7
    <3>2. b[j - i] = s[j - 1]
      BY <3>1, <1>4
    <3> QED
      BY <2>3, <3>1, <3>2, <1>2
  <2> QED
    BY <2>1, <2>2, <2>3, <1>2, <1>7
<1>9. InsertAt(s, i, e) = r
  BY <1>1 DEF InsertAt
<1> QED
  BY <1>6, <1>7, <1>8, <1>9 DEF IsInserted

\* The ids of a list of tabs are no more than the tabs.
IdsOf(s) == {s[i].id : i \in 1 .. Len(s)}
LEMMA IdsBound ==
  ASSUME NEW s \in Seq(TabType)
  PROVE  IsFiniteSet(IdsOf(s)) /\ Cardinality(IdsOf(s)) \in Nat /\ Cardinality(IdsOf(s)) <= Len(s)
<1>1. PICK n \in Nat : n = Len(s)
  OBVIOUS
<1>2. PICK f : f = [i \in 1 .. n |-> s[i].id]
  OBVIOUS
<1>3. f \in Surjection(1 .. n, IdsOf(s))
  BY <1>1, <1>2 DEF Surjection, IdsOf
<1>4. IsFiniteSet(1 .. n) /\ Cardinality(1 .. n) = n
  BY FS_Interval
<1>5. IsFiniteSet(IdsOf(s)) /\ Cardinality(IdsOf(s)) <= n
  BY <1>3, <1>4, FS_Surjection
<1> QED
  BY <1>1, <1>5, FS_CardinalityType

\* There is an id left for one tab more.
LEMMA FreshId ==
  ASSUME TabsInv, RoomForTab
  PROVE  \E t \in TabIds : \A p \in PaneIds : \A i \in DOMAIN tabs[p] : tabs[p][i].id # t
<1>1. PICK l, r : l = tabs["left"] /\ r = tabs["right"]
  OBVIOUS
<1>2. l \in Seq(TabType) /\ r \in Seq(TabType)
  BY <1>1 DEF TabsInv, PaneIds
<1>3. PICK m, n \in Nat : m = Len(l) /\ n = Len(r)
  BY <1>2
<1>4. DOMAIN l = 1 .. Len(l) /\ DOMAIN r = 1 .. Len(r)
  BY <1>2
<1>5. m + n < Cardinality(TabIds) /\ Cardinality(TabIds) \in Nat
  BY <1>1, <1>3, PanesAssumption, FS_CardinalityType DEF RoomForTab
<1>6. PICK x, y : x = IdsOf(l) /\ y = IdsOf(r)
  OBVIOUS
<1>7. /\ IsFiniteSet(x) /\ Cardinality(x) \in Nat /\ Cardinality(x) <= m
      /\ IsFiniteSet(y) /\ Cardinality(y) \in Nat /\ Cardinality(y) <= n
  BY <1>2, <1>3, <1>6, IdsBound
<1>8. IsFiniteSet(x \cup y) /\ Cardinality(x \cup y) <= m + n /\ Cardinality(x \cup y) \in Nat
  <2>1. /\ IsFiniteSet(x \cup y)
        /\ Cardinality(x \cup y) = Cardinality(x) + Cardinality(y) - Cardinality(x \cap y)
    BY <1>7, FS_Union
  <2>2. IsFiniteSet(x \cap y) /\ Cardinality(x \cap y) \in Nat
    <3>1. x \cap y \subseteq x
      OBVIOUS
    <3> QED
      BY <3>1, <1>7, FS_Subset, FS_CardinalityType
  <2> QED
    BY <2>1, <2>2, <1>7, FS_CardinalityType
<1>9. ~(TabIds \subseteq x \cup y)
  <2>1. SUFFICES ASSUME TabIds \subseteq x \cup y PROVE FALSE
    OBVIOUS
  <2>2. Cardinality(TabIds) <= Cardinality(x \cup y)
    BY <2>1, <1>8, FS_Subset
  <2> QED
    BY <2>2, <1>5, <1>8
<1>10. PICK t \in TabIds : t \notin x \cup y
  BY <1>9
<1>11. (\A i \in 1 .. Len(l) : l[i].id # t) /\ (\A i \in 1 .. Len(r) : r[i].id # t)
  BY <1>6, <1>10 DEF IdsOf
<1> QED
  BY <1>1, <1>4, <1>11 DEF PaneIds

-----------------------------------------------------------------------------
(* What a step may do to the tabs.                                           *)

Follows(t, u) == Walk(u) = Walk(t) \/ Extends(t, u)
Keeps ==
  \A p, q \in PaneIds : \A i \in DOMAIN tabs[p], j \in DOMAIN tabs'[q] :
    tabs[p][i].id = tabs'[q][j].id => Follows(tabs[p][i], tabs'[q][j])

\* Every tab is an old one, maybe moved, or a new one with an id of its own.
Comes(u) ==
  \/ \E p \in PaneIds : \E i \in DOMAIN tabs[p] : u = tabs[p][i] \/ Moves(tabs[p][i], u)
  \/ IsWalk(u) /\ \A p \in PaneIds : \A i \in DOMAIN tabs[p] : tabs[p][i].id # u.id

LEMMA Coming ==
  ASSUME TabsInv, \A q \in PaneIds : \A j \in DOMAIN tabs'[q] : Comes(tabs'[q][j])
  PROVE  Keeps /\ \A q \in PaneIds : \A j \in DOMAIN tabs'[q] : IsWalk(tabs'[q][j])
<1>1. \A p, q \in PaneIds : \A i \in DOMAIN tabs[p], j \in DOMAIN tabs[q] :
        tabs[p][i].id = tabs[q][j].id => p = q /\ i = j
  BY DEF TabsInv, IdsDiffer
<1>2. \A p \in PaneIds : \A i \in DOMAIN tabs[p] : IsWalk(tabs[p][i])
  BY DEF TabsInv
<1>3. ASSUME NEW p \in PaneIds, NEW q \in PaneIds, NEW i \in DOMAIN tabs[p],
             NEW j \in DOMAIN tabs'[q], tabs[p][i].id = tabs'[q][j].id
      PROVE  Follows(tabs[p][i], tabs'[q][j])
  <2>1. PICK u : u = tabs'[q][j]
    OBVIOUS
  <2>2. PICK o \in PaneIds : \E k \in DOMAIN tabs[o] : u = tabs[o][k] \/ Moves(tabs[o][k], u)
    BY <1>3, <2>1 DEF Comes
  <2>3. PICK k \in DOMAIN tabs[o] : u = tabs[o][k] \/ Moves(tabs[o][k], u)
    BY <2>2
  <2>4. tabs[o][k].id = tabs[p][i].id
    BY <1>3, <2>1, <2>3 DEF Moves
  <2>5. tabs[o][k] = tabs[p][i]
    BY <2>4, <1>1
  <2> QED
    BY <2>1, <2>3, <2>5 DEF Follows, Moves
<1>4. \A q \in PaneIds : \A j \in DOMAIN tabs'[q] : IsWalk(tabs'[q][j])
  BY <1>2 DEF Comes, Moves
<1> QED
  BY <1>3, <1>4 DEF Keeps

LEMMA TabsStay ==
  ASSUME TabsInv, UNCHANGED tabs, index' \in [PaneIds -> Nat],
         \A p \in PaneIds : index'[p] \in DOMAIN tabs[p]
  PROVE  TabsInv' /\ Keeps
<1>1. \A q \in PaneIds : \A j \in DOMAIN tabs'[q] : Comes(tabs'[q][j])
  BY DEF Comes
<1>2. Keeps
  BY <1>1, Coming
<1>3. TabsInv'
  BY DEF TabsInv, IdsDiffer
<1> QED
  BY <1>2, <1>3

\* In any of the panes, the tab shown moves.
Moved(p) ==
  \/ tabs'[p] = tabs[p]
  \/ \E u : Moves(Tab(p), u) /\ tabs'[p] = [tabs[p] EXCEPT ![index[p]] = u]

LEMMA MovedTabs ==
  ASSUME TabsInv, NEW p \in PaneIds, Moved(p)
  PROVE  /\ tabs'[p] \in Seq(TabType) /\ DOMAIN tabs'[p] = DOMAIN tabs[p]
         /\ \A i \in DOMAIN tabs[p] :
              tabs'[p][i] = tabs[p][i] \/ Moves(tabs[p][i], tabs'[p][i])
<1>1. PICK s : s = tabs[p]
  OBVIOUS
<1>2. s \in Seq(TabType) /\ index[p] \in DOMAIN s
  BY <1>1 DEF TabsInv
<1>3. CASE tabs'[p] = tabs[p]
  BY <1>1, <1>2, <1>3
<1>4. CASE \E u : Moves(Tab(p), u) /\ tabs'[p] = [tabs[p] EXCEPT ![index[p]] = u]
  <2>1. PICK u : Moves(Tab(p), u) /\ tabs'[p] = [s EXCEPT ![index[p]] = u]
    BY <1>1, <1>4
  <2>2. u \in TabType /\ Tab(p) = s[index[p]]
    BY <2>1, <1>1 DEF Moves, Tab
  <2>3. PICK k \in DOMAIN s : k = index[p]
    BY <1>2
  <2>4. PICK v : v = [s EXCEPT ![k] = u]
    OBVIOUS
  <2>5. v \in Seq(TabType) /\ DOMAIN v = DOMAIN s /\ v[k] = u /\ \A i \in DOMAIN s : i # k => v[i] = s[i]
    BY <1>2, <2>2, <2>3, <2>4
  <2> QED
    BY <2>1, <2>2, <2>3, <2>4, <2>5, <1>1
<1> QED
  BY <1>3, <1>4 DEF Moved

LEMMA TabsMove ==
  ASSUME TabsInv, UNCHANGED index, \A p \in PaneIds : Moved(p),
         tabs' = [p \in PaneIds |-> tabs'[p]]
  PROVE  TabsInv' /\ Keeps
<1>1. ASSUME NEW p \in PaneIds
      PROVE  /\ tabs'[p] \in Seq(TabType) /\ DOMAIN tabs'[p] = DOMAIN tabs[p]
             /\ \A i \in DOMAIN tabs[p] :
                  tabs'[p][i] = tabs[p][i] \/ Moves(tabs[p][i], tabs'[p][i])
  BY <1>1, MovedTabs
<1>2. tabs' \in [PaneIds -> Seq(TabType)]
  BY <1>1
<1>3. \A q \in PaneIds : \A j \in DOMAIN tabs'[q] : Comes(tabs'[q][j])
  BY <1>1 DEF Comes
<1>4. Keeps /\ \A q \in PaneIds : \A j \in DOMAIN tabs'[q] : IsWalk(tabs'[q][j])
  BY <1>3, Coming
<1>5. \A p \in PaneIds : \A i \in DOMAIN tabs[p] : tabs'[p][i].id = tabs[p][i].id
  BY <1>1 DEF Moves
<1>6. IdsDiffer'
  BY <1>1, <1>5 DEF TabsInv, IdsDiffer
<1>7. index' \in [PaneIds -> Nat] /\ \A p \in PaneIds : index'[p] \in DOMAIN tabs'[p]
  BY <1>1 DEF TabsInv
<1> QED
  BY <1>2, <1>4, <1>6, <1>7 DEF TabsInv

\* One tab of one pane is closed.
LEMMA TabsClose ==
  ASSUME TabsInv, NEW p \in PaneIds, NEW i \in DOMAIN tabs[p],
         tabs' = [tabs EXCEPT ![p] = RemoveAt(@, i)],
         index' \in [PaneIds -> Nat], \A q \in PaneIds : index'[q] \in DOMAIN tabs'[q]
  PROVE  TabsInv' /\ Keeps
<1>1. PICK s, r : s = tabs[p] /\ r = RemoveAt(s, i)
  OBVIOUS
<1>2. s \in Seq(TabType) /\ DOMAIN s = 1 .. Len(s) /\ i \in 1 .. Len(s) /\ Len(s) \in Nat
  BY <1>1 DEF TabsInv
<1>3. IsRemoved(r, s, i)
  BY <1>1, <1>2, Removed
<1>4. tabs'[p] = r /\ \A q \in PaneIds : q # p => tabs'[q] = tabs[q]
  BY <1>1 DEF TabsInv
<1>5. r \in Seq(TabType) /\ DOMAIN r = 1 .. Len(r) /\ Len(r) = Len(s) - 1
  BY <1>3 DEF IsRemoved
<1>6. tabs' \in [PaneIds -> Seq(TabType)]
  BY <1>1, <1>5 DEF TabsInv
<1> DEFINE was(j) == IF j < i THEN j ELSE j + 1
<1>7. \A j \in DOMAIN r : was(j) \in DOMAIN s /\ r[j] = s[was(j)]
  BY <1>2, <1>3, <1>5 DEF IsRemoved
<1>8. \A j, k \in DOMAIN r : was(j) = was(k) => j = k
  BY <1>2, <1>5
<1> HIDE DEF was
<1>9. \A q \in PaneIds : \A j \in DOMAIN tabs'[q] : Comes(tabs'[q][j])
  BY <1>1, <1>4, <1>7 DEF Comes
<1>10. Keeps /\ \A q \in PaneIds : \A j \in DOMAIN tabs'[q] : IsWalk(tabs'[q][j])
  BY <1>9, Coming
<1>11. ASSUME NEW q \in PaneIds, NEW o \in PaneIds,
              NEW j \in DOMAIN tabs'[q], NEW k \in DOMAIN tabs'[o],
              tabs'[q][j].id = tabs'[o][k].id
       PROVE  q = o /\ j = k
  <2>1. \A x, y \in PaneIds : \A l \in DOMAIN tabs[x], m \in DOMAIN tabs[y] :
          tabs[x][l].id = tabs[y][m].id => x = y /\ l = m
    BY DEF TabsInv, IdsDiffer
  <2>2. CASE q = p /\ o = p
    <3>1. /\ was(j) \in DOMAIN s /\ r[j] = s[was(j)] /\ was(k) \in DOMAIN s
          /\ r[k] = s[was(k)] /\ r[j].id = r[k].id /\ j \in DOMAIN r /\ k \in DOMAIN r
      BY <2>2, <1>4, <1>7, <1>11
    <3>2. was(j) = was(k)
      BY <3>1, <2>1, <1>1
    <3> QED
      BY <2>2, <3>1, <3>2, <1>8
  <2>3. CASE q = p /\ o # p
    <3>1. was(j) \in DOMAIN s /\ r[j] = s[was(j)] /\ tabs'[o][k] = tabs[o][k] /\ k \in DOMAIN tabs[o]
      BY <2>3, <1>4, <1>7
    <3> QED
      BY <3>1, <2>1, <2>3, <1>1, <1>4, <1>11
  <2>4. CASE q # p /\ o = p
    <3>1. was(k) \in DOMAIN s /\ r[k] = s[was(k)] /\ tabs'[q][j] = tabs[q][j] /\ j \in DOMAIN tabs[q]
      BY <2>4, <1>4, <1>7
    <3> QED
      BY <3>1, <2>1, <2>4, <1>1, <1>4, <1>11
  <2>5. CASE q # p /\ o # p
    BY <2>1, <2>5, <1>4, <1>11
  <2> QED
    BY <2>2, <2>3, <2>4, <2>5
<1>12. IdsDiffer'
  BY <1>11 DEF IdsDiffer
<1> QED
  BY <1>6, <1>10, <1>12 DEF TabsInv

\* A tab with an id of its own is added to one pane.
LEMMA TabsAdd ==
  ASSUME TabsInv, NEW p \in PaneIds, NEW e \in TabType, IsWalk(e),
         \A q \in PaneIds : \A j \in DOMAIN tabs[q] : tabs[q][j].id # e.id,
         tabs' = [tabs EXCEPT ![p] = InsertAt(@, index[p] + 1, e)],
         index' = [index EXCEPT ![p] = @ + 1]
  PROVE  /\ TabsInv' /\ Keeps /\ tabs'[p][index'[p]] = e
         /\ \A q \in PaneIds : q # p => tabs'[q] = tabs[q] /\ index'[q] = index[q]
<1>1. PICK s, i, r : s = tabs[p] /\ i = index[p] + 1 /\ r = InsertAt(s, i, e)
  OBVIOUS
<1>2. /\ s \in Seq(TabType) /\ DOMAIN s = 1 .. Len(s) /\ Len(s) \in Nat
      /\ index[p] \in 1 .. Len(s) /\ i \in 1 .. Len(s) + 1
  BY <1>1 DEF TabsInv
<1>3. IsInserted(r, s, i, e)
  BY <1>1, <1>2, Inserted
<1>4. /\ tabs'[p] = r /\ index'[p] = i
      /\ \A q \in PaneIds : q # p => tabs'[q] = tabs[q] /\ index'[q] = index[q]
  BY <1>1 DEF TabsInv
<1>5. r \in Seq(TabType) /\ DOMAIN r = 1 .. Len(r) /\ Len(r) = Len(s) + 1 /\ i \in DOMAIN r /\ r[i] = e
  BY <1>2, <1>3 DEF IsInserted
<1>6. tabs' \in [PaneIds -> Seq(TabType)] /\ index' \in [PaneIds -> Nat]
  BY <1>1, <1>2, <1>5 DEF TabsInv
<1>7. \A q \in PaneIds : index'[q] \in DOMAIN tabs'[q]
  BY <1>4, <1>5 DEF TabsInv
<1> DEFINE was(j) == IF j < i THEN j ELSE j - 1
<1>8. \A j \in DOMAIN r : j # i => was(j) \in DOMAIN s /\ r[j] = s[was(j)]
  BY <1>2, <1>3, <1>5 DEF IsInserted
<1>9. \A j, k \in DOMAIN r : j # i /\ k # i /\ was(j) = was(k) => j = k
  BY <1>2, <1>5
<1> HIDE DEF was
<1>10. ASSUME NEW q \in PaneIds, NEW j \in DOMAIN tabs'[q] PROVE Comes(tabs'[q][j])
  <2>1. CASE q = p /\ j = i
    BY <2>1, <1>4, <1>5 DEF Comes
  <2>2. CASE q = p /\ j # i
    BY <2>2, <1>1, <1>4, <1>8 DEF Comes
  <2>3. CASE q # p
    BY <2>3, <1>4 DEF Comes
  <2> QED
    BY <2>1, <2>2, <2>3
<1>11. Keeps /\ \A q \in PaneIds : \A j \in DOMAIN tabs'[q] : IsWalk(tabs'[q][j])
  BY <1>10, Coming
<1>12. ASSUME NEW q \in PaneIds, NEW j \in DOMAIN tabs'[q], ~(q = p /\ j = i)
       PROVE  \E k \in DOMAIN tabs[q] :
                tabs'[q][j] = tabs[q][k] /\ (IF q = p THEN k = was(j) ELSE k = j)
  <2>1. CASE q = p
    BY <2>1, <1>1, <1>4, <1>8, <1>12
  <2>2. CASE q # p
    BY <2>2, <1>4
  <2> QED
    BY <2>1, <2>2
<1>13. ASSUME NEW q \in PaneIds, NEW o \in PaneIds,
              NEW j \in DOMAIN tabs'[q], NEW k \in DOMAIN tabs'[o],
              tabs'[q][j].id = tabs'[o][k].id
       PROVE  q = o /\ j = k
  <2>1. CASE (q = p /\ j = i) /\ (o = p /\ k = i)
    BY <2>1
  <2>2. CASE (q = p /\ j = i) /\ ~(o = p /\ k = i)
    BY <2>2, <1>4, <1>5, <1>12, <1>13
  <2>3. CASE ~(q = p /\ j = i) /\ (o = p /\ k = i)
    BY <2>3, <1>4, <1>5, <1>12, <1>13
  <2>4. CASE ~(q = p /\ j = i) /\ ~(o = p /\ k = i)
    <3>1. PICK l \in DOMAIN tabs[q] :
            tabs'[q][j] = tabs[q][l] /\ (IF q = p THEN l = was(j) ELSE l = j)
      BY <2>4, <1>12
    <3>2. PICK m \in DOMAIN tabs[o] :
            tabs'[o][k] = tabs[o][m] /\ (IF o = p THEN m = was(k) ELSE m = k)
      BY <2>4, <1>12
    <3>3. q = o /\ l = m
      BY <3>1, <3>2, <1>13 DEF TabsInv, IdsDiffer
    <3>4. CASE q = p
      BY <3>1, <3>2, <3>3, <3>4, <2>4, <1>4, <1>9
    <3>5. CASE q # p
      BY <3>1, <3>2, <3>3, <3>5
    <3> QED
      BY <3>4, <3>5
  <2> QED
    BY <2>1, <2>2, <2>3, <2>4
<1>14. IdsDiffer'
  BY <1>13 DEF IdsDiffer
<1> QED
  BY <1>4, <1>5, <1>6, <1>7, <1>11, <1>14 DEF TabsInv

\* The panes trade places.
LEMMA TabsSwap ==
  ASSUME TabsInv, tabs' = [p \in PaneIds |-> tabs[Other(p)]],
         index' = [p \in PaneIds |-> index[Other(p)]]
  PROVE  TabsInv' /\ Keeps
<1>1. \A p \in PaneIds : Other(p) \in PaneIds /\ \A q \in PaneIds : Other(p) = Other(q) => p = q
  BY DEF PaneIds, Other
<1>2. \A p \in PaneIds : tabs'[p] = tabs[Other(p)] /\ index'[p] = index[Other(p)]
  OBVIOUS
<1>3. tabs' \in [PaneIds -> Seq(TabType)] /\ index' \in [PaneIds -> Nat]
  BY <1>1 DEF TabsInv
<1>4. \A p \in PaneIds : index'[p] \in DOMAIN tabs'[p]
  BY <1>1, <1>2 DEF TabsInv
<1>5. \A q \in PaneIds : \A j \in DOMAIN tabs'[q] : Comes(tabs'[q][j])
  BY <1>1, <1>2 DEF Comes
<1>6. Keeps /\ \A q \in PaneIds : \A j \in DOMAIN tabs'[q] : IsWalk(tabs'[q][j])
  BY <1>5, Coming
<1>7. IdsDiffer'
  BY <1>1, <1>2 DEF TabsInv, IdsDiffer
<1> QED
  BY <1>3, <1>4, <1>6, <1>7 DEF TabsInv

-----------------------------------------------------------------------------
(* The steps the handlers are made of.                                       *)

NoShell ==
  \A p \in PaneIds :
    Path(p)' # Path(p) /\ Path(p)' \in Remote => ~term'[p] \/ Swapped
SamePaths == \A p \in PaneIds : Path(p)' = Path(p)

\* What every step does.
Good == IInv' /\ Keeps /\ NoShell

LEMMA ShownTab ==
  ASSUME TabsInv, NEW p \in PaneIds
  PROVE  /\ index[p] \in DOMAIN tabs[p] /\ Tab(p) \in TabType /\ IsWalk(Tab(p))
         /\ Path(p) \in Dirs /\ Rows(Path(p)) \subseteq Seq(STRING)
<1>1. tabs[p] \in Seq(TabType) /\ index[p] \in DOMAIN tabs[p]
  BY DEF TabsInv
<1>2. Tab(p) \in TabType /\ IsWalk(Tab(p))
  BY <1>1 DEF TabsInv, Tab
<1>3. Path(p) \in Dirs
  BY <1>2, TabFields DEF Path
<1>4. Rows(Path(p)) \subseteq Seq(STRING)
  BY <1>3, PanesAssumption DEF Rows, Range
<1> QED
  BY <1>1, <1>2, <1>3, <1>4

LEMMA RowsAreRows ==
  ASSUME NEW d \in Dirs PROVE Rows(d) \subseteq Seq(STRING)
BY PanesAssumption DEF Rows, Range

\* The tab shown by one pane moves.
LEMMA MoveOne ==
  ASSUME TabsInv, NEW p \in PaneIds, NEW u, Moves(Tab(p), u),
         tabs' = [tabs EXCEPT ![p][index[p]] = u], UNCHANGED index
  PROVE  /\ TabsInv' /\ Keeps /\ Path(p)' = u.path
         /\ \A q \in PaneIds : q # p => Path(q)' = Path(q)
<1>1. /\ tabs'[p] = [tabs[p] EXCEPT ![index[p]] = u]
      /\ \A q \in PaneIds : q # p => tabs'[q] = tabs[q]
  BY DEF TabsInv
<1>2. \A q \in PaneIds : Moved(q)
  BY <1>1 DEF Moved
<1>3. tabs' = [q \in PaneIds |-> tabs'[q]]
  BY DEF TabsInv
<1>4. TabsInv' /\ Keeps
  BY <1>2, <1>3, TabsMove
<1>5. tabs[p] \in Seq(TabType) /\ index[p] \in DOMAIN tabs[p]
  BY DEF TabsInv
<1>6. tabs'[p][index'[p]] = u
  BY <1>1, <1>5
<1> QED
  BY <1>1, <1>4, <1>6 DEF Path, Tab

\* The cursor stays where it is as long as its pane does.
LEMMA CursorStays ==
  ASSUME CursorInv, KeepSel, SamePaths, active' \in PaneIds, term' \in [PaneIds -> BOOLEAN]
  PROVE  CursorInv'
<1>1. UNCHANGED <<selection, focus, anchor>> /\ \A p \in PaneIds : Path(p)' = Path(p)
  BY DEF KeepSel, SamePaths
<1>2. \A p \in PaneIds : InView(p)'
  BY <1>1 DEF CursorInv, InView
<1> QED
  BY <1>1, <1>2 DEF CursorInv

\* A pane whose selection is cleared may go anywhere.
LEMMA CursorClears ==
  ASSUME CursorInv, NEW p \in PaneIds, ClearSel(p),
         \A q \in PaneIds : q # p => Path(q)' = Path(q),
         active' \in PaneIds, term' \in [PaneIds -> BOOLEAN]
  PROVE  CursorInv'
<1>1. /\ selection' = [selection EXCEPT ![p] = {}]
      /\ focus' = [focus EXCEPT ![p] = Nowhere]
      /\ anchor' = [anchor EXCEPT ![p] = Nowhere]
  BY DEF ClearSel
<1>2. Nowhere \in Seq(STRING) /\ {} \in SUBSET Seq(STRING)
  BY DEF Nowhere
<1>3. /\ selection' \in [PaneIds -> SUBSET Seq(STRING)]
      /\ focus' \in [PaneIds -> Seq(STRING)] /\ anchor' \in [PaneIds -> Seq(STRING)]
  BY <1>1, <1>2 DEF CursorInv
<1>4. selection'[p] = {} /\ focus'[p] = Nowhere
  BY <1>1 DEF CursorInv
<1>5. InView(p)'
  BY <1>4 DEF InView, Nowhere
<1>6. ASSUME NEW q \in PaneIds, q # p PROVE InView(q)'
  <2>1. selection'[q] = selection[q] /\ focus'[q] = focus[q] /\ Path(q)' = Path(q)
    BY <1>1, <1>6 DEF CursorInv
  <2>2. InView(q)
    BY DEF CursorInv
  <2> QED
    BY <2>1, <2>2 DEF InView, Nowhere
<1> QED
  BY <1>3, <1>5, <1>6 DEF CursorInv

LEMMA TermEnters ==
  ASSUME CursorInv, NEW p \in PaneIds, NEW d, EnterPaneTab(p, d)
  PROVE  term' \in [PaneIds -> BOOLEAN] /\ (d \in Remote => ~term'[p])
BY DEF CursorInv, EnterPaneTab

\* A pane that lands somewhere has entered its directory.
LEMMA Landing ==
  ASSUME TabsInv, CursorInv, NEW p \in PaneIds, NEW d \in Dirs, Land(p, d), active' \in PaneIds
  PROVE  TabsInv' /\ CursorInv' /\ Keeps /\ NoShell
<1>1. EnterPaneTab(p, d) /\ Navigate(p, d) /\ UNCHANGED index
  BY DEF Land
<1>2. term' \in [PaneIds -> BOOLEAN] /\ (d \in Remote => ~term'[p])
  BY <1>1, TermEnters
<1>3. Tab(p) \in TabType /\ IsWalk(Tab(p)) /\ Path(p) = Tab(p).path
  BY ShownTab DEF Path
<1>4. CASE d = Path(p)
  <2>1. UNCHANGED <<tabs, index>> /\ KeepSel
    BY <1>1, <1>4 DEF Navigate
  <2>2. SamePaths
    BY <2>1 DEF SamePaths, Path, Tab
  <2>3. TabsInv' /\ Keeps
    BY <2>1, TabsStay DEF TabsInv
  <2> QED
    BY <2>1, <2>2, <2>3, <1>2, CursorStays DEF NoShell, SamePaths
<1>5. CASE d # Path(p)
  <2>1. /\ tabs' = [tabs EXCEPT ![p][index[p]] = GoesTo(Tab(p), d)]
        /\ ClearSel(p)
    BY <1>1, <1>5 DEF Navigate
  <2>2. Moves(Tab(p), GoesTo(Tab(p), d)) /\ GoesTo(Tab(p), d).path = d
    BY <1>3, <1>5, Going
  <2>3. /\ TabsInv' /\ Keeps /\ Path(p)' = d
        /\ \A q \in PaneIds : q # p => Path(q)' = Path(q)
    BY <2>1, <2>2, <1>1, MoveOne
  <2>4. CursorInv'
    BY <2>1, <2>3, <1>2, CursorClears
  <2> QED
    BY <2>3, <2>4, <1>2 DEF NoShell
<1> QED
  BY <1>4, <1>5

\* A step that leaves the tabs alone.
LEMMA TabsAlone ==
  ASSUME TabsInv, UNCHANGED <<tabs, index>>
  PROVE  TabsInv' /\ Keeps /\ SamePaths /\ NoShell
<1>1. TabsInv' /\ Keeps
  BY TabsStay DEF TabsInv
<1>2. SamePaths
  BY DEF SamePaths, Path, Tab
<1> QED
  BY <1>1, <1>2 DEF NoShell, SamePaths

LEMMA CallAdded ==
  ASSUME CallsInv, NEW c \in CallType, Cardinality(calls) < MaxCalls, calls' = calls \cup {c}
  PROVE  CallsInv'
<1>1. IsFiniteSet(calls') /\ (Cardinality(calls') = Cardinality(calls) \/ Cardinality(calls') = Cardinality(calls) + 1)
  BY FS_AddElement DEF CallsInv
<1>2. Cardinality(calls) \in Nat /\ MaxCalls \in Nat
  BY FS_CardinalityType, PanesAssumption DEF CallsInv
<1> QED
  BY <1>1, <1>2 DEF CallsInv

LEMMA CallTaken ==
  ASSUME CallsInv, calls' \subseteq calls
  PROVE  CallsInv'
<1>1. IsFiniteSet(calls') /\ Cardinality(calls') <= Cardinality(calls)
  BY FS_Subset DEF CallsInv
<1>2. /\ Cardinality(calls) \in Nat /\ Cardinality(calls') \in Nat /\ MaxCalls \in Nat
      /\ Cardinality(calls) <= MaxCalls
  BY <1>1, FS_CardinalityType, PanesAssumption DEF CallsInv
<1> QED
  BY <1>1, <1>2 DEF CallsInv

LEMMA CallReplaced ==
  ASSUME CallsInv, NEW c \in calls, NEW d \in CallType, calls' = (calls \ {c}) \cup {d}
  PROVE  CallsInv'
<1>1. IsFiniteSet(calls \ {c}) /\ Cardinality(calls \ {c}) = Cardinality(calls) - 1
  BY FS_RemoveElement DEF CallsInv
<1>2. /\ IsFiniteSet(calls')
      /\ Cardinality(calls') = Cardinality(calls \ {c}) \/ Cardinality(calls') = Cardinality(calls \ {c}) + 1
  BY <1>1, FS_AddElement
<1>3. Cardinality(calls) \in Nat /\ MaxCalls \in Nat /\ Cardinality(calls) <= MaxCalls
  BY FS_CardinalityType, PanesAssumption DEF CallsInv
<1> QED
  BY <1>1, <1>2, <1>3 DEF CallsInv

LEMMA Asking ==
  ASSUME CallsInv, NEW p \in PaneIds, NEW d \in Dirs, Ask(p, d)
  PROVE  CallsInv'
<1>1. [kind |-> "exists", pane |-> p, dir |-> d] \in CallType
  BY DEF CallType
<1> QED
  BY <1>1, CallAdded DEF Ask

\* A step of the cursor alone.
LEMMA CursorStep ==
  ASSUME IInv, UNCHANGED <<tabs, index>>, CallsInv', active' \in PaneIds,
         term' \in [PaneIds -> BOOLEAN],
         selection' \in [PaneIds -> SUBSET Seq(STRING)],
         focus' \in [PaneIds -> Seq(STRING)], anchor' \in [PaneIds -> Seq(STRING)],
         \A p \in PaneIds :
           selection'[p] \cup ({focus'[p]} \ {Nowhere}) \subseteq Rows(Path(p))
  PROVE  Good
<1>1. TabsInv' /\ Keeps /\ SamePaths /\ NoShell
  BY TabsAlone DEF IInv
<1>2. \A p \in PaneIds : InView(p)'
  BY <1>1 DEF InView, SamePaths, Nowhere
<1> QED
  BY <1>1, <1>2 DEF Good, IInv, CursorInv

\* A step that leaves the store alone but for the pane that is active.
LEMMA StoreStep ==
  ASSUME IInv, UNCHANGED <<tabs, index, selection, focus, anchor>>, CallsInv',
         active' \in PaneIds, term' \in [PaneIds -> BOOLEAN]
  PROVE  Good
<1>1. TabsInv' /\ Keeps /\ SamePaths /\ NoShell
  BY TabsAlone DEF IInv
<1>2. CursorInv'
  BY <1>1, CursorStays DEF IInv, KeepSel
<1> QED
  BY <1>1, <1>2 DEF Good, IInv

-----------------------------------------------------------------------------
(* Navigation.                                                               *)

\* The directory a pane arrives in is the one it entered.
LEMMA Entering ==
  ASSUME CursorInv, NEW p \in PaneIds, ClearSel(p), EnterPaneTab(p, Path(p)'),
         \A q \in PaneIds : q # p => Path(q)' = Path(q), active' \in PaneIds
  PROVE  CursorInv' /\ NoShell
<1>1. PICK d : d = Path(p)'
  OBVIOUS
<1>2. EnterPaneTab(p, d)
  BY <1>1
<1>3. term' \in [PaneIds -> BOOLEAN] /\ (d \in Remote => ~term'[p])
  BY <1>2, TermEnters
<1>4. CursorInv'
  BY <1>3, CursorClears
<1>5. NoShell
  BY <1>1, <1>3 DEF NoShell
<1> QED
  BY <1>4, <1>5

\* The tab shown moves, and its pane enters where it leads.
LEMMA TabGoes ==
  ASSUME IInv, NEW p \in PaneIds, NEW u, Moves(Tab(p), u), NEW d, d = u.path,
         tabs' = [tabs EXCEPT ![p][index[p]] = u], UNCHANGED index,
         ClearSel(p), EnterPaneTab(p, d), active' \in PaneIds, CallsInv'
  PROVE  Good
<1>1. TabsInv /\ CursorInv
  BY DEF IInv
<1>2. /\ TabsInv' /\ Keeps /\ Path(p)' = d
      /\ \A q \in PaneIds : q # p => Path(q)' = Path(q)
  BY <1>1, MoveOne
<1>3. EnterPaneTab(p, Path(p)')
  BY <1>2
<1>4. CursorInv' /\ NoShell
  BY <1>1, <1>2, <1>3, Entering
<1> QED
  BY <1>2, <1>4 DEF Good, IInv

LEMMA CallsStay ==
  ASSUME CallsInv, UNCHANGED calls PROVE CallsInv'
BY DEF CallsInv

LEMMA Asks ==
  ASSUME IInv, NEW p \in PaneIds, NEW d \in Dirs, Ask(p, d),
         UNCHANGED <<tabs, index, selection, focus, anchor, term>>, active' \in PaneIds
  PROVE  Good
<1>1. CallsInv'
  BY Asking DEF IInv
<1>2. term' \in [PaneIds -> BOOLEAN]
  BY DEF IInv, CursorInv
<1> QED
  BY <1>1, <1>2, StoreStep

LEMMA Arrives ==
  ASSUME IInv, NEW p \in PaneIds, NEW d \in Dirs, Land(p, d), active' \in PaneIds, CallsInv'
  PROVE  Good
BY Landing DEF IInv, Good

LEMMA ParentIsDir == \A d \in Dirs : ParentOf(d) \in Dirs
BY PanesAssumption DEF ParentOf

LEMMA Now ==
  ASSUME IInv
  PROVE  /\ active \in PaneIds /\ Path(active) \in Dirs /\ Other(active) \in PaneIds
         /\ \A p \in PaneIds : Path(p) \in Dirs
<1>1. active \in PaneIds /\ Other(active) \in PaneIds
  BY DEF IInv, CursorInv, Other, PaneIds
<1> QED
  BY <1>1, ShownTab DEF IInv

LEMMA GoUpStep == ASSUME IInv, NEW p \in PaneIds, GoUp(p) PROVE Good
<1>1. ParentOf(Path(p)) \in Dirs
  BY Now, ParentIsDir
<1> QED
  BY <1>1, Asks DEF GoUp

LEMMA PathBarStep ==
  ASSUME IInv, NEW p \in PaneIds, NEW d \in Dirs, PathBar(p, d) PROVE Good
BY Asks DEF PathBar

LEMMA ToolbarUpStep == ASSUME IInv, ToolbarUp PROVE Good
<1>1. PICK d \in {ParentOf(Path(active)), Home} : Ask(active, d)
  BY DEF ToolbarUp
<1>2. d \in Dirs
  BY Now, ParentIsDir, PanesAssumption
<1> QED
  BY <1>1, <1>2, Now, Asks DEF ToolbarUp, store

LEMMA OpenRowStep == ASSUME IInv, OpenRow PROVE Good
BY Now, Asks DEF OpenRow, store

LEMMA AnswerStep == ASSUME IInv, NEW c \in calls, Answer(c) PROVE Good
<1>1. c.pane \in PaneIds /\ c.dir \in Dirs
  BY DEF IInv, CallsInv, CallType
<1>2. CallsInv'
  BY CallTaken DEF IInv, Answer
<1>3. CASE Land(c.pane, c.dir) /\ UNCHANGED active
  BY <1>1, <1>2, <1>3, Now, Arrives
<1>4. CASE UNCHANGED store
  BY <1>2, <1>4, StoreStep DEF store, IInv, CursorInv
<1> QED
  BY <1>3, <1>4 DEF Answer

LEMMA GoBackStep == ASSUME IInv, GoBack PROVE Good
<1>1. active \in PaneIds /\ Tab(active) \in TabType /\ IsWalk(Tab(active))
  BY Now, ShownTab DEF IInv
<1>2. PICK t, u : t = Tab(active) /\ u = GoesBack(t)
  OBVIOUS
<1>3. Moves(t, u) /\ u.path = Last(t.back)
  BY <1>1, <1>2, Backing DEF GoBack
<1>4. CallsInv'
  BY CallsStay DEF IInv, GoBack
<1> QED
  BY <1>1, <1>2, <1>3, <1>4, TabGoes DEF GoBack

LEMMA GoForwardStep == ASSUME IInv, GoForward PROVE Good
<1>1. active \in PaneIds /\ Tab(active) \in TabType /\ IsWalk(Tab(active))
  BY Now, ShownTab DEF IInv
<1>2. PICK t, u : t = Tab(active) /\ u = GoesForward(t)
  OBVIOUS
<1>3. Moves(t, u) /\ u.path = Last(t.forward)
  BY <1>1, <1>2, Forwarding DEF GoForward
<1>4. CallsInv'
  BY CallsStay DEF IInv, GoForward
<1> QED
  BY <1>1, <1>2, <1>3, <1>4, TabGoes DEF GoForward

LEMMA GoDirectStep == ASSUME IInv, NEW d \in Dirs, GoDirect(d) PROVE Good
BY Now, Arrives, CallsStay DEF GoDirect, IInv

LEMMA SameDirStep == ASSUME IInv, SameDir PROVE Good
BY Now, Arrives, CallsStay DEF SameDir, IInv

\* Home is never remote, so no terminal is in the way.
LEMMA UnmountedStep == ASSUME IInv, NEW v \in Dirs, Unmounted(v) PROVE Good
<1> DEFINE gone == {p \in PaneIds : Under(Path(p), v) /\ Path(p) # Home}
<1>1. /\ tabs' = [p \in PaneIds |-> IF p \in gone THEN [tabs[p] EXCEPT ![index[p]] = GoesTo(Tab(p), Home)]
                                      ELSE tabs[p]]
      /\ selection' = [p \in PaneIds |-> IF p \in gone THEN {} ELSE selection[p]]
      /\ focus' = [p \in PaneIds |-> IF p \in gone THEN Nowhere ELSE focus[p]]
      /\ anchor' = [p \in PaneIds |-> IF p \in gone THEN Nowhere ELSE anchor[p]]
      /\ UNCHANGED <<index, active, term, calls>>
  BY DEF Unmounted
<1>2. \A p \in gone : p \in PaneIds /\ Path(p) # Home
  OBVIOUS
<1> HIDE DEF gone
<1>3. TabsInv /\ CursorInv /\ Home \in Dirs \ Remote
  BY PanesAssumption DEF IInv
<1>4. ASSUME NEW p \in PaneIds, p \in gone
      PROVE  Moved(p) /\ Path(p)' = Home
  <2>1. PICK u : u = GoesTo(Tab(p), Home)
    OBVIOUS
  <2>2. Tab(p) \in TabType /\ IsWalk(Tab(p)) /\ Home # Tab(p).path /\ Home \in Dirs
    BY <1>2, <1>3, <1>4, ShownTab DEF Path
  <2>3. Moves(Tab(p), u) /\ u.path = Home
    BY <2>1, <2>2, Going
  <2>4. tabs'[p] = [tabs[p] EXCEPT ![index[p]] = u] /\ index' = index
    BY <2>1, <1>1, <1>4
  <2>5. tabs[p] \in Seq(TabType) /\ index[p] \in DOMAIN tabs[p]
    BY <1>3 DEF TabsInv
  <2>6. tabs'[p][index'[p]] = u
    BY <2>4, <2>5
  <2> QED
    BY <2>3, <2>4, <2>6 DEF Moved, Path, Tab
<1>5. ASSUME NEW p \in PaneIds, p \notin gone
      PROVE  Moved(p) /\ Path(p)' = Path(p)
  BY <1>1, <1>5 DEF Moved, Path, Tab
<1>6. tabs' = [p \in PaneIds |-> tabs'[p]]
  BY <1>1
<1>7. \A p \in PaneIds : Moved(p)
  BY <1>4, <1>5
<1>8. TabsInv' /\ Keeps
  BY <1>1, <1>3, <1>6, <1>7, TabsMove
<1>9. Nowhere \in Seq(STRING)
  BY DEF Nowhere
<1>10. /\ selection' \in [PaneIds -> SUBSET Seq(STRING)]
       /\ focus' \in [PaneIds -> Seq(STRING)] /\ anchor' \in [PaneIds -> Seq(STRING)]
  <2>1. /\ selection \in [PaneIds -> SUBSET Seq(STRING)]
        /\ focus \in [PaneIds -> Seq(STRING)] /\ anchor \in [PaneIds -> Seq(STRING)]
    BY <1>3 DEF CursorInv
  <2>2. selection' \in [PaneIds -> SUBSET Seq(STRING)]
    BY <2>1, <1>1
  <2> QED
    BY <2>1, <2>2, <1>1, <1>9
<1>11. ASSUME NEW p \in PaneIds PROVE InView(p)'
  <2>1. CASE p \in gone
    <3>1. selection'[p] = {} /\ focus'[p] = Nowhere
      BY <2>1, <1>1
    <3> QED
      BY <3>1 DEF InView, Nowhere
  <2>2. CASE p \notin gone
    <3>1. selection'[p] = selection[p] /\ focus'[p] = focus[p] /\ Path(p)' = Path(p)
      BY <2>2, <1>1, <1>5
    <3>2. InView(p)
      BY <1>3 DEF CursorInv
    <3> QED
      BY <3>1, <3>2 DEF InView, Nowhere
  <2> QED
    BY <2>1, <2>2
<1>12. CursorInv'
  BY <1>1, <1>3, <1>10, <1>11 DEF CursorInv
<1>13. NoShell
  BY <1>3, <1>4, <1>5 DEF NoShell
<1>14. CallsInv'
  BY <1>1, CallsStay DEF IInv
<1> QED
  BY <1>8, <1>12, <1>13, <1>14 DEF Good, IInv

-----------------------------------------------------------------------------
(* The tab strip.                                                            *)

LEMMA SelectTabStep ==
  ASSUME IInv, NEW p \in PaneIds, NEW i \in DOMAIN tabs[p], SelectTab(p, i) PROVE Good
<1>1. /\ UNCHANGED <<tabs, calls>> /\ index' = [index EXCEPT ![p] = i]
      /\ EnterPaneTab(p, tabs[p][i].path) /\ ClearSel(p) /\ active' = p
  BY DEF SelectTab
<1>2. TabsInv /\ CursorInv /\ CallsInv'
  BY <1>1, CallsStay DEF IInv
<1>3. i \in Nat
  <2>1. tabs[p] \in Seq(TabType)
    BY <1>2 DEF TabsInv
  <2> QED
    BY <2>1
<1>4. index' \in [PaneIds -> Nat] /\ index'[p] = i /\ \A q \in PaneIds : q # p => index'[q] = index[q]
  BY <1>1, <1>2, <1>3 DEF TabsInv
<1>5. \A q \in PaneIds : index'[q] \in DOMAIN tabs[q]
  BY <1>2, <1>4 DEF TabsInv
<1>6. TabsInv' /\ Keeps
  BY <1>1, <1>2, <1>4, <1>5, TabsStay
<1>7. Path(p)' = tabs[p][i].path /\ \A q \in PaneIds : q # p => Path(q)' = Path(q)
  BY <1>1, <1>4 DEF Path, Tab
<1>8. CursorInv' /\ NoShell
  BY <1>1, <1>2, <1>7, Entering
<1> QED
  BY <1>2, <1>6, <1>8 DEF Good, IInv

\* The walk of a tab that went nowhere is its folder.
LEMMA NewTab ==
  ASSUME NEW i \in TabIds, NEW d \in Dirs, NEW t,
         t = [id |-> i, path |-> d, back |-> <<>>, forward |-> <<>>]
  PROVE  t \in TabType /\ t.id = i /\ t.path = d /\ IsWalk(t)
<1>1. PICK z \in Seq(Dirs) : z = <<>>
  BY EmptySeq
<1>2. t \in TabType /\ t.id = i /\ t.path = d /\ t.back = z /\ t.forward = z
  BY <1>1 DEF TabType
<1>3. PICK w : w = Through(z, d, z)
  OBVIOUS
<1>4. IsThrough(w, z, d, z)
  BY <1>3, WalkAt
<1>5. Len(z) = 0
  BY <1>1
<1>6. Len(w) = 1
  BY <1>4, <1>5 DEF IsThrough
<1>7. GoesOn(w)
  BY <1>6 DEF GoesOn
<1>8. Short(z, z)
  BY <1>5, PanesAssumption DEF Short
<1> QED
  BY <1>2, <1>3, <1>7, <1>8, TabFields DEF IsWalk

LEMMA AddTabStep ==
  ASSUME IInv, NEW p \in PaneIds, NEW d \in Dirs, AddTab(p, d) PROVE Good
<1>1. /\ RoomForTab /\ EnterPaneTab(p, d) /\ ClearSel(p) /\ active' = p /\ UNCHANGED calls
      /\ tabs' = [tabs EXCEPT ![p] = InsertAt(@, index[p] + 1, FreshTab(d))]
      /\ index' = [index EXCEPT ![p] = @ + 1]
  BY DEF AddTab
<1>2. TabsInv /\ CursorInv /\ CallsInv'
  BY <1>1, CallsStay DEF IInv
<1>3. PICK x : x = CHOOSE t \in TabIds : \A q \in PaneIds : \A i \in DOMAIN tabs[q] : tabs[q][i].id # t
  OBVIOUS
<1>4. x \in TabIds /\ \A q \in PaneIds : \A i \in DOMAIN tabs[q] : tabs[q][i].id # x
  <2>1. \E t \in TabIds : \A q \in PaneIds : \A i \in DOMAIN tabs[q] : tabs[q][i].id # t
    BY <1>1, <1>2, FreshId
  <2> QED
    BY <2>1, <1>3
<1>5. PICK e : e = FreshTab(d)
  OBVIOUS
<1>6. e = [id |-> x, path |-> d, back |-> <<>>, forward |-> <<>>]
  BY <1>3, <1>5 DEF FreshTab
<1>7. e \in TabType /\ e.id = x /\ e.path = d /\ IsWalk(e)
  BY <1>4, <1>6, NewTab
<1>8. /\ TabsInv' /\ Keeps /\ tabs'[p][index'[p]] = e
      /\ \A q \in PaneIds : q # p => tabs'[q] = tabs[q] /\ index'[q] = index[q]
  BY <1>1, <1>2, <1>4, <1>5, <1>7, TabsAdd
<1>9. Path(p)' = d /\ \A q \in PaneIds : q # p => Path(q)' = Path(q)
  BY <1>7, <1>8 DEF Path, Tab
<1>10. EnterPaneTab(p, Path(p)')
  BY <1>1, <1>9
<1>11. CursorInv' /\ NoShell
  BY <1>1, <1>2, <1>9, <1>10, Entering
<1> QED
  BY <1>2, <1>8, <1>11 DEF Good, IInv

\* The tab shown next: the one that was, or a neighbour of the one closed.
LEMMA CloseTabStep ==
  ASSUME IInv, NEW p \in PaneIds, NEW i \in DOMAIN tabs[p], CloseTab(p, i) PROVE Good
<1>1. PICK s, r, k, n : s = tabs[p] /\ r = RemoveAt(s, i) /\ k = index[p] /\ n = NextIndex(p, i)
  OBVIOUS
<1>2. /\ Len(s) > 1 /\ ClearSel(p) /\ UNCHANGED <<active, calls>>
      /\ tabs' = [tabs EXCEPT ![p] = RemoveAt(@, i)] /\ index' = [index EXCEPT ![p] = n]
      /\ i # k => UNCHANGED term
      /\ i = k => EnterPaneTab(p, r[IF i = 1 THEN 1 ELSE i - 1].path)
  BY <1>1 DEF CloseTab
<1>3. TabsInv /\ CursorInv /\ CallsInv'
  BY <1>2, CallsStay DEF IInv
<1>4. /\ s \in Seq(TabType) /\ Len(s) \in Nat
      /\ i \in 1 .. Len(s) /\ k \in 1 .. Len(s)
  BY <1>1, <1>3 DEF TabsInv
<1>5. IsRemoved(r, s, i)
  BY <1>1, <1>4, Removed
<1>6. /\ r \in Seq(TabType) /\ DOMAIN r = 1 .. Len(r) /\ Len(r) = Len(s) - 1
      /\ \A j \in 1 .. Len(r) : r[j] = IF j < i THEN s[j] ELSE s[j + 1]
  BY <1>5 DEF IsRemoved
<1>7. n = IF i = k THEN (IF i = 1 THEN 1 ELSE i - 1) ELSE IF i < k THEN k - 1 ELSE k
  BY <1>1 DEF NextIndex
<1>8. n \in 1 .. Len(r) /\ n \in Nat
  BY <1>2, <1>4, <1>6, <1>7
<1>9. i # k => r[n] = s[k]
  BY <1>4, <1>6, <1>7, <1>8
<1>10. /\ tabs'[p] = r /\ index'[p] = n
       /\ \A q \in PaneIds : q # p => tabs'[q] = tabs[q] /\ index'[q] = index[q]
  BY <1>1, <1>2, <1>3 DEF TabsInv
<1>11. index' \in [PaneIds -> Nat] /\ \A q \in PaneIds : index'[q] \in DOMAIN tabs'[q]
  BY <1>2, <1>3, <1>6, <1>8, <1>10 DEF TabsInv
<1>12. TabsInv' /\ Keeps
  BY <1>2, <1>3, <1>11, TabsClose
<1>13. Path(p)' = r[n].path /\ \A q \in PaneIds : q # p => Path(q)' = Path(q)
  BY <1>10 DEF Path, Tab
<1>14. active' \in PaneIds /\ term \in [PaneIds -> BOOLEAN]
  BY <1>2, <1>3 DEF CursorInv
<1>15. CASE i = k
  <2>1. EnterPaneTab(p, Path(p)')
    BY <1>2, <1>7, <1>13, <1>15
  <2>2. CursorInv' /\ NoShell
    BY <2>1, <1>2, <1>3, <1>13, <1>14, Entering
  <2> QED
    BY <2>2, <1>3, <1>12 DEF Good, IInv
<1>16. CASE i # k
  <2>1. Path(p)' = Path(p)
    BY <1>1, <1>9, <1>13, <1>16 DEF Path, Tab
  <2>2. NoShell
    BY <2>1, <1>13 DEF NoShell
  <2>3. term' \in [PaneIds -> BOOLEAN]
    BY <1>2, <1>14, <1>16
  <2>4. CursorInv'
    BY <2>3, <1>2, <1>3, <1>13, <1>14, CursorClears
  <2> QED
    BY <2>2, <2>4, <1>3, <1>12 DEF Good, IInv
<1> QED
  BY <1>15, <1>16

-----------------------------------------------------------------------------
(* Selection and cursor.                                                     *)

\* One pane's cursor moves within the rows shown.
LEMMA CursorOf ==
  ASSUME IInv, NEW p \in PaneIds, NEW S \in SUBSET Rows(Path(p)),
         NEW f \in Rows(Path(p)) \cup {Nowhere}, NEW a \in Seq(STRING),
         selection' = [selection EXCEPT ![p] = S], focus' = [focus EXCEPT ![p] = f],
         anchor' = [anchor EXCEPT ![p] = a],
         UNCHANGED <<tabs, index, term, calls>>, active' \in PaneIds
  PROVE  Good
<1>1. TabsInv /\ CursorInv /\ CallsInv'
  BY CallsStay DEF IInv
<1>2. Rows(Path(p)) \subseteq Seq(STRING) /\ Nowhere \in Seq(STRING)
  BY <1>1, ShownTab DEF Nowhere
<1>3. S \in SUBSET Seq(STRING) /\ f \in Seq(STRING)
  BY <1>2
<1>4. /\ selection' \in [PaneIds -> SUBSET Seq(STRING)]
      /\ focus' \in [PaneIds -> Seq(STRING)] /\ anchor' \in [PaneIds -> Seq(STRING)]
      /\ term' \in [PaneIds -> BOOLEAN]
  BY <1>1, <1>3 DEF CursorInv
<1>5. selection'[p] = S /\ focus'[p] = f
  BY <1>1 DEF CursorInv
<1>6. ASSUME NEW q \in PaneIds
      PROVE  selection'[q] \cup ({focus'[q]} \ {Nowhere}) \subseteq Rows(Path(q))
  <2>1. CASE q = p
    BY <2>1, <1>5
  <2>2. CASE q # p
    <3>1. selection'[q] = selection[q] /\ focus'[q] = focus[q] /\ InView(q)
      BY <2>2, <1>1 DEF CursorInv
    <3> QED
      BY <3>1 DEF InView
  <2> QED
    BY <2>1, <2>2
<1> QED
  BY <1>1, <1>4, <1>6, CursorStep

\* The cursor of a pane, as it is.
LEMMA CursorIs ==
  ASSUME IInv, NEW p \in PaneIds
  PROVE  /\ selection[p] \in SUBSET Rows(Path(p)) /\ focus[p] \in Rows(Path(p)) \cup {Nowhere}
         /\ anchor[p] \in Seq(STRING)
         /\ selection = [selection EXCEPT ![p] = selection[p]]
         /\ focus = [focus EXCEPT ![p] = focus[p]] /\ anchor = [anchor EXCEPT ![p] = anchor[p]]
<1>1. InView(p)
  BY DEF IInv, CursorInv
<1>2. /\ selection \in [PaneIds -> SUBSET Seq(STRING)]
      /\ focus \in [PaneIds -> Seq(STRING)] /\ anchor \in [PaneIds -> Seq(STRING)]
  BY DEF IInv, CursorInv
<1>3. selection[p] \in SUBSET Rows(Path(p)) /\ focus[p] \in Rows(Path(p)) \cup {Nowhere}
  BY <1>1 DEF InView
<1> QED
  BY <1>2, <1>3

\* A row of the folder shown, alone, and the rows of a range.
LEMMA RowsShown ==
  ASSUME IInv, NEW p \in PaneIds, NEW r \in Rows(Path(p))
  PROVE  /\ r \in Seq(STRING) /\ Real({r}) \in SUBSET Rows(Path(p))
         /\ Real(RangeTo(p, r)) \in SUBSET Rows(Path(p))
<1>1. Rows(Path(p)) \subseteq Seq(STRING)
  BY ShownTab DEF IInv
<1>2. Real({r}) \in SUBSET Rows(Path(p))
  BY DEF Real
<1>3. RangeTo(p, r) \subseteq Rows(Path(p))
  BY DEF RangeTo, Rows, Range
<1>4. Real(RangeTo(p, r)) \in SUBSET Rows(Path(p))
  BY <1>3 DEF Real
<1> QED
  BY <1>1, <1>2, <1>4

LEMMA ClickStep ==
  ASSUME IInv, NEW p \in PaneIds, NEW r \in Rows(Path(p)), Click(p, r) PROVE Good
BY RowsShown, CursorOf DEF Click, SetFocus

\* A row ticked or unticked is a row of the folder.
LEMMA Ticking ==
  ASSUME IInv, NEW p \in PaneIds, NEW r \in Rows(Path(p)), ToggleMulti(p, r)
  PROVE  \E S \in SUBSET Rows(Path(p)) : selection' = [selection EXCEPT ![p] = S]
<1>1. selection[p] \in SUBSET Rows(Path(p)) /\ selection = [selection EXCEPT ![p] = selection[p]]
  BY CursorIs
<1>2. CASE IsParentEntry(r)
  BY <1>1, <1>2 DEF ToggleMulti
<1>3. CASE ~IsParentEntry(r)
  <2>1. PICK S : S = IF r \in selection[p] THEN selection[p] \ {r} ELSE selection[p] \cup {r}
    OBVIOUS
  <2>2. S \in SUBSET Rows(Path(p))
    BY <2>1, <1>1
  <2>3. selection' = [selection EXCEPT ![p] = S]
    BY <2>1, <1>3 DEF ToggleMulti
  <2> QED
    BY <2>2, <2>3
<1> QED
  BY <1>2, <1>3

LEMMA CtrlClickStep ==
  ASSUME IInv, NEW p \in PaneIds, NEW r \in Rows(Path(p)), CtrlClick(p, r) PROVE Good
<1>1. PICK S \in SUBSET Rows(Path(p)) : selection' = [selection EXCEPT ![p] = S]
  BY Ticking DEF CtrlClick
<1> QED
  BY <1>1, RowsShown, CursorOf DEF CtrlClick, SetFocus

LEMMA ShiftClickStep ==
  ASSUME IInv, NEW p \in PaneIds, NEW r \in Rows(Path(p)), ShiftClick(p, r) PROVE Good
BY RowsShown, CursorIs, CursorOf DEF ShiftClick, SelectRange

LEMMA RightClickStep ==
  ASSUME IInv, NEW p \in PaneIds, NEW r \in Rows(Path(p)), RightClick(p, r) PROVE Good
<1>1. \E S \in SUBSET Rows(Path(p)) : selection' = [selection EXCEPT ![p] = S]
  BY RowsShown, CursorIs DEF RightClick
<1>2. PICK S \in SUBSET Rows(Path(p)) : selection' = [selection EXCEPT ![p] = S]
  BY <1>1
<1> QED
  BY <1>2, RowsShown, CursorOf DEF RightClick, SetFocus

LEMMA MoveFocusStep ==
  ASSUME IInv, NEW r \in Rows(Path(active)), NEW extend \in BOOLEAN, MoveFocus(r, extend)
  PROVE  Good
<1>1. active \in PaneIds
  BY Now
<1>2. UNCHANGED <<tabs, index, active, term, calls>>
  BY DEF MoveFocus
<1>3. /\ \E S \in SUBSET Rows(Path(active)) : selection' = [selection EXCEPT ![active] = S]
      /\ focus' = [focus EXCEPT ![active] = r]
      /\ \E a \in Seq(STRING) : anchor' = [anchor EXCEPT ![active] = a]
  <2>1. CASE extend
    <3>1. SelectRange(active, r) /\ UNCHANGED anchor
      BY <2>1 DEF MoveFocus
    <3> QED
      BY <3>1, <1>1, RowsShown, CursorIs DEF SelectRange
  <2>2. CASE ~extend
    <3>1. SetFocus(active, r) /\ UNCHANGED selection
      BY <2>2 DEF MoveFocus
    <3> QED
      BY <3>1, <1>1, RowsShown, CursorIs DEF SetFocus
  <2> QED
    BY <2>1, <2>2
<1>4. PICK S \in SUBSET Rows(Path(active)) : selection' = [selection EXCEPT ![active] = S]
  BY <1>3
<1>5. PICK a \in Seq(STRING) : anchor' = [anchor EXCEPT ![active] = a]
  BY <1>3
<1> QED
  BY <1>1, <1>2, <1>3, <1>4, <1>5, CursorOf

LEMMA SpaceStep == ASSUME IInv, Space PROVE Good
<1>1. active \in PaneIds /\ focus[active] \in Rows(Path(active))
  BY Now, CursorIs DEF Space
<1>2. PICK S \in SUBSET Rows(Path(active)) : selection' = [selection EXCEPT ![active] = S]
  BY <1>1, Ticking DEF Space
<1> QED
  BY <1>1, <1>2, CursorIs, CursorOf DEF Space

LEMMA SelectAllStep == ASSUME IInv, SelectAll PROVE Good
<1>1. active \in PaneIds
  BY Now
<1>2. PICK S \in SUBSET Rows(Path(active)) : selection' = [selection EXCEPT ![active] = S]
  BY DEF SelectAll
<1> QED
  BY <1>1, <1>2, CursorIs, CursorOf DEF SelectAll

LEMMA EscapeStep == ASSUME IInv, Escape PROVE Good
<1>1. active \in PaneIds
  BY Now
<1>2. PICK S \in SUBSET Rows(Path(active)) : selection' = [selection EXCEPT ![active] = S]
  BY DEF Escape
<1>3. UNCHANGED <<tabs, index, focus, anchor, active, term, calls>>
  BY DEF Escape
<1>4. PICK f, a : f = focus[active] /\ a = anchor[active]
  OBVIOUS
<1>5. /\ f \in Rows(Path(active)) \cup {Nowhere} /\ a \in Seq(STRING)
      /\ focus' = [focus EXCEPT ![active] = f] /\ anchor' = [anchor EXCEPT ![active] = a]
  BY <1>1, <1>3, <1>4, CursorIs
<1> QED
  BY <1>1, <1>2, <1>3, <1>5, CursorOf

LEMMA SwitchPaneStep == ASSUME IInv, SwitchPane PROVE Good
BY Now, StoreStep, CallsStay DEF SwitchPane, IInv, CursorInv

LEMMA ToggleTerminalStep ==
  ASSUME IInv, NEW p \in PaneIds, ToggleTerminal(p) PROVE Good
<1>1. term' \in [PaneIds -> BOOLEAN] /\ CallsInv'
  BY CallsStay DEF ToggleTerminal, IInv, CursorInv
<1> QED
  BY <1>1, StoreStep DEF ToggleTerminal

\* The panes trade all but their terminals.
LEMMA SwapStep == ASSUME IInv, Swap PROVE Good
<1>1. /\ tabs' = [p \in PaneIds |-> tabs[Other(p)]]
      /\ index' = [p \in PaneIds |-> index[Other(p)]]
      /\ selection' = [p \in PaneIds |-> selection[Other(p)]]
      /\ focus' = [p \in PaneIds |-> focus[Other(p)]]
      /\ anchor' = [p \in PaneIds |-> anchor[Other(p)]]
      /\ active' = Other(active) /\ UNCHANGED <<term, calls>>
  BY DEF Swap
<1>2. TabsInv /\ CursorInv /\ CallsInv'
  BY <1>1, CallsStay DEF IInv
<1>3. \A p \in PaneIds : Other(p) \in PaneIds
  BY DEF Other, PaneIds
<1>4. TabsInv' /\ Keeps
  BY <1>1, <1>2, TabsSwap
<1>5. ASSUME NEW p \in PaneIds
      PROVE  /\ Path(p)' = Path(Other(p))
             /\ selection'[p] = selection[Other(p)] /\ focus'[p] = focus[Other(p)]
  BY <1>1 DEF Path, Tab
<1>6. /\ selection' \in [PaneIds -> SUBSET Seq(STRING)]
      /\ focus' \in [PaneIds -> Seq(STRING)] /\ anchor' \in [PaneIds -> Seq(STRING)]
      /\ term' \in [PaneIds -> BOOLEAN] /\ active' \in PaneIds
  BY <1>1, <1>2, <1>3 DEF CursorInv
<1>7. ASSUME NEW p \in PaneIds PROVE InView(p)'
  <2>1. InView(Other(p))
    BY <1>2, <1>3 DEF CursorInv
  <2> QED
    BY <2>1, <1>5 DEF InView, Nowhere
<1>8. Swapped
  BY <1>5 DEF Swapped, Other, PaneIds
<1> QED
  BY <1>2, <1>4, <1>6, <1>7, <1>8 DEF Good, IInv, CursorInv, NoShell

-----------------------------------------------------------------------------
(* Transfers that end.                                                       *)

\* A call in flight names a pane and a directory.
LEMMA CallFields ==
  ASSUME IInv, NEW c \in calls PROVE c.pane \in PaneIds /\ c.dir \in Dirs
BY DEF IInv, CallsInv, CallType

LEMMA DropStep ==
  ASSUME IInv, NEW p \in PaneIds, NEW q \in PaneIds, NEW d \in Dirs, NEW r, Drop(p, r, q, d)
  PROVE  Good
<1>1. Path(q) \in Dirs /\ active \in PaneIds
  BY Now
<1>2. [kind |-> "drop", pane |-> q, dir |-> d, shown |-> Path(q)] \in CallType
  BY <1>1 DEF CallType
<1>3. CallsInv'
  BY <1>2, CallAdded DEF Drop, IInv
<1> QED
  BY <1>1, <1>3, StoreStep DEF Drop, store, IInv, CursorInv

LEMMA DropExternalStep ==
  ASSUME IInv, NEW q \in PaneIds, NEW d \in Dirs, DropExternal(q, d) PROVE Good
<1>1. [kind |-> "external", pane |-> q, dir |-> d] \in CallType
  BY DEF CallType
<1>2. CallsInv'
  BY <1>1, CallAdded DEF DropExternal, IInv
<1> QED
  BY <1>2, StoreStep DEF DropExternal, store, IInv, CursorInv

LEMMA DroppedStep == ASSUME IInv, NEW c \in calls, Dropped(c) PROVE Good
<1>1. c.pane \in PaneIds /\ c.dir \in Dirs
  BY CallFields
<1>2. PICK d : d = [kind |-> "exists", pane |-> c.pane, dir |-> c.dir]
  OBVIOUS
<1>3. d \in CallType
  BY <1>1, <1>2 DEF CallType
<1>4. CallsInv'
  <2>1. CASE c.dir = c.shown
    BY <2>1, CallTaken DEF Dropped, IInv
  <2>2. CASE c.dir # c.shown
    <3>1. calls' = (calls \ {c}) \cup {d}
      BY <2>2, <1>2 DEF Dropped
    <3> QED
      BY <3>1, <1>3, CallReplaced DEF IInv
  <2> QED
    BY <2>1, <2>2
<1>5. /\ selection' = [p \in PaneIds |-> {}] /\ active' = c.pane
      /\ UNCHANGED <<tabs, index, focus, anchor, term>>
  BY DEF Dropped
<1>6. /\ selection' \in [PaneIds -> SUBSET Seq(STRING)] /\ active' \in PaneIds
      /\ focus' \in [PaneIds -> Seq(STRING)] /\ anchor' \in [PaneIds -> Seq(STRING)]
      /\ term' \in [PaneIds -> BOOLEAN]
  BY <1>1, <1>5 DEF IInv, CursorInv
<1>7. \A p \in PaneIds : selection'[p] \cup ({focus'[p]} \ {Nowhere}) \subseteq Rows(Path(p))
  BY <1>5 DEF IInv, CursorInv, InView
<1> QED
  BY <1>4, <1>5, <1>6, <1>7, CursorStep

LEMMA DroppedExternalStep == ASSUME IInv, NEW c \in calls, DroppedExternal(c) PROVE Good
<1>1. c.pane \in PaneIds /\ c.dir \in Dirs
  BY CallFields
<1>2. CallsInv' /\ active' \in PaneIds
  BY <1>1, CallTaken DEF DroppedExternal, IInv
<1>3. CASE c.dir = Path(c.pane)
  BY <1>2, <1>3, StoreStep DEF DroppedExternal, IInv, CursorInv
<1>4. CASE c.dir # Path(c.pane)
  BY <1>1, <1>2, <1>4, Arrives DEF DroppedExternal
<1> QED
  BY <1>3, <1>4

LEMMA TransferFailsStep == ASSUME IInv, NEW c \in calls, TransferFails(c) PROVE Good
<1>1. CallsInv'
  BY CallTaken DEF TransferFails, IInv
<1> QED
  BY <1>1, StoreStep DEF TransferFails, store, IInv, CursorInv

\* The file is a row of the folder the pane is taken to, which is not remote.
LEMMA RevealFileStep == ASSUME IInv, NEW r, RevealFile(r) PROVE Good
<1>1. PICK p, d : p = active /\ d = Front(r)
  OBVIOUS
<1>2. /\ d \in Dirs /\ d \notin Remote /\ r \in Rows(d)
      /\ tabs' = IF Path(p) = d THEN tabs
                 ELSE [tabs EXCEPT ![p][index[p]] = GoesTo(Tab(p), d)]
      /\ selection' = [selection EXCEPT ![p] = Real({r})]
      /\ focus' = [focus EXCEPT ![p] = r] /\ anchor' = [anchor EXCEPT ![p] = r]
      /\ UNCHANGED <<index, active, term, calls>>
  BY <1>1 DEF RevealFile, SetFocus
<1>3. TabsInv /\ CursorInv /\ CallsInv' /\ p \in PaneIds
  BY <1>1, <1>2, Now, CallsStay DEF IInv
<1>4. /\ TabsInv' /\ Keeps /\ Path(p)' = d
      /\ \A q \in PaneIds : q # p => Path(q)' = Path(q)
  <2>1. CASE Path(p) = d
    <3>1. UNCHANGED <<tabs, index>>
      BY <2>1, <1>2
    <3> QED
      BY <3>1, <2>1, <1>3, TabsAlone DEF SamePaths
  <2>2. CASE Path(p) # d
    <3>1. PICK u : u = GoesTo(Tab(p), d)
      OBVIOUS
    <3>2. Tab(p) \in TabType /\ IsWalk(Tab(p)) /\ d # Tab(p).path
      BY <2>2, <1>3, ShownTab DEF Path
    <3>3. Moves(Tab(p), u) /\ u.path = d
      BY <3>1, <3>2, <1>2, Going
    <3>4. tabs' = [tabs EXCEPT ![p][index[p]] = u] /\ UNCHANGED index
      BY <2>2, <3>1, <1>2
    <3> QED
      BY <3>3, <3>4, <1>3, MoveOne
  <2> QED
    BY <2>1, <2>2
<1>5. r \in Seq(STRING) /\ Real({r}) \in SUBSET Seq(STRING) /\ Real({r}) \subseteq {r}
  BY <1>2, RowsAreRows DEF Real
<1>6. /\ selection' \in [PaneIds -> SUBSET Seq(STRING)]
      /\ focus' \in [PaneIds -> Seq(STRING)] /\ anchor' \in [PaneIds -> Seq(STRING)]
      /\ term' \in [PaneIds -> BOOLEAN] /\ active' \in PaneIds
  BY <1>2, <1>3, <1>5 DEF CursorInv
<1>7. ASSUME NEW q \in PaneIds PROVE InView(q)'
  <2>1. CASE q = p
    <3>1. selection'[q] \subseteq {r} /\ focus'[q] = r /\ Path(q)' = d
      BY <2>1, <1>2, <1>3, <1>4, <1>5 DEF CursorInv
    <3> QED
      BY <3>1, <1>2 DEF InView, Nowhere, Rows
  <2>2. CASE q # p
    <3>1. selection'[q] = selection[q] /\ focus'[q] = focus[q] /\ Path(q)' = Path(q) /\ InView(q)
      BY <2>2, <1>2, <1>3, <1>4 DEF CursorInv
    <3> QED
      BY <3>1 DEF InView, Nowhere
  <2> QED
    BY <2>1, <2>2
<1>8. NoShell
  BY <1>2, <1>4 DEF NoShell
<1> QED
  BY <1>3, <1>4, <1>6, <1>7, <1>8 DEF Good, IInv, CursorInv

-----------------------------------------------------------------------------
(* The start, every step, and what they come to.                             *)

LEMMA Restoring ==
  ASSUME NEW p \in PaneIds
  PROVE  Restored(p) \in Seq(Dirs) /\ Restored(p) # <<>>
BY PanesAssumption DEF Restored

\* The tabs a pane starts with, none of which went anywhere.
FirstTab(p, i) == [id |-> BootId[p][i], path |-> Restored(p)[i], back |-> <<>>, forward |-> <<>>]

LEMMA FirstTabs ==
  ASSUME NEW p \in PaneIds
  PROVE  /\ [i \in DOMAIN Restored(p) |-> FirstTab(p, i)] \in Seq(TabType)
         /\ \A i \in DOMAIN Restored(p) :
              FirstTab(p, i) \in TabType /\ FirstTab(p, i).id = BootId[p][i] /\ IsWalk(FirstTab(p, i))
<1>1. PICK s : s = Restored(p)
  OBVIOUS
<1>2. s \in Seq(Dirs)
  BY <1>1, Restoring
<1>3. PICK n \in Nat : n = Len(s) /\ DOMAIN s = 1 .. n
  BY <1>2
<1>4. ASSUME NEW i \in DOMAIN s
      PROVE  FirstTab(p, i) \in TabType /\ FirstTab(p, i).id = BootId[p][i] /\ IsWalk(FirstTab(p, i))
  <2>1. BootId[p][i] \in TabIds /\ s[i] \in Dirs
    BY <1>1, <1>2, BootAssumption
  <2>2. PICK x, d, t : x = BootId[p][i] /\ d = s[i] /\ t = FirstTab(p, i)
    OBVIOUS
  <2>3. t = [id |-> x, path |-> d, back |-> <<>>, forward |-> <<>>] /\ x \in TabIds /\ d \in Dirs
    BY <2>1, <2>2, <1>1 DEF FirstTab
  <2> QED
    BY <2>2, <2>3, NewTab
<1>5. PICK f : f = [i \in 1 .. n |-> FirstTab(p, i)]
  OBVIOUS
<1>6. f \in [1 .. n -> TabType]
  BY <1>3, <1>4, <1>5
<1>7. f \in Seq(TabType)
  BY <1>6, SeqDef
<1> QED
  BY <1>1, <1>3, <1>4, <1>5, <1>7

LEMMA InitIInv == Init => IInv
<1> SUFFICES ASSUME Init PROVE IInv
  OBVIOUS
<1>1. /\ tabs = [p \in PaneIds |-> [i \in DOMAIN Restored(p) |-> FirstTab(p, i)]]
      /\ index = [p \in PaneIds |-> Clamp(SavedActive[p], Len(Restored(p)))]
  BY DEF Init, FirstTab
<1>2. tabs \in [PaneIds -> Seq(TabType)]
  BY <1>1, FirstTabs
<1>3. ASSUME NEW p \in PaneIds
      PROVE  DOMAIN tabs[p] = DOMAIN Restored(p) /\ \A i \in DOMAIN tabs[p] : tabs[p][i] = FirstTab(p, i)
  BY <1>1
<1>4. \A p \in PaneIds : \A i \in DOMAIN tabs[p] : IsWalk(tabs[p][i]) /\ tabs[p][i].id = BootId[p][i]
  BY <1>3, FirstTabs
<1>5. IdsDiffer
  BY <1>3, <1>4, BootAssumption DEF IdsDiffer
<1>6. ASSUME NEW p \in PaneIds PROVE index[p] \in Nat /\ index[p] \in DOMAIN tabs[p]
  <2>1. PICK s : s = Restored(p)
    OBVIOUS
  <2>2. s \in Seq(Dirs) /\ s # <<>>
    BY <2>1, Restoring
  <2>3. Len(s) \in Nat \ {0} /\ DOMAIN s = 1 .. Len(s)
    BY <2>2, EmptySeq
  <2>4. SavedActive[p] \in Int
    BY PanesAssumption
  <2>5. index[p] = Clamp(SavedActive[p], Len(s))
    BY <2>1, <1>1
  <2>6. index[p] \in 1 .. Len(s)
    BY <2>3, <2>4, <2>5 DEF Clamp
  <2> QED
    BY <2>1, <2>3, <2>6, <1>3
<1>7. index \in [PaneIds -> Nat]
  BY <1>1, <1>6
<1>8. TabsInv
  BY <1>2, <1>4, <1>5, <1>6, <1>7 DEF TabsInv
<1>9. CursorInv
  BY DEF Init, CursorInv, InView, Nowhere, PaneIds
<1>10. CallsInv
  BY FS_EmptySet, PanesAssumption DEF Init, CallsInv
<1> QED
  BY <1>8, <1>9, <1>10 DEF IInv

LEMMA NavigationStep == ASSUME IInv, Navigation PROVE Good
<1>1. CASE \E p \in PaneIds : GoUp(p)
  BY <1>1, GoUpStep
<1>2. CASE ToolbarUp \/ OpenRow
  BY <1>2, ToolbarUpStep, OpenRowStep
<1>3. CASE GoBack \/ GoForward
  BY <1>3, GoBackStep, GoForwardStep
<1>4. CASE \E p \in PaneIds, d \in Dirs : PathBar(p, d)
  BY <1>4, PathBarStep
<1>5. CASE \E d \in Dirs : GoDirect(d) \/ Unmounted(d)
  BY <1>5, GoDirectStep, UnmountedStep
<1>6. CASE SameDir
  BY <1>6, SameDirStep
<1>7. CASE \E c \in calls : Answer(c)
  BY <1>7, AnswerStep
<1> QED
  BY <1>1, <1>2, <1>3, <1>4, <1>5, <1>6, <1>7 DEF Navigation

LEMMA TabStripStep == ASSUME IInv, TabStrip PROVE Good
<1>1. PICK p \in PaneIds :
        \/ \E i \in DOMAIN tabs[p] : SelectTab(p, i) \/ CloseTab(p, i)
        \/ \E d \in Dirs : AddTab(p, d)
  BY DEF TabStrip
<1> QED
  BY <1>1, SelectTabStep, CloseTabStep, AddTabStep

LEMMA SelectingStep == ASSUME IInv, Selecting PROVE Good
<1>1. CASE \E p \in PaneIds : \E r \in Rows(Path(p)) :
             Click(p, r) \/ CtrlClick(p, r) \/ ShiftClick(p, r) \/ RightClick(p, r)
  BY <1>1, ClickStep, CtrlClickStep, ShiftClickStep, RightClickStep
<1>2. CASE \E r \in Rows(Path(active)), extend \in BOOLEAN : MoveFocus(r, extend)
  BY <1>2, MoveFocusStep
<1>3. CASE Space \/ SelectAll \/ Escape \/ SwitchPane \/ Swap
  BY <1>3, SpaceStep, SelectAllStep, EscapeStep, SwitchPaneStep, SwapStep
<1>4. CASE \E p \in PaneIds : ToggleTerminal(p)
  BY <1>4, ToggleTerminalStep
<1> QED
  BY <1>1, <1>2, <1>3, <1>4 DEF Selecting

LEMMA TransfersStep == ASSUME IInv, Transfers PROVE Good
<1>1. CASE \E p, q \in PaneIds, d \in Dirs : \E r \in Rows(Path(p)) : Drop(p, r, q, d)
  BY <1>1, DropStep
<1>2. CASE \E q \in PaneIds, d \in Dirs : DropExternal(q, d)
  BY <1>2, DropExternalStep
<1>3. CASE \E c \in calls : Dropped(c) \/ DroppedExternal(c) \/ TransferFails(c)
  BY <1>3, DroppedStep, DroppedExternalStep, TransferFailsStep
<1>4. CASE \E d \in Dirs : \E r \in Rows(d) : RevealFile(r)
  BY <1>4, RevealFileStep
<1> QED
  BY <1>1, <1>2, <1>3, <1>4 DEF Transfers

LEMMA NextGood == ASSUME IInv, Next PROVE Good
BY NavigationStep, TabStripStep, SelectingStep, TransfersStep DEF Next

LEMMA StepIInv == IInv /\ [Next]_vars => IInv'
<1> SUFFICES ASSUME IInv, [Next]_vars PROVE IInv'
  OBVIOUS
<1>1. CASE Next
  BY <1>1, NextGood DEF Good
<1>2. CASE UNCHANGED vars
  <2>1. UNCHANGED <<tabs, index, selection, focus, anchor, active, term, calls>>
    BY <1>2 DEF vars, store
  <2>2. CallsInv' /\ active' \in PaneIds /\ term' \in [PaneIds -> BOOLEAN]
    BY <2>1, CallsStay DEF IInv, CursorInv
  <2> QED
    BY <2>1, <2>2, StoreStep DEF Good
<1> QED
  BY <1>1, <1>2

\* Every state keeps the invariant the theorems rest on.
THEOREM Inductive == Spec => []IInv
BY InitIInv, StepIInv, PTL DEF Spec

\* Every pane shows one of its tabs and its cursor is made of paths, whatever
\* is saved, restored, swapped, dropped or answered late.
THEOREM TypeCorrect == Spec => []TypeOK
<1>1. IInv => TypeOK
  BY DEF IInv, TabsInv, CursorInv, CallsInv, TypeOK
<1> QED
  BY <1>1, Inductive, PTL

\* What copy, move, delete and archive would act on are rows of the folder the
\* pane shows (paneStore.ts:227, :91).
THEOREM TargetsAreInView == Spec => []TargetsInView
<1>1. IInv => TargetsInView
  BY DEF IInv, CursorInv, InView, TargetsInView, ActionPaths, Real
<1> QED
  BY <1>1, Inductive, PTL

LEMMA Opened ==
  ASSUME NEW t, t \in OpenTabs
  PROVE  \E p \in PaneIds : \E i \in DOMAIN tabs[p] : t = tabs[p][i]
BY DEF OpenTabs, Range

\* A walk the cap of both stacks together allows is within each.
LEMMA WalksHold == TabsInv => HistoryIsAWalk
<1> SUFFICES ASSUME TabsInv, NEW t \in OpenTabs
             PROVE  /\ Len(t.back) <= MaxHistory /\ Len(t.forward) <= MaxHistory
                    /\ \A i \in 1 .. Len(Walk(t)) - 1 : Walk(t)[i] # Walk(t)[i + 1]
  BY DEF HistoryIsAWalk
<1>1. t \in TabType /\ IsWalk(t)
  BY Opened DEF TabsInv
<1>2. PICK b, f : b = t.back /\ f = t.forward
  OBVIOUS
<1>3. b \in Seq(Dirs) /\ f \in Seq(Dirs) /\ Len(b) + Len(f) <= MaxHistory
  BY <1>1, <1>2, TabFields DEF IsWalk, Short
<1>4. Len(b) <= MaxHistory /\ Len(f) <= MaxHistory
  BY <1>3, PanesAssumption
<1> QED
  BY <1>1, <1>2, <1>4 DEF IsWalk, GoesOn

\* Back and forward lose nothing: the walk of a tab is the one it had, or what
\* led to the folder it leaves and the new one (paneStore.ts:13, :139).
THEOREM HistoryKept == Spec => HistoryIsKept
<1> DEFINE Kept == \A t \in OpenTabs : \A u \in OpenTabs' :
                     t.id = u.id => Walk(u) = Walk(t) \/ Extends(t, u)
<1>1. ASSUME IInv, Next PROVE Kept
  <2>1. Keeps
    BY <1>1, NextGood DEF Good
  <2>2. ASSUME NEW t \in OpenTabs, NEW u \in OpenTabs', t.id = u.id
        PROVE  Walk(u) = Walk(t) \/ Extends(t, u)
    <3>1. PICK p \in PaneIds : \E i \in DOMAIN tabs[p] : t = tabs[p][i]
      BY Opened
    <3>2. PICK q \in PaneIds : \E j \in DOMAIN tabs'[q] : u = tabs'[q][j]
      BY DEF OpenTabs, Range
    <3> QED
      BY <3>1, <3>2, <2>1, <2>2 DEF Keeps, Follows
  <2> QED
    BY <2>2
<1>2. IInv /\ [Next]_vars => [Kept]_vars
  BY <1>1
<1>3. IInv => HistoryIsAWalk
  BY WalksHold DEF IInv
<1> QED
  BY <1>2, <1>3, Inductive, PTL DEF Spec, HistoryIsKept

\* No way into a remote directory leaves a terminal open on it, but the swap
\* that trades the panes and not their terminals (file-pane/helpers.ts:18).
THEOREM NoShellFollows == Spec => RemoteEntryHasNoShell
<1>1. IInv /\ [Next]_vars => [NoShell]_vars
  BY NextGood DEF Good
<1> QED
  BY <1>1, Inductive, PTL DEF Spec, RemoteEntryHasNoShell, NoShell
=============================================================================
