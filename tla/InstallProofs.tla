---------------------------- MODULE InstallProofs ----------------------------
(***************************************************************************)
(* Proofs about PamInstall, for every set of stacks an administrator may   *)
(* write.  What the edit of a stack computes is proved by induction on the *)
(* turns of its loop; the files and the commands by an invariant.          *)
(***************************************************************************)
EXTENDS PamInstall, FiniteSetTheorems, SequenceTheorems, TLAPS

-----------------------------------------------------------------------------
(* Induction, from the fact that strict inclusion of finite sets is well     *)
(* founded: the numbers below the elements of a set are such sets.           *)

\* A set of natural numbers has a least element.
LEMMA LeastNat ==
    ASSUME NEW S \in SUBSET Nat, S # {}
    PROVE  \E m \in S : \A k \in S : m <= k
<1> DEFINE below(n) == 0..n-1
           T == {below(n) : n \in S}
<1>1. T \subseteq FiniteSubsetsOf(Nat)
  <2>1. \A n \in S : IsFiniteSet(below(n))
    BY FS_Interval
  <2>2. \A n \in S : below(n) \in SUBSET Nat
    OBVIOUS
  <2> HIDE DEF below
  <2>. QED BY <2>1, <2>2 DEF FiniteSubsetsOf
<1>2. T # {}
  OBVIOUS
<1>3. IsWellFoundedOn(StrictSubsetOrdering(Nat), FiniteSubsetsOf(Nat))
  BY FS_StrictSubsetOrderingWellFounded
<1> HIDE DEF T
<1>4. PICK x \in T : \A y \in T : ~(<<y, x>> \in StrictSubsetOrdering(Nat))
  BY <1>1, <1>2, <1>3, WFMin
<1>5. PICK m \in S : x = below(m)
  BY DEF T
<1>6. ASSUME NEW k \in S, k < m PROVE FALSE
  <2>1. below(k) \in T
    BY DEF T
  <2>2. below(k) \subseteq below(m)
    BY <1>6
  <2>3. below(k) # below(m)
    <3>1. k \in below(m) /\ k \notin below(k)
      BY <1>6
    <3>. QED BY <3>1
  <2>4. <<below(k), below(m)>> \in StrictSubsetOrdering(Nat)
    BY <2>2, <2>3 DEF StrictSubsetOrdering
  <2>. QED BY <2>1, <2>4, <1>4, <1>5
<1>. QED BY <1>6

\* A set of numbers that holds 0 and with every number the next holds them all.
LEMMA Induction ==
    ASSUME NEW S \in SUBSET Nat, 0 \in S, \A n \in S : n + 1 \in S
    PROVE  S = Nat
<1>1. SUFFICES ASSUME Nat \ S # {} PROVE FALSE
  OBVIOUS
<1>2. PICK m \in Nat \ S : \A k \in Nat \ S : m <= k
  BY <1>1, LeastNat
<1>3. m # 0
  BY <1>2
<1>4. m - 1 \in Nat
  BY <1>2, <1>3
<1>5. m - 1 \in S
  BY <1>2, <1>4
<1>. QED BY <1>2, <1>5

\* Min of a set of positions.
LEMMA MinOfPositions ==
    ASSUME NEW S \in SUBSET Nat, S # {}
    PROVE  /\ Min(S) \in S
           /\ \A x \in S : Min(S) <= x
<1>1. \E m \in S : \A k \in S : m <= k
  BY LeastNat
<1>. QED BY <1>1 DEF Min

\* Max of a set of positions.
LEMMA MaxOfPositions ==
    ASSUME NEW n \in Nat, NEW S \in SUBSET (1..n), S # {}
    PROVE  /\ Max(S) \in S
           /\ \A x \in S : x <= Max(S)
<1> DEFINE T == {n - x : x \in S}
<1>1. T \in SUBSET Nat /\ T # {}
  <2>1. \A x \in S : n - x \in Nat
    OBVIOUS
  <2>. QED BY <2>1
<1>2. PICK m \in T : \A k \in T : m <= k
  BY <1>1, LeastNat
<1>3. PICK x \in S : m = n - x
  OBVIOUS
<1>4. \A y \in S : y <= x
  <2>1. TAKE y \in S
  <2>2. n - y \in T
    OBVIOUS
  <2>3. n - x <= n - y
    BY <1>2, <1>3, <2>2
  <2>. QED BY <2>3
<1>. QED BY <1>4 DEF Max

-----------------------------------------------------------------------------
(* The removal of the blocks of a stack. *)

\* The recursive definition has a value: the stacks after each turn of the loop.
LEMMA Turns ==
    ASSUME NEW s
    PROVE  \E r : /\ r[0] = s
                  /\ \A n \in Nat : r[n + 1] = RemoveFirstBlock(r[n])
                  /\ RemoveBlock(s) = r[Len(s)]
<1> DEFINE Upto(g, k) ==
              /\ g[0] = s
              /\ \A n \in 1..k : g[n] = RemoveFirstBlock(g[n - 1])
           S == {k \in Nat : \E g : Upto(g, k)}
           Chosen(k) == CHOOSE g : Upto(g, k)
           f == [k \in Nat |-> Chosen(k)[k]]
           Next1(g) == [n \in Nat |-> IF n = 0 THEN s
                                      ELSE RemoveFirstBlock(g[n - 1])]
<1>1. \A k \in Nat : \E g : Upto(g, k)
  <2>1. 0 \in S
    <3>1. Upto([n \in Nat |-> s], 0)
      OBVIOUS
    <3>. QED BY <3>1
  <2>2. ASSUME NEW k \in S PROVE k + 1 \in S
    <3>1. PICK g : Upto(g, k)
      OBVIOUS
    <3> DEFINE h == [n \in Nat |-> IF n <= k THEN g[n]
                                   ELSE RemoveFirstBlock(g[k])]
    <3>2. Upto(h, k + 1)
      BY <3>1
    <3> HIDE DEF h, Upto
    <3>. QED BY <3>2
  <2> HIDE DEF Upto
  <2>3. S \in SUBSET Nat
    OBVIOUS
  <2>4. S = Nat
    <3> HIDE DEF S
    <3>. QED BY <2>1, <2>2, <2>3, Induction
  <2>. QED BY <2>4
<1>2. ASSUME NEW k \in Nat, NEW g, NEW h, Upto(g, k), Upto(h, k)
      PROVE  g[k] = h[k]
  <2> DEFINE Same == {n \in Nat : n <= k => g[n] = h[n]}
  <2>1. 0 \in Same
    BY <1>2
  <2>2. ASSUME NEW n \in Same PROVE n + 1 \in Same
    BY <1>2
  <2>3. Same = Nat
    <3>1. Same \in SUBSET Nat
      OBVIOUS
    <3> HIDE DEF Same
    <3>. QED BY <2>1, <2>2, <3>1, Induction
  <2>. QED BY <2>3
<1>3. \A k \in Nat : Upto(Chosen(k), k)
  <2> HIDE DEF Upto
  <2>. QED BY <1>1
<1>4. f[0] = s
  BY <1>3
<1>5. ASSUME NEW k \in Nat PROVE f[k + 1] = RemoveFirstBlock(f[k])
  <2>1. Upto(Chosen(k + 1), k + 1)
    <3>1. k + 1 \in Nat
      OBVIOUS
    <3> HIDE DEF Upto, Chosen
    <3>. QED BY <3>1, <1>3
  <2>2. Upto(Chosen(k + 1), k)
    BY <2>1
  <2>3. Chosen(k + 1)[k] = Chosen(k)[k]
    <3>1. Upto(Chosen(k), k)
      BY <1>3
    <3> HIDE DEF Upto, Chosen
    <3>. QED BY <3>1, <2>2, <1>2
  <2>4. Chosen(k + 1)[k + 1] = RemoveFirstBlock(Chosen(k + 1)[k])
    BY <2>1
  <2> HIDE DEF Chosen
  <2>. QED BY <2>3, <2>4
<1>6. f = Next1(f)
  <2> HIDE DEF Chosen
  <2>1. \A n \in Nat : f[n] = IF n = 0 THEN s ELSE RemoveFirstBlock(f[n - 1])
    <3>1. TAKE n \in Nat
    <3>2. CASE n = 0
      BY <3>2, <1>4
    <3>3. CASE n # 0
      <4>1. n - 1 \in Nat /\ (n - 1) + 1 = n
        BY <3>3
      <4>2. f[(n - 1) + 1] = RemoveFirstBlock(f[n - 1])
        BY <4>1, <1>5
      <4>. QED BY <4>1, <4>2, <3>3
    <3>. QED BY <3>2, <3>3
  <2>2. f = [n \in Nat |-> f[n]]
    OBVIOUS
  <2> HIDE DEF f
  <2>. QED BY <2>1, <2>2, Zenon
<1> DEFINE r == CHOOSE g : g = Next1(g)
<1>7. RemoveBlock(s) = r[Len(s)]
  BY Zenon DEF RemoveBlock
<1>8. r = Next1(r)
  <2> HIDE DEF Next1, f
  <2>. QED BY <1>6, Zenon
<1> HIDE DEF r
<1>9. r[0] = s
  <2>1. Next1(r)[0] = s
    OBVIOUS
  <2>. QED BY <2>1, <1>8, Zenon
<1>10. ASSUME NEW n \in Nat PROVE r[n + 1] = RemoveFirstBlock(r[n])
  <2>1. Next1(r)[n + 1] = RemoveFirstBlock(r[n])
    OBVIOUS
  <2>. QED BY <2>1, <1>8, Zenon
<1>. QED BY <1>7, <1>9, <1>10

-----------------------------------------------------------------------------
(* Blocks. *)

\* The marked span is a begin marker, and after it the first end marker that
\* has one before it.
LEMMA SpanOfBlock ==
    ASSUME NEW L, NEW t \in Seq(L), HasBlock(t)
    PROVE  \E b, e \in DOMAIN t :
              /\ MarkerSpan(t) = <<b, e>>
              /\ b < e /\ t[b] = Begin /\ t[e] = End
              /\ e \in BlockEnds(t)
              /\ \A i \in BlockEnds(t) : e <= i
              /\ \A i \in 1..e : t[i] = Begin => i <= b
<1> DEFINE e == Min(BlockEnds(t))
           Begins == {i \in 1..e : t[i] = Begin}
           b == Max(Begins)
<1>1. BlockEnds(t) \in SUBSET Nat /\ BlockEnds(t) # {}
  BY DEF HasBlock, BlockEnds
<1>2. e \in BlockEnds(t) /\ \A i \in BlockEnds(t) : e <= i
  BY <1>1, MinOfPositions
<1>3. e \in DOMAIN t /\ t[e] = End /\ Begins # {}
  BY <1>2 DEF BlockEnds
<1>4. e \in Nat /\ Begins \in SUBSET (1..e)
  BY <1>3
<1>5. b \in Begins /\ \A i \in Begins : i <= b
  <2> HIDE DEF Begins, e
  <2>. QED BY <1>3, <1>4, MaxOfPositions
<1>6. MarkerSpan(t) = <<b, e>>
  BY DEF MarkerSpan
<1> HIDE DEF b, e
<1>7. b \in DOMAIN t /\ t[b] = Begin /\ b <= e
  BY <1>3, <1>5
<1>8. b # e
  BY <1>3, <1>7 DEF Begin, End
<1>. QED BY <1>2, <1>3, <1>5, <1>6, <1>7, <1>8

\* A stack has a block where a begin marker comes before an end marker.
LEMMA BlockMeans ==
    ASSUME NEW L, NEW t \in Seq(L)
    PROVE  HasBlock(t) <=> \E b, e \in DOMAIN t :
                              b < e /\ t[b] = Begin /\ t[e] = End
<1>1. ASSUME HasBlock(t)
      PROVE  \E b, e \in DOMAIN t : b < e /\ t[b] = Begin /\ t[e] = End
  BY <1>1, SpanOfBlock
<1>2. ASSUME NEW b \in DOMAIN t, NEW e \in DOMAIN t,
             b < e, t[b] = Begin, t[e] = End
      PROVE  HasBlock(t)
  <2>1. b \in 1..e
    BY <1>2
  <2>2. e \in BlockEnds(t)
    BY <1>2, <2>1 DEF BlockEnds
  <2>. QED BY <2>2 DEF HasBlock
<1>. QED BY <1>1, <1>2

\* A turn of the loop leaves a stack that is shorter by the markers at least.
LEMMA TurnShortens ==
    ASSUME NEW L, NEW t \in Seq(L)
    PROVE  /\ RemoveFirstBlock(t) \in Seq(L)
           /\ HasBlock(t) => Len(RemoveFirstBlock(t)) + 2 <= Len(t)
<1>1. CASE ~HasBlock(t)
  BY <1>1 DEF RemoveFirstBlock
<1>2. CASE HasBlock(t)
  <2>1. PICK b \in DOMAIN t, e \in DOMAIN t : MarkerSpan(t) = <<b, e>> /\ b < e
    BY <1>2, SpanOfBlock
  <2> DEFINE before == SubSeq(t, 1, b - 1)
             after == SubSeq(t, e + 1, Len(t))
  <2>2. RemoveFirstBlock(t) = before \o after
    <3>1. RemoveFirstBlock(t) = Without(t, <<b, e>>)
      BY <1>2, <2>1, Zenon DEF RemoveFirstBlock
    <3>2. <<b, e>>[1] = b /\ <<b, e>>[2] = e
      OBVIOUS
    <3>. QED BY <3>1, <3>2, Zenon DEF Without
  <2>3. before \in Seq(L) /\ Len(before) = b - 1
    <3>1. \A i \in 1..(b - 1) : t[i] \in L
      BY ElementOfSeq
    <3>. QED BY <3>1, SubSeqProperties
  <2>4. after \in Seq(L) /\ Len(after) = Len(t) - e
    <3>1. \A i \in (e + 1)..Len(t) : t[i] \in L
      BY ElementOfSeq
    <3>. QED BY <3>1, SubSeqProperties
  <2>5. before \o after \in Seq(L) /\ Len(before \o after) = b - 1 + Len(t) - e
    <3> HIDE DEF before, after
    <3>. QED BY <2>3, <2>4, ConcatProperties
  <2>6. b \in Nat /\ e \in Nat /\ Len(t) \in Nat /\ b < e
    BY <2>1, LenProperties
  <2>7. b - 1 + Len(t) - e + 2 <= Len(t)
    BY <2>6
  <2> HIDE DEF before, after
  <2>. QED BY <2>2, <2>5, <2>7
<1>. QED BY <1>1, <1>2

\* A stack without a block is left alone.
LEMMA NothingToRemove ==
    ASSUME NEW L, NEW t \in Seq(L), ~HasBlock(t)
    PROVE  RemoveBlock(t) = t
<1>1. PICK r : /\ r[0] = t
               /\ \A n \in Nat : r[n + 1] = RemoveFirstBlock(r[n])
               /\ RemoveBlock(t) = r[Len(t)]
  BY Turns
<1> DEFINE S == {n \in Nat : r[n] = t}
<1>2. 0 \in S
  BY <1>1
<1>3. ASSUME NEW n \in S PROVE n + 1 \in S
  <2>1. RemoveFirstBlock(t) = t
    BY Zenon DEF RemoveFirstBlock
  <2>2. n \in Nat /\ r[n] = t
    OBVIOUS
  <2>3. r[n + 1] = RemoveFirstBlock(r[n])
    BY <1>1, <2>2, Zenon
  <2>4. r[n + 1] = t
    BY <2>1, <2>2, <2>3, Zenon
  <2>. QED BY <2>2, <2>4
<1>4. S = Nat
  <2>1. S \in SUBSET Nat
    OBVIOUS
  <2> HIDE DEF S
  <2>. QED BY <1>2, <1>3, <2>1, Induction
<1>. QED BY <1>1, <1>4, LenProperties

\* No block survives, one that the removal of another makes included.
LEMMA NoBlockIsLeft ==
    ASSUME NEW L, NEW s \in Seq(L)
    PROVE  /\ RemoveBlock(s) \in Seq(L)
           /\ ~HasBlock(RemoveBlock(s))
<1>1. PICK r : /\ r[0] = s
               /\ \A n \in Nat : r[n + 1] = RemoveFirstBlock(r[n])
               /\ RemoveBlock(s) = r[Len(s)]
  BY Turns
<1> DEFINE Shorter(n) == HasBlock(r[n]) => Len(r[n]) + n <= Len(s)
           S == {n \in Nat : r[n] \in Seq(L) /\ Shorter(n)}
<1>2. 0 \in S
  BY <1>1, LenProperties
<1>3. ASSUME NEW n \in S PROVE n + 1 \in S
  <2> DEFINE t == r[n]
             u == RemoveFirstBlock(t)
  <2>1. n \in Nat /\ t \in Seq(L) /\ r[n + 1] = u
    BY <1>1
  <2>2. u \in Seq(L) /\ (HasBlock(t) => Len(u) + 2 <= Len(t))
    BY <2>1, TurnShortens
  <2>3. ~HasBlock(t) => u = t
    BY Zenon DEF RemoveFirstBlock
  <2>4. Len(u) \in Nat /\ Len(t) \in Nat /\ Len(s) \in Nat
    BY <2>1, <2>2, LenProperties
  <2>5. Shorter(n)
    OBVIOUS
  <2> DEFINE A == HasBlock(t)
             B == HasBlock(u)
  <2>6. A \in BOOLEAN /\ B \in BOOLEAN
    BY DEF HasBlock
  <2>7. B => A
    BY <2>3, Zenon
  <2> HIDE DEF u, A, B
  <2>8. A => Len(t) + n <= Len(s)
    BY <2>5, Zenon DEF A
  <2>9. A => Len(u) + 2 <= Len(t)
    BY <2>2, Zenon DEF A
  <2> HIDE DEF t
  <2>10. B => Len(u) + (n + 1) <= Len(s)
    BY <2>1, <2>4, <2>7, <2>8, <2>9
  <2>11. Shorter(n + 1)
    BY <2>1, <2>10, Zenon DEF B
  <2>. QED BY <2>1, <2>2, <2>11
<1>4. S = Nat
  <2>1. S \in SUBSET Nat
    OBVIOUS
  <2> HIDE DEF S
  <2>. QED BY <1>2, <1>3, <2>1, Induction
<1> DEFINE t == r[Len(s)]
<1>5. Len(s) \in Nat /\ t \in Seq(L) /\ Shorter(Len(s))
  <2>1. Len(s) \in Nat
    BY LenProperties
  <2>. QED BY <2>1, <1>4
<1>6. ~HasBlock(t)
  <2>1. SUFFICES ASSUME HasBlock(t) PROVE FALSE
    OBVIOUS
  <2>2. Len(t) + Len(s) <= Len(s)
    BY <1>5, <2>1
  <2>3. \E b, e \in DOMAIN t : b < e
    BY <1>5, <2>1, SpanOfBlock
  <2>4. Len(t) \in Nat /\ DOMAIN t = 1..Len(t)
    BY <1>5, LenProperties
  <2> HIDE DEF t
  <2>. QED BY <1>5, <2>2, <2>3, <2>4
<1>. QED BY <1>1, <1>5, <1>6

\* A concatenation is cut where its parts meet.
LEMMA CutConcat ==
    ASSUME NEW L, NEW s \in Seq(L), NEW t \in Seq(L)
    PROVE  LET w == s \o t
               n == Len(w) - Len(t)
           IN  /\ SubSeq(w, n + 1, Len(w)) = t
               /\ SubSeq(w, 1, n) = s
<1> DEFINE w == s \o t
           n == Len(s)
           m == Len(t)
<1>1. /\ w \in Seq(L) /\ Len(w) = n + m
      /\ \A i \in 1..(n + m) : w[i] = IF i <= n THEN s[i] ELSE t[i - n]
  BY ConcatProperties
<1>2. n \in Nat /\ m \in Nat
  BY LenProperties
<1> HIDE DEF w
<1>3. \A i \in 1..(n + m) : w[i] \in L
  BY <1>1, ElementOfSeq
<1>4. SubSeq(w, 1, n) = s
  <2>1. \A i \in 1..n : w[i] \in L
    BY <1>2, <1>3
  <2>2. /\ SubSeq(w, 1, n) \in Seq(L)
        /\ Len(SubSeq(w, 1, n)) = IF 1 <= n THEN n - 1 + 1 ELSE 0
        /\ \A i \in 1..(n - 1 + 1) : SubSeq(w, 1, n)[i] = w[1 + i - 1]
    BY <1>2, <2>1, SubSeqProperties
  <2>3. Len(SubSeq(w, 1, n)) = n
    BY <1>2, <2>2
  <2>4. \A i \in 1..n : SubSeq(w, 1, n)[i] = s[i]
    <3> HIDE DEF n, m
    <3>. QED BY <1>1, <1>2, <2>2
  <2>. QED BY <2>2, <2>3, <2>4, SeqEqual
<1>5. SubSeq(w, n + 1, n + m) = t
  <2>1. \A i \in (n + 1)..(n + m) : w[i] \in L
    BY <1>2, <1>3
  <2> DEFINE u == SubSeq(w, n + 1, n + m)
  <2>2. /\ u \in Seq(L)
        /\ Len(u) = IF n + 1 <= n + m THEN (n + m) - (n + 1) + 1 ELSE 0
        /\ \A i \in 1..((n + m) - (n + 1) + 1) : u[i] = w[(n + 1) + i - 1]
    <3>1. n + 1 \in Int /\ n + m \in Int
      BY <1>2
    <3>. QED BY <2>1, <3>1, SubSeqProperties
  <2>3. Len(u) = m
    BY <1>2, <2>2
  <2>4. \A i \in 1..m : u[i] = t[i]
    <3> HIDE DEF n, m, u
    <3>1. TAKE i \in 1..m
    <3>2. u[i] = w[n + i]
      <4>1. (n + 1) + i - 1 = n + i /\ i \in 1..((n + m) - (n + 1) + 1)
        BY <1>2
      <4>. QED BY <2>2, <4>1
    <3>3. w[n + i] = t[(n + i) - n] /\ (n + i) - n = i
      BY <1>1, <1>2
    <3>. QED BY <3>2, <3>3
  <2> HIDE DEF u
  <2>5. u = t
    BY <2>2, <2>3, <2>4, SeqEqual
  <2>. QED BY <2>5 DEF u
<1>6. Len(w) - m = n
  BY <1>1, <1>2
<1>7. /\ SubSeq(w, (Len(w) - m) + 1, Len(w)) = t
      /\ SubSeq(w, 1, Len(w) - m) = s
  BY <1>1, <1>4, <1>5, <1>6
<1>. QED BY <1>7, Zenon DEF w

\* The block that tess adds: a begin marker, a tess line, an end marker.
LEMMA BlockTextLines ==
    /\ BlockText \in Seq(Line) /\ Len(BlockText) = 3
    /\ BlockText[1] = Begin /\ BlockText[3] = End
    /\ BlockText[2] # Begin /\ BlockText[2] # End
    /\ \A i \in 1..3 : BlockText[i] # Malformed
    /\ BlockText[2].kind = "tess" /\ ControlIsFailOpen(BlockText[2].control)
<1> DEFINE tess == TessLine(Control("optional", <<>>))
<1>1. tess \in Line
  <2>1. <<>> \in Seq(STRING \X STRING)
    BY EmptySeq
  <2> DEFINE Pairs == Seq(STRING \X STRING)
             none == <<>>
  <2>4. none \in Pairs
    BY <2>1
  <2> HIDE DEF Pairs, none
  <2>2. Control("optional", none) \in [word : {"optional", "required", "[]"},
                                            pairs : Pairs]
    BY <2>4 DEF Control
  <2>3. TessLine(Control("optional", none))
           \in [kind : {"tess"},
                control : [word : {"optional", "required", "[]"},
                                            pairs : Pairs]]
    BY <2>2 DEF TessLine
  <2>. QED BY <2>3 DEF Line, Pairs, none
<1>2. Begin \in Line /\ End \in Line
  BY DEF Line, Begin, End
<1>3. /\ tess # Begin /\ tess # End /\ tess # Malformed
      /\ Begin # Malformed /\ End # Malformed
  BY DEF TessLine, Begin, End, Malformed
<1>4. tess.kind = "tess" /\ ControlIsFailOpen(tess.control)
  BY DEF TessLine, Control, ControlIsFailOpen
<1>5. BlockText = <<Begin, tess, End>>
  BY Zenon DEF BlockText
<1> HIDE DEF tess
<1>. QED BY <1>1, <1>2, <1>3, <1>4, <1>5

\* What add_block adds, remove_block takes away again.
LEMMA AddedBlockGoes ==
    ASSUME NEW t \in Seq(Line), ~HasBlock(t)
    PROVE  /\ t \o BlockText \in Seq(Line)
           /\ HasBlock(t \o BlockText)
           /\ RemoveBlock(t \o BlockText) = t
<1> DEFINE u == t \o BlockText
           n == Len(t)
<1>1. /\ n \in Nat /\ DOMAIN t = 1..n
      /\ u \in Seq(Line) /\ Len(u) = n + 3
      /\ \A i \in 1..n : u[i] = t[i]
      /\ u[n + 1] = Begin /\ u[n + 3] = End
      /\ u[n + 2] # Begin /\ u[n + 2] # End
  <2>1. n \in Nat /\ DOMAIN t = 1..n
    BY LenProperties
  <2>2. /\ u \in Seq(Line) /\ Len(u) = n + 3
        /\ \A i \in 1..(n + 3) :
              u[i] = IF i <= n THEN t[i] ELSE BlockText[i - n]
    <3>1. /\ u \in Seq(Line) /\ Len(u) = n + Len(BlockText)
          /\ \A i \in 1..(n + Len(BlockText)) :
                u[i] = IF i <= n THEN t[i] ELSE BlockText[i - n]
      <4>1. BlockText \in Seq(Line)
        BY BlockTextLines
      <4>. QED BY <4>1, ConcatProperties
    <3>2. Len(BlockText) = 3
      BY BlockTextLines
    <3> HIDE DEF u, n
    <3>. QED BY <3>1, <3>2
  <2>3. n + 1 \in 1..(n + 3) /\ n + 2 \in 1..(n + 3) /\ n + 3 \in 1..(n + 3)
    BY <2>1
  <2>4. \A i \in 1..n : u[i] = t[i]
    BY <2>1, <2>2
  <2> HIDE DEF u, n
  <2>5. /\ u[n + 1] = BlockText[1] /\ u[n + 2] = BlockText[2]
        /\ u[n + 3] = BlockText[3]
    BY <2>1, <2>2, <2>3
  <2>. QED BY <2>1, <2>2, <2>4, <2>5, BlockTextLines
<1> HIDE DEF u, n
<1>2. DOMAIN u = 1..(n + 3)
  BY <1>1, LenProperties
<1>3. HasBlock(u)
  <2>1. n + 1 \in DOMAIN u /\ n + 3 \in DOMAIN u /\ n + 1 < n + 3
    BY <1>1, <1>2
  <2>. QED BY <1>1, <2>1, BlockMeans
<1>4. MarkerSpan(u) = <<n + 1, n + 3>>
  <2>1. PICK b \in DOMAIN u, e \in DOMAIN u :
           /\ MarkerSpan(u) = <<b, e>>
           /\ b < e /\ u[b] = Begin /\ u[e] = End
           /\ \A i \in 1..e : u[i] = Begin => i <= b
    BY <1>1, <1>3, SpanOfBlock
  <2>2. ~(e <= n)
    <3>1. SUFFICES ASSUME e <= n PROVE FALSE
      OBVIOUS
    <3>2. b \in DOMAIN t /\ e \in DOMAIN t /\ t[b] = Begin /\ t[e] = End
      BY <1>1, <1>2, <2>1, <3>1
    <3>. QED BY <2>1, <3>2, BlockMeans
  <2>3. Begin # End
    BY DEF Begin, End
  <2>4. e = n + 3
    BY <1>1, <1>2, <2>1, <2>2, <2>3
  <2>5. b = n + 1
    <3>1. n + 1 \in 1..e
      BY <1>1, <2>4
    <3>2. n + 1 <= b
      BY <1>1, <2>1, <3>1
    <3>3. b # n + 2 /\ b # n + 3
      BY <1>1, <2>1, <2>3, <2>4
    <3>. QED BY <1>1, <1>2, <2>1, <3>2, <3>3
  <2>. QED BY <2>1, <2>4, <2>5
<1>5. RemoveFirstBlock(u) = t
  <2>1. <<n + 1, n + 3>>[1] = n + 1 /\ <<n + 1, n + 3>>[2] = n + 3
    OBVIOUS
  <2>2. RemoveFirstBlock(u)
          = SubSeq(u, 1, (n + 1) - 1) \o SubSeq(u, (n + 3) + 1, Len(u))
    BY <1>3, <1>4, <2>1, Zenon DEF RemoveFirstBlock, Without
  <2>3. (n + 1) - 1 = n
    BY <1>1
  <2>4. SubSeq(u, (n + 3) + 1, Len(u)) = <<>>
    <3>1. (n + 3) + 1 \in Int /\ Len(u) \in Int /\ Len(u) < (n + 3) + 1
      BY <1>1
    <3>. QED BY <3>1, SubSeqEmpty
  <2>5. SubSeq(u, 1, n) = t
    <3>1. Len(u) - Len(BlockText) = n /\ BlockText \in Seq(Line)
      BY <1>1, BlockTextLines
    <3>. QED BY <3>1, CutConcat DEF u
  <2>6. t \o <<>> = t
    BY ConcatEmptySeq
  <2>. QED BY <2>2, <2>3, <2>4, <2>5, <2>6
<1>6. RemoveBlock(u) = t
  <2>1. PICK r : /\ r[0] = u
                 /\ \A k \in Nat : r[k + 1] = RemoveFirstBlock(r[k])
                 /\ RemoveBlock(u) = r[Len(u)]
    BY Turns
  <2> DEFINE S == {k \in Nat : r[k + 1] = t}
  <2>2. 0 \in S
    BY <1>5, <2>1
  <2>3. ASSUME NEW k \in S PROVE k + 1 \in S
    <3>1. RemoveFirstBlock(t) = t
      BY Zenon DEF RemoveFirstBlock
    <3>2. k + 1 \in Nat /\ r[k + 1] = t
      OBVIOUS
    <3>3. r[(k + 1) + 1] = RemoveFirstBlock(r[k + 1])
      BY <2>1, <3>2, Zenon
    <3>4. r[(k + 1) + 1] = t
      BY <3>1, <3>2, <3>3, Zenon
    <3>. QED BY <3>2, <3>4
  <2>4. S = Nat
    <3>1. S \in SUBSET Nat
      OBVIOUS
    <3> HIDE DEF S
    <3>. QED BY <2>2, <2>3, <3>1, Induction
  <2>5. n + 2 \in Nat /\ (n + 2) + 1 = Len(u)
    BY <1>1
  <2>6. r[(n + 2) + 1] = t
    BY <2>4, <2>5
  <2>. QED BY <2>1, <2>5, <2>6
<1>. QED BY <1>1, <1>3, <1>6 DEF u

-----------------------------------------------------------------------------
(* The lines of the administrator.                                           *)

\* A stack has the foreign lines that it has.
LEMMA SameAsItself ==
    ASSUME NEW s
    PROVE  SameForeign(s, s)
<1> DEFINE at == [i \in Foreign(s) |-> i]
<1>1. at \in [Foreign(s) -> Foreign(s)]
  OBVIOUS
<1>2. \A i \in Foreign(s) : at[i] = i
  OBVIOUS
<1> HIDE DEF at
<1>. QED BY <1>1, <1>2 DEF SameForeign

\* What is kept by one edit and by the next is kept by both.
LEMMA SameByTwo ==
    ASSUME NEW s, NEW t, NEW u, SameForeign(s, t), SameForeign(t, u)
    PROVE  SameForeign(s, u)
<1>1. PICK f \in [Foreign(s) -> Foreign(t)] :
         /\ \A i \in Foreign(s) : t[f[i]] = s[i]
         /\ \A i, j \in Foreign(s) : i < j => f[i] < f[j]
         /\ \A k \in Foreign(t) : \E i \in Foreign(s) : f[i] = k
  BY DEF SameForeign
<1>2. PICK g \in [Foreign(t) -> Foreign(u)] :
         /\ \A i \in Foreign(t) : u[g[i]] = t[i]
         /\ \A i, j \in Foreign(t) : i < j => g[i] < g[j]
         /\ \A k \in Foreign(u) : \E i \in Foreign(t) : g[i] = k
  BY DEF SameForeign
<1> DEFINE h == [i \in Foreign(s) |-> g[f[i]]]
<1>3. h \in [Foreign(s) -> Foreign(u)]
  OBVIOUS
<1>4. \A i \in Foreign(s) : h[i] = g[f[i]] /\ f[i] \in Foreign(t)
  OBVIOUS
<1> HIDE DEF h
<1>5. \A i \in Foreign(s) : u[h[i]] = s[i]
  BY <1>1, <1>2, <1>4
<1>6. \A i, j \in Foreign(s) : i < j => h[i] < h[j]
  BY <1>1, <1>2, <1>4
<1>7. \A k \in Foreign(u) : \E i \in Foreign(s) : h[i] = k
  BY <1>1, <1>2, <1>4
<1>. QED BY <1>3, <1>5, <1>6, <1>7 DEF SameForeign

\* Where the lines that remain of s without one of its blocks stand in s.
Places(s, t, b, e, up) ==
    /\ \A k \in DOMAIN t : /\ up[k] \in DOMAIN s /\ (up[k] < b \/ e < up[k])
                          /\ t[k] = s[up[k]]
    /\ \A k, l \in DOMAIN t : k < l <=> up[k] < up[l]
    /\ \A i \in DOMAIN s : i < b \/ e < i => \E k \in DOMAIN t : up[k] = i

\* Without one of its blocks, a stack in which none is nested has the blocks it
\* had, none is nested, and no foreign line is gone.
LEMMA CutKeeps ==
    ASSUME NEW L, NEW s \in Seq(L), NEW t \in Seq(L),
           NEW b \in DOMAIN s, NEW e \in DOMAIN s, IsBlock(s, b, e), ~Nested(s),
           NEW up, Places(s, t, b, e, up)
    PROVE  ~Nested(t) /\ SameForeign(s, t)
<1>1. /\ \A k \in DOMAIN s : k \in Nat
      /\ \A k \in DOMAIN t : k \in Nat
  BY LenProperties
<1>2. Begin # End
  BY DEF Begin, End
<1>3. /\ \A k \in DOMAIN t : /\ up[k] \in DOMAIN s /\ (up[k] < b \/ e < up[k])
                            /\ t[k] = s[up[k]]
      /\ \A k, l \in DOMAIN t : k < l <=> up[k] < up[l]
      /\ \A i \in DOMAIN s : i < b \/ e < i => \E k \in DOMAIN t : up[k] = i
  BY DEF Places
<1>4. b < e /\ s[b] = Begin /\ s[e] = End
  BY DEF IsBlock
<1>5. \A i \in DOMAIN s : b < i /\ i < e => s[i] # Begin /\ s[i] # End
  BY DEF IsBlock
<1>6. ASSUME NEW x \in DOMAIN s, NEW y \in DOMAIN s, IsBlock(s, x, y), x # b
      PROVE  /\ x < b \/ e < x
             /\ y < b \/ e < y
  <2>1. x < y /\ s[x] = Begin /\ s[y] = End
    BY <1>6 DEF IsBlock
  <2>2. ~(x < b /\ b < y) /\ ~(x < e /\ e < y)
    BY <1>4, <1>6 DEF IsBlock
  <2>3. x < b \/ e < x
    BY <1>1, <1>2, <1>4, <1>5, <1>6, <2>1
  <2>4. y # b
    BY <1>2, <1>4, <2>1
  <2>. QED BY <1>1, <2>1, <2>2, <2>3, <2>4
<1>7. ASSUME NEW k \in DOMAIN t, NEW l \in DOMAIN t, IsBlock(s, up[k], up[l])
      PROVE  IsBlock(t, k, l)
  <2>1. /\ up[k] < up[l] /\ s[up[k]] = Begin /\ s[up[l]] = End
        /\ \A i \in DOMAIN s :
              up[k] < i /\ i < up[l] => s[i] # Begin /\ s[i] # End
    BY <1>7 DEF IsBlock
  <2>2. k < l /\ t[k] = Begin /\ t[l] = End
    BY <1>3, <2>1
  <2>3. ASSUME NEW m \in DOMAIN t, k < m, m < l
        PROVE  t[m] # Begin /\ t[m] # End
    <3>1. up[k] < up[m] /\ up[m] < up[l]
      BY <1>3, <2>3
    <3>2. up[m] \in DOMAIN s /\ t[m] = s[up[m]]
      BY <1>3
    <3>. QED BY <2>1, <3>1, <3>2
  <2>. QED BY <2>2, <2>3 DEF IsBlock
<1>8. ASSUME NEW k \in DOMAIN t, NEW l \in DOMAIN t, IsBlock(t, k, l)
      PROVE  IsBlock(s, up[k], up[l])
  <2>1. /\ k < l /\ t[k] = Begin /\ t[l] = End
        /\ \A i \in DOMAIN t : k < i /\ i < l => t[i] # Begin /\ t[i] # End
    BY <1>8 DEF IsBlock
  <2> DEFINE x == up[k]
             y == up[l]
  <2>2. x \in DOMAIN s /\ y \in DOMAIN s /\ x < y /\ s[x] = Begin /\ s[y] = End
    BY <1>3, <2>1
  <2>3. ~(x < b /\ e < y)
    <3>1. SUFFICES ASSUME x < b, e < y PROVE FALSE
      OBVIOUS
    <3>2. ASSUME NEW z \in DOMAIN s, IsBlock(s, x, z) PROVE FALSE
      <4>1. x < z /\ s[z] = End /\ ~(x < b /\ b < z)
        BY <1>4, <3>2 DEF IsBlock
      <4>2. z # b
        BY <1>2, <1>4, <4>1
      <4> HIDE DEF x, y
      <4>3. z < b
        BY <1>1, <2>2, <3>1, <4>1, <4>2
      <4>4. PICK m \in DOMAIN t : up[m] = z
        BY <1>3, <4>3
      <4>5. z \in Nat /\ x < z /\ z < y
        <5>1. z \in Nat /\ x \in Nat /\ y \in Nat /\ b \in Nat /\ e \in Nat
          BY <1>1, <2>2
        <5>. QED BY <1>4, <3>1, <4>1, <4>3, <5>1
      <4>6. up[k] < up[m] /\ up[m] < up[l]
        BY <4>4, <4>5 DEF x, y
      <4>7. k < m /\ m < l
        BY <1>3, <4>6
      <4>8. t[m] = End
        BY <1>3, <4>1, <4>4
      <4>. QED BY <2>1, <4>7, <4>8
    <3>3. ASSUME NEW z \in DOMAIN s, IsBlock(s, z, y) PROVE FALSE
      <4>1. z < y /\ s[z] = Begin /\ ~(z < e /\ e < y)
        BY <1>4, <3>3 DEF IsBlock
      <4>2. z # e
        BY <1>2, <1>4, <4>1
      <4> HIDE DEF x, y
      <4>3. e < z
        BY <1>1, <2>2, <3>1, <4>1, <4>2
      <4>4. PICK m \in DOMAIN t : up[m] = z
        BY <1>3, <4>3
      <4>5. z \in Nat /\ x < z /\ z < y
        <5>1. z \in Nat /\ x \in Nat /\ y \in Nat /\ b \in Nat /\ e \in Nat
          BY <1>1, <2>2
        <5>. QED BY <1>4, <3>1, <4>1, <4>3, <5>1
      <4>6. up[k] < up[m] /\ up[m] < up[l]
        BY <4>4, <4>5 DEF x, y
      <4>7. k < m /\ m < l
        BY <1>3, <4>6
      <4>8. t[m] = Begin
        BY <1>3, <4>1, <4>4
      <4>. QED BY <2>1, <4>7, <4>8
    <3> HIDE DEF x, y
    <3>4. Nested(s)
      BY <2>2, <3>2, <3>3 DEF Nested
    <3>. QED BY <3>4
  <2>4. ASSUME NEW i \in DOMAIN s, x < i, i < y
        PROVE  s[i] # Begin /\ s[i] # End
    <3>1. x < b \/ e < x
      BY <1>3
    <3>2. y < b \/ e < y
      BY <1>3
    <3> HIDE DEF x, y
    <3>3. i < b \/ e < i
      BY <1>1, <1>4, <2>2, <2>3, <2>4, <3>1, <3>2
    <3>4. PICK m \in DOMAIN t : up[m] = i
      BY <1>3, <3>3
    <3>5. k < m /\ m < l /\ t[m] = s[i]
      BY <1>3, <2>4, <3>4 DEF x, y
    <3>. QED BY <2>1, <3>5
  <2>. QED BY <2>2, <2>4 DEF IsBlock
<1>9. ~Nested(t)
  <2>1. SUFFICES ASSUME NEW k \in DOMAIN t, NEW l \in DOMAIN t,
                        k < l, t[k] = Begin, t[l] = End,
                        \A x \in DOMAIN t : ~IsBlock(t, k, x) /\ ~IsBlock(t, x, l)
                 PROVE  FALSE
    BY DEF Nested
  <2>2. up[k] # b
    BY <1>1, <1>3, <1>4
  <2>3. ASSUME NEW x \in DOMAIN s, IsBlock(s, up[k], x) PROVE FALSE
    <3>1. x < b \/ e < x
      BY <1>3, <1>6, <2>2, <2>3
    <3>2. PICK m \in DOMAIN t : up[m] = x
      BY <1>3, <3>1
    <3>. QED BY <1>7, <2>1, <2>3, <3>2
  <2>4. ASSUME NEW x \in DOMAIN s, IsBlock(s, x, up[l]) PROVE FALSE
    <3>1. x # b
      <4>1. SUFFICES ASSUME x = b PROVE FALSE
        OBVIOUS
      <4>2. b < up[l] /\ ~(b < e /\ e < up[l])
        BY <1>4, <2>4, <4>1 DEF IsBlock
      <4>3. up[l] \in DOMAIN s /\ (up[l] < b \/ e < up[l])
        BY <1>3
      <4>. QED BY <1>1, <1>4, <4>2, <4>3
    <3>2. x < b \/ e < x
      BY <1>3, <1>6, <2>4, <3>1
    <3>3. PICK m \in DOMAIN t : up[m] = x
      BY <1>3, <3>2
    <3>. QED BY <1>7, <2>1, <2>4, <3>3
  <2>5. /\ up[k] \in DOMAIN s /\ up[l] \in DOMAIN s /\ up[k] < up[l]
        /\ s[up[k]] = Begin /\ s[up[l]] = End
    BY <1>3, <2>1
  <2>6. Nested(s)
    BY <2>3, <2>4, <2>5 DEF Nested
  <2>. QED BY <2>6
<1>10. ASSUME NEW i \in Foreign(s)
       PROVE  \E k \in Foreign(t) : up[k] = i
  <2>1. /\ i \in DOMAIN s /\ s[i] # Begin /\ s[i] # End
        /\ \A x, y \in DOMAIN s : IsBlock(s, x, y) => ~(x < i /\ i < y)
    BY DEF Foreign
  <2>2. i < b \/ e < i
    <3>1. i # b /\ i # e /\ ~(b < i /\ i < e)
      BY <1>4, <2>1
    <3>. QED BY <1>1, <2>1, <3>1
  <2>3. PICK k \in DOMAIN t : up[k] = i
    BY <1>3, <2>1, <2>2
  <2>4. ASSUME NEW x \in DOMAIN t, NEW y \in DOMAIN t, IsBlock(t, x, y),
               x < k, k < y
        PROVE  FALSE
    <3>1. IsBlock(s, up[x], up[y])
      BY <1>8, <2>4
    <3>2. /\ up[x] \in DOMAIN s /\ up[y] \in DOMAIN s
          /\ up[x] < i /\ i < up[y]
      BY <1>3, <2>3, <2>4
    <3>. QED BY <2>1, <3>1, <3>2
  <2>5. t[k] = s[i]
    BY <1>3, <2>3
  <2>. QED BY <2>1, <2>3, <2>4, <2>5 DEF Foreign
<1>11. ASSUME NEW k \in Foreign(t) PROVE up[k] \in Foreign(s)
  <2>1. /\ k \in DOMAIN t /\ t[k] # Begin /\ t[k] # End
        /\ \A x, y \in DOMAIN t : IsBlock(t, x, y) => ~(x < k /\ k < y)
    BY DEF Foreign
  <2>2. up[k] \in DOMAIN s /\ (up[k] < b \/ e < up[k]) /\ t[k] = s[up[k]]
    BY <1>3, <2>1
  <2>3. ASSUME NEW x \in DOMAIN s, NEW y \in DOMAIN s, IsBlock(s, x, y),
               x < up[k], up[k] < y
        PROVE  FALSE
    <3>1. x # b
      <4>1. SUFFICES ASSUME x = b PROVE FALSE
        OBVIOUS
      <4>2. ~(b < e /\ e < y)
        BY <1>4, <2>3, <4>1 DEF IsBlock
      <4>. QED BY <1>1, <1>4, <2>2, <2>3, <4>1, <4>2
    <3>2. (x < b \/ e < x) /\ (y < b \/ e < y)
      BY <1>6, <2>3, <3>1
    <3>3. PICK p \in DOMAIN t : up[p] = x
      BY <1>3, <3>2
    <3>4. PICK q \in DOMAIN t : up[q] = y
      BY <1>3, <3>2
    <3>5. IsBlock(t, p, q)
      BY <1>7, <2>3, <3>3, <3>4
    <3>6. p < k /\ k < q
      BY <1>3, <2>1, <2>3, <3>3, <3>4
    <3>. QED BY <2>1, <3>5, <3>6
  <2>4. s[up[k]] # Begin /\ s[up[k]] # End
    BY <2>1, <2>2
  <2>. QED BY <2>2, <2>3, <2>4 DEF Foreign
<1> DEFINE at == [i \in Foreign(s) |-> CHOOSE k \in Foreign(t) : up[k] = i]
<1>12. \A i \in Foreign(s) : at[i] \in Foreign(t) /\ up[at[i]] = i
  BY <1>10
<1>13. at \in [Foreign(s) -> Foreign(t)]
  <2>1. \A i \in Foreign(s) : (CHOOSE k \in Foreign(t) : up[k] = i) \in Foreign(t)
    BY <1>12
  <2>. QED BY <2>1
<1> HIDE DEF at
<1>14. \A k \in Foreign(t) : k \in DOMAIN t
  BY DEF Foreign
<1>15. \A i \in Foreign(s) : t[at[i]] = s[i]
  BY <1>3, <1>12, <1>14
<1>16. \A i, j \in Foreign(s) : i < j => at[i] < at[j]
  BY <1>3, <1>12, <1>14
<1>17. ASSUME NEW k \in Foreign(t) PROVE \E i \in Foreign(s) : at[i] = k
  <2>1. up[k] \in Foreign(s)
    BY <1>11
  <2> DEFINE l == at[up[k]]
  <2>2. l \in DOMAIN t /\ k \in DOMAIN t /\ up[l] = up[k]
    BY <1>12, <1>14, <2>1
  <2>3. l \in Nat /\ k \in Nat /\ up[k] \in Nat
    BY <1>1, <1>3, <2>2
  <2> HIDE DEF l
  <2>4. ~(l < k) /\ ~(k < l)
    BY <1>3, <2>2, <2>3
  <2>5. l = k
    BY <2>3, <2>4
  <2>. QED BY <2>1, <2>5 DEF l
<1>18. SameForeign(s, t)
  BY <1>13, <1>15, <1>16, <1>17 DEF SameForeign
<1>. QED BY <1>9, <1>18

\* A turn of the loop keeps the foreign lines of a stack without nested blocks.
LEMMA TurnKeeps ==
    ASSUME NEW L, NEW s \in Seq(L), ~Nested(s)
    PROVE  ~Nested(RemoveFirstBlock(s)) /\ SameForeign(s, RemoveFirstBlock(s))
<1>1. CASE ~HasBlock(s)
  BY <1>1, SameAsItself, Zenon DEF RemoveFirstBlock
<1>2. CASE HasBlock(s)
  <2>1. PICK b \in DOMAIN s, e \in DOMAIN s :
           /\ MarkerSpan(s) = <<b, e>>
           /\ b < e /\ s[b] = Begin /\ s[e] = End
           /\ e \in BlockEnds(s)
           /\ \A i \in BlockEnds(s) : e <= i
           /\ \A i \in 1..e : s[i] = Begin => i <= b
    BY <1>2, SpanOfBlock
  <2>2. DOMAIN s = 1..Len(s) /\ Len(s) \in Nat
    BY LenProperties
  <2>3. IsBlock(s, b, e)
    <3>1. ASSUME NEW i \in DOMAIN s, b < i, i < e
          PROVE  s[i] # Begin /\ s[i] # End
      <4>1. i \in 1..e /\ ~(i <= b) /\ ~(e <= i) /\ b \in 1..i
        BY <2>2, <3>1
      <4>2. s[i] # Begin
        BY <2>1, <4>1
      <4>3. i \notin BlockEnds(s)
        BY <2>1, <4>1
      <4>. QED BY <2>1, <4>1, <4>2, <4>3 DEF BlockEnds
    <3>. QED BY <2>1, <3>1 DEF IsBlock
  <2> DEFINE before == SubSeq(s, 1, b - 1)
             after == SubSeq(s, e + 1, Len(s))
             t == before \o after
             w == e - b + 1
             up == [k \in DOMAIN t |-> IF k < b THEN k ELSE k + w]
  <2>4. RemoveFirstBlock(s) = t
    <3>1. RemoveFirstBlock(s) = Without(s, <<b, e>>)
      BY <1>2, <2>1, Zenon DEF RemoveFirstBlock
    <3>2. <<b, e>>[1] = b /\ <<b, e>>[2] = e
      OBVIOUS
    <3>. QED BY <3>1, <3>2, Zenon DEF Without
  <2>5. /\ before \in Seq(L) /\ Len(before) = b - 1
        /\ \A i \in 1..(b - 1) : before[i] = s[i]
    <3>1. \A i \in 1..(b - 1) : s[i] \in L
      BY <2>2, ElementOfSeq
    <3>2. /\ before \in Seq(L)
          /\ Len(before) = IF 1 <= b - 1 THEN (b - 1) - 1 + 1 ELSE 0
          /\ \A i \in 1..((b - 1) - 1 + 1) : before[i] = s[1 + i - 1]
      BY <2>2, <3>1, SubSeqProperties
    <3> HIDE DEF before
    <3>. QED BY <2>2, <3>2
  <2>6. /\ after \in Seq(L) /\ Len(after) = Len(s) - e
        /\ \A i \in 1..(Len(s) - e) : after[i] = s[e + i]
    <3>1. \A i \in (e + 1)..Len(s) : s[i] \in L
      BY <2>2, ElementOfSeq
    <3>2. /\ after \in Seq(L)
          /\ Len(after) = IF e + 1 <= Len(s) THEN Len(s) - (e + 1) + 1 ELSE 0
          /\ \A i \in 1..(Len(s) - (e + 1) + 1) : after[i] = s[(e + 1) + i - 1]
      BY <2>2, <3>1, SubSeqProperties
    <3> HIDE DEF after
    <3>3. \A i \in 1..(Len(s) - e) : (e + 1) + i - 1 = e + i
      BY <2>2
    <3>. QED BY <2>2, <3>2, <3>3
  <2>7. /\ t \in Seq(L) /\ DOMAIN t = 1..(Len(s) - w)
        /\ \A k \in DOMAIN t : t[k] = IF k < b THEN s[k] ELSE s[k + w]
    <3> HIDE DEF before, after
    <3>1. /\ t \in Seq(L) /\ Len(t) = (b - 1) + (Len(s) - e)
          /\ \A k \in 1..Len(t) : t[k] = IF k <= b - 1 THEN before[k]
                                         ELSE after[k - (b - 1)]
      <4>1. /\ t \in Seq(L) /\ Len(t) = Len(before) + Len(after)
            /\ \A k \in 1..(Len(before) + Len(after)) :
                  t[k] = IF k <= Len(before) THEN before[k]
                         ELSE after[k - Len(before)]
        BY <2>5, <2>6, ConcatProperties
      <4> HIDE DEF t
      <4>. QED BY <2>5, <2>6, <4>1
    <3>2. DOMAIN t = 1..Len(t)
      BY <3>1, LenProperties
    <3> HIDE DEF t
    <3>3. (b - 1) + (Len(s) - e) = Len(s) - w
      BY <2>2
    <3>4. ASSUME NEW k \in DOMAIN t
          PROVE  t[k] = IF k < b THEN s[k] ELSE s[k + w]
      <4>1. CASE k < b
        <5>1. k \in 1..(b - 1) /\ k <= b - 1
          BY <2>2, <3>1, <3>2, <4>1
        <5>. QED BY <2>5, <3>1, <3>2, <4>1, <5>1
      <4>2. CASE ~(k < b)
        <5>1. /\ k - (b - 1) \in 1..(Len(s) - e) /\ ~(k <= b - 1)
              /\ e + (k - (b - 1)) = k + w
          BY <2>2, <3>1, <3>2, <4>2
        <5>. QED BY <2>6, <3>1, <3>2, <4>2, <5>1
      <4>. QED BY <4>1, <4>2
    <3>. QED BY <3>1, <3>2, <3>3, <3>4
  <2> HIDE DEF t
  <2>8. \A k \in DOMAIN t : up[k] = IF k < b THEN k ELSE k + w
    OBVIOUS
  <2> HIDE DEF up
  <2>9. Places(s, t, b, e, up)
    <3>1. ASSUME NEW k \in DOMAIN t
          PROVE  /\ up[k] \in DOMAIN s /\ (up[k] < b \/ e < up[k])
                 /\ t[k] = s[up[k]]
      BY <2>1, <2>2, <2>7, <2>8
    <3>2. ASSUME NEW k \in DOMAIN t, NEW l \in DOMAIN t
          PROVE  k < l <=> up[k] < up[l]
      BY <2>1, <2>2, <2>7, <2>8
    <3>3. ASSUME NEW i \in DOMAIN s, i < b \/ e < i
          PROVE  \E k \in DOMAIN t : up[k] = i
      <4>1. CASE i < b
        <5>1. i \in DOMAIN t
          BY <2>1, <2>2, <2>7, <4>1
        <5>. QED BY <2>8, <4>1, <5>1
      <4>2. CASE e < i
        <5>1. i - w \in DOMAIN t /\ ~(i - w < b) /\ (i - w) + w = i
          BY <2>1, <2>2, <2>7, <4>2
        <5>. QED BY <2>8, <5>1
      <4>. QED BY <3>3, <4>1, <4>2
    <3>. QED BY <3>1, <3>2, <3>3 DEF Places
  <2>10. ~Nested(t) /\ SameForeign(s, t)
    BY <2>3, <2>7, <2>9, CutKeeps
  <2>. QED BY <2>4, <2>10
<1>. QED BY <1>1, <1>2

\* Without nested blocks, remove_block takes only what lies in blocks.
LEMMA RemovalKeeps ==
    ASSUME NEW L, NEW s \in Seq(L), ~Nested(s)
    PROVE  SameForeign(s, RemoveBlock(s))
<1>1. PICK r : /\ r[0] = s
               /\ \A n \in Nat : r[n + 1] = RemoveFirstBlock(r[n])
               /\ RemoveBlock(s) = r[Len(s)]
  BY Turns
<1> DEFINE S == {n \in Nat : /\ r[n] \in Seq(L) /\ ~Nested(r[n])
                            /\ SameForeign(s, r[n])}
<1>2. 0 \in S
  BY <1>1, SameAsItself
<1>3. ASSUME NEW n \in S PROVE n + 1 \in S
  <2>1. n + 1 \in Nat /\ r[n + 1] = RemoveFirstBlock(r[n])
    BY <1>1
  <2>2. RemoveFirstBlock(r[n]) \in Seq(L)
    BY TurnShortens
  <2>3. /\ ~Nested(RemoveFirstBlock(r[n]))
        /\ SameForeign(r[n], RemoveFirstBlock(r[n]))
    BY TurnKeeps
  <2>4. SameForeign(s, RemoveFirstBlock(r[n]))
    BY <2>3, SameByTwo
  <2>. QED BY <2>1, <2>2, <2>3, <2>4
<1>4. S = Nat
  <2>1. S \in SUBSET Nat
    OBVIOUS
  <2> HIDE DEF S
  <2>. QED BY <1>2, <1>3, <2>1, Induction
<1>5. Len(s) \in Nat
  BY LenProperties
<1>. QED BY <1>1, <1>4, <1>5

\* The lines that add_block adds to a stack without a block are its block.
LEMMA AddedLinesAreOurs ==
    ASSUME NEW t \in Seq(Line), ~HasBlock(t)
    PROVE  SameForeign(t, t \o BlockText)
<1> DEFINE u == t \o BlockText
           n == Len(t)
<1>1. /\ n \in Nat /\ DOMAIN t = 1..n /\ DOMAIN u = 1..(n + 3)
      /\ \A i \in 1..(n + 3) : u[i] = IF i <= n THEN t[i] ELSE BlockText[i - n]
  <2>1. n \in Nat /\ DOMAIN t = 1..n
    BY LenProperties
  <2>2. /\ u \in Seq(Line) /\ Len(u) = n + Len(BlockText)
        /\ \A i \in 1..(n + Len(BlockText)) :
              u[i] = IF i <= n THEN t[i] ELSE BlockText[i - n]
    BY BlockTextLines, ConcatProperties
  <2>3. DOMAIN u = 1..Len(u)
    BY <2>2, LenProperties
  <2>4. Len(BlockText) = 3
    BY BlockTextLines
  <2> HIDE DEF u, n
  <2>. QED BY <2>1, <2>2, <2>3, <2>4
<1> HIDE DEF u, n
<1>2. /\ \A i \in 1..n : u[i] = t[i]
      /\ u[n + 1] = Begin /\ u[n + 3] = End /\ u[n + 2] # Begin /\ u[n + 2] # End
  <2>1. /\ u[n + 1] = BlockText[1] /\ u[n + 2] = BlockText[2]
        /\ u[n + 3] = BlockText[3]
    BY <1>1
  <2>. QED BY <1>1, <2>1, BlockTextLines
<1>3. Begin # End
  BY DEF Begin, End
<1>4. \A b, e \in DOMAIN t : ~IsBlock(t, b, e)
  BY BlockMeans DEF IsBlock
<1>5. IsBlock(u, n + 1, n + 3)
  BY <1>1, <1>2 DEF IsBlock
<1>6. ASSUME NEW b \in DOMAIN u, NEW e \in DOMAIN u, IsBlock(u, b, e)
      PROVE  b > n
  <2>1. SUFFICES ASSUME b <= n PROVE FALSE
    BY <1>1
  <2>2. /\ b < e /\ u[b] = Begin /\ u[e] = End
        /\ \A i \in DOMAIN u : b < i /\ i < e => u[i] # Begin
    BY <1>6 DEF IsBlock
  <2>3. ~(n + 1 < e)
    BY <1>1, <1>2, <2>1, <2>2
  <2>4. e # n + 1
    BY <1>2, <1>3, <2>2
  <2>5. b \in DOMAIN t /\ e \in DOMAIN t
    BY <1>1, <2>1, <2>2, <2>3, <2>4
  <2>6. t[b] = Begin /\ t[e] = End
    BY <1>1, <1>2, <2>2, <2>5
  <2>. QED BY <2>2, <2>5, <2>6, BlockMeans
<1>7. Foreign(u) = Foreign(t)
  <2>1. ASSUME NEW i \in Foreign(t) PROVE i \in Foreign(u)
    <3>1. i \in DOMAIN t /\ t[i] # Begin /\ t[i] # End
      BY DEF Foreign
    <3>2. i \in DOMAIN u /\ u[i] = t[i] /\ i <= n
      BY <1>1, <1>2, <3>1
    <3>3. \A b, e \in DOMAIN u : IsBlock(u, b, e) => ~(b < i /\ i < e)
      BY <1>1, <1>6, <3>2
    <3>. QED BY <3>1, <3>2, <3>3 DEF Foreign
  <2>2. ASSUME NEW i \in Foreign(u) PROVE i \in Foreign(t)
    <3>1. /\ i \in DOMAIN u /\ u[i] # Begin /\ u[i] # End
          /\ \A b, e \in DOMAIN u : IsBlock(u, b, e) => ~(b < i /\ i < e)
      BY DEF Foreign
    <3>2. n + 1 \in DOMAIN u /\ n + 3 \in DOMAIN u
      BY <1>1
    <3>3. i # n + 1 /\ i # n + 3 /\ ~(n + 1 < i /\ i < n + 3)
      BY <1>2, <1>5, <3>1, <3>2
    <3>4. i \in DOMAIN t
      BY <1>1, <3>1, <3>3
    <3>. QED BY <1>1, <1>2, <1>4, <3>1, <3>4 DEF Foreign
  <2>. QED BY <2>1, <2>2
<1> DEFINE at == [i \in Foreign(t) |-> i]
<1>8. at \in [Foreign(t) -> Foreign(u)] /\ \A i \in Foreign(t) : at[i] = i
  BY <1>7
<1>9. \A i \in Foreign(t) : u[i] = t[i]
  BY <1>1, <1>2 DEF Foreign
<1> HIDE DEF at
<1>10. SameForeign(t, u)
  BY <1>7, <1>8, <1>9 DEF SameForeign
<1>. QED BY <1>10 DEF u

-----------------------------------------------------------------------------

\* A stack that passes validate_stack lets no failure of tess decide.
LEMMA ValidFailsOpen ==
    ASSUME NEW s \in Seq(Line), ValidateStack(s)
    PROVE  FailsOpen(s)
<1>1. SUFFICES ASSUME NEW i \in DOMAIN s, s[i].kind = "tess",
                      NEW code \in {"auth_err", "session_err"}
               PROVE  PamAction(s[i].control, code) = "ignore"
  BY DEF FailsOpen
<1> DEFINE control == s[i].control
           pairs == control.pairs
           naming(key) == {k \in DOMAIN pairs : pairs[k][1] = key}
<1>2. /\ control.word \in {"optional", "required", "[]"}
      /\ pairs \in Seq(STRING \X STRING)
  <2>1. s[i] \in Line
    BY ElementOfSeq, LenProperties
  <2>. QED BY <1>1, <2>1 DEF Line
<1>3. ControlIsFailOpen(control)
  BY <1>1 DEF ValidateStack
<1>4. code # "success"
  BY <1>1
<1> HIDE DEF control
<1>5. CASE control.word = "optional"
  BY <1>4, <1>5 DEF PamAction, control
<1>6. CASE control.word # "optional"
  <2>1. /\ control.word = "[]"
        /\ naming("default") # {}
        /\ \A k \in DOMAIN pairs :
              pairs[k][1] # "success" => pairs[k][2] = "ignore"
    BY <1>3, <1>6 DEF ControlIsFailOpen
  <2>2. DOMAIN pairs = 1..Len(pairs) /\ Len(pairs) \in Nat
    BY <1>2, LenProperties
  <2>3. ASSUME NEW key, key # "success", naming(key) # {}
        PROVE  pairs[Max(naming(key))][2] = "ignore"
    <3>1. naming(key) \in SUBSET (1..Len(pairs))
      BY <2>2
    <3>2. Max(naming(key)) \in naming(key)
      <4> HIDE DEF naming
      <4>. QED BY <2>2, <2>3, <3>1, MaxOfPositions
    <3>. QED BY <2>1, <2>3, <3>2
  <2>4. control.word # "required"
    BY <2>1
  <2>5. CASE naming(code) # {}
    <3>1. pairs[Max(naming(code))][2] = "ignore"
      BY <1>4, <2>3, <2>5
    <3>. QED BY <1>6, <2>1, <2>4, <2>5, <3>1 DEF PamAction, control
  <2>6. CASE naming(code) = {}
    <3>1. pairs[Max(naming("default"))][2] = "ignore"
      BY <2>1, <2>3
    <3>. QED BY <1>6, <2>1, <2>4, <2>6, <3>1 DEF PamAction, control
  <2>. QED BY <2>5, <2>6
<1>. QED BY <1>5, <1>6

-----------------------------------------------------------------------------
(* The invariant. *)

\* The stack as the administrator wrote it without its tess blocks, and with
\* the one block after it.
Rest == RemoveBlock(admins)
Wired == Rest \o BlockText

\* What may stand in the service file, now or after a loss of power.
Legitimate(s) == s = admins \/ (s \in {Rest, Wired} /\ ValidateStack(s))

Files ==
    /\ DOMAIN file = Name /\ DOMAIN disk = Name
    /\ file["stack"] \in disk["stack"]
    /\ \A s \in disk["stack"] : Legitimate(s)
    /\ file["module"] \in disk["module"]
    /\ disk["module"] \subseteq {"none", "installed"}

BackingUp == pc \in {"backup", "write_backup", "sync_backup", "sync_backup_dir"}
Unwiring == pc \in {"remove_module", "remove_backup", "uninstalled"}

\* Where a command is, and what it writes.
Steps ==
    /\ op \in {"none", "install", "uninstall"}
    /\ target \in {"none", "module", "stack"}
    /\ pc \in {"stage", "rename", "sync_dir"} =>
          \/ op = "install" /\ target \in {"module", "stack"}
          \/ op = "uninstall" /\ target = "stack"
    /\ pc = "idle" => target = "none"
    /\ pc # "idle" => report = "none"
    /\ BackingUp => op = "install"
    /\ Unwiring => op = "uninstall"
    /\ op = "install" => edited = Wired /\ ValidateStack(edited)
    /\ op = "uninstall" /\ target = "stack" =>
          edited = Rest /\ ValidateStack(edited)
    /\ pc = "rename" => staged = "synced"
    /\ pc = "sync_dir" => file[target] = IF target = "stack" THEN edited
                                         ELSE "installed"

\* The block is committed after the module, and the module goes after it.
Order ==
    /\ op = "install" /\ (BackingUp \/ target = "stack") =>
          disk["module"] = {"installed"}
    /\ pc = "installed" => file["stack"] = Wired
    /\ Unwiring => ~HasBlock(file["stack"])
    /\ pc \in {"remove_backup", "uninstalled"} /\ dirKnown =>
          file["module"] = "none"

Reports ==
    /\ report = "installed" => file["stack"] = Wired
    /\ report \in {"uninstalled", "unwired"} => ~HasBlock(file["stack"])
    /\ report = "uninstalled" => file["module"] = "none"

IndInv == admins \in AdminStacks /\ Files /\ Steps /\ Order /\ Reports

\* What a command computes from a stack that may stand in the service file.
LEMMA EditsOfLegitimate ==
    ASSUME admins \in AdminStacks
    PROVE  /\ ~HasBlock(Rest)
           /\ \A s : Legitimate(s) =>
                    RemoveBlock(s) = Rest /\ AddBlock(s) = Wired
<1>1. admins \in Seq(Line)
  BY StacksAssumption
<1>2. Rest \in Seq(Line) /\ ~HasBlock(Rest)
  BY <1>1, NoBlockIsLeft DEF Rest
<1>3. RemoveBlock(Rest) = Rest
  BY <1>2, NothingToRemove
<1>4. RemoveBlock(Wired) = Rest
  BY <1>2, AddedBlockGoes DEF Wired
<1>5. RemoveBlock(admins) = Rest
  BY Zenon DEF Rest
<1>6. ASSUME NEW s, Legitimate(s) PROVE RemoveBlock(s) = Rest
  BY <1>3, <1>4, <1>5, <1>6, Zenon DEF Legitimate
<1>. QED BY <1>2, <1>6, Zenon DEF AddBlock, Wired

LEMMA InitInv == Init => IndInv
<1> SUFFICES ASSUME Init PROVE IndInv
  OBVIOUS
<1>1. PICK backup \in {"none", "odd"} :
         file = [f \in Name |-> CASE f = "stack" -> admins
                                  [] f = "module" -> "none"
                                  [] f = "backup" -> backup]
  BY DEF Init
<1>2. /\ DOMAIN file = Name /\ DOMAIN disk = Name
      /\ file["stack"] = admins /\ file["module"] = "none"
      /\ disk["stack"] = {file["stack"]} /\ disk["module"] = {file["module"]}
  BY <1>1 DEF Init, Name
<1>3. Files
  BY <1>2 DEF Files, Legitimate
<1>. QED BY <1>3 DEF Init, IndInv, Steps, Order, Reports, BackingUp, Unwiring

\* Every step keeps the invariant.
LEMMA StepInv == IndInv /\ [Next]_vars => IndInv'
<1> SUFFICES ASSUME IndInv, [Next]_vars PROVE IndInv'
  OBVIOUS
<1> USE DEF IndInv, Legitimate, Rest, Wired, Name, Files, Steps, Order, Reports,
            BackingUp, Unwiring
<1>1. CASE InstallBegin
  <2>1. edited' = Wired /\ ValidateStack(edited')
    BY <1>1, EditsOfLegitimate DEF InstallBegin
  <2>. QED BY <1>1, <2>1 DEF InstallBegin, Starts
<1>2. CASE UninstallBegin
  <2>1. CASE HasBlock(file["stack"])
    <3>1. edited' = Rest /\ ValidateStack(edited')
      BY <1>2, <2>1, EditsOfLegitimate DEF UninstallBegin
    <3>. QED BY <1>2, <2>1, <3>1 DEF UninstallBegin, Starts
  <2>2. CASE ~HasBlock(file["stack"])
    BY <1>2, <2>2 DEF UninstallBegin, Starts
  <2>. QED BY <2>1, <2>2
<1>3. CASE Stage
  BY <1>3 DEF Stage, Goes, command
<1>4. CASE Rename
  BY <1>4 DEF Rename, Puts, Goes, command
<1>5. CASE SyncParentDir
  BY <1>5, EditsOfLegitimate DEF SyncParentDir, SyncsDirOf, AfterWrite, command
<1>6. CASE CheckBackup
  BY <1>6 DEF CheckBackup, Puts, Starts, Goes, Ends, command
<1>7. CASE WriteBackup
  BY <1>7 DEF WriteBackup, Puts, Goes, command
<1>8. CASE SyncBackup
  BY <1>8 DEF SyncBackup, Goes, command
<1>9. CASE SyncBackupDir
  BY <1>9 DEF SyncBackupDir, SyncsDirOf, Starts, Goes, command
<1>10. CASE Installed
  BY <1>10 DEF Installed, Ends
<1>11. CASE RemoveModule
  BY <1>11 DEF RemoveModule, Removes, Puts, Goes, command
<1>12. CASE RemoveBackup
  BY <1>12 DEF RemoveBackup, Removes, Puts, Goes, command
<1>13. CASE Uninstalled
  BY <1>13 DEF Uninstalled, Ends
<1>14. CASE Fails
  BY <1>14 DEF Fails, Ends
<1>15. CASE PowerLoss
  BY <1>15 DEF PowerLoss, Ends
<1>16. CASE AdminEdits
  BY <1>16 DEF AdminEdits, Ends
<1>17. CASE UNCHANGED vars
  BY <1>17 DEF vars
<1>. QED
  BY <1>1, <1>2, <1>3, <1>4, <1>5, <1>6, <1>7, <1>8, <1>9, <1>10, <1>11, <1>12,
     <1>13, <1>14, <1>15, <1>16, <1>17 DEF Next

-----------------------------------------------------------------------------
(* Theorems. *)

\* The invariant holds whatever stacks an administrator may write.
THEOREM Inductive == Spec => []IndInv
BY InitInv, StepInv, PTL DEF Spec

\* No sequence of installs, uninstalls, failures and losses of power costs the
\* administrator a line outside the tess blocks, or leaves a truncated stack,
\* whatever markers stray in it, unless a block is nested in another (install,
\* uninstall, remove_block).
THEOREM LinesAreKept == Spec => []AdminLinesKept
<1>1. IndInv => AdminLinesKept
  <2> SUFFICES ASSUME IndInv, ~Nested(admins)
               PROVE  SameForeign(admins, file["stack"])
    BY DEF AdminLinesKept
  <2>1. admins \in Seq(Line)
    BY StacksAssumption DEF IndInv
  <2>2. SameForeign(admins, Rest)
    BY <2>1, RemovalKeeps DEF Rest
  <2>3. Rest \in Seq(Line) /\ ~HasBlock(Rest)
    BY <2>1, NoBlockIsLeft DEF Rest
  <2>4. SameForeign(Rest, Wired)
    BY <2>3, AddedLinesAreOurs DEF Wired
  <2>5. SameForeign(admins, Wired)
    BY <2>2, <2>4, SameByTwo
  <2>6. SameForeign(admins, admins)
    BY SameAsItself
  <2>7. file["stack"] \in {admins, Rest, Wired}
    BY DEF IndInv, Files, Legitimate
  <2>. QED BY <2>2, <2>5, <2>6, <2>7, Zenon
<1>. QED BY <1>1, Inductive, PTL

\* A stack that tess has written lets no failure of tess decide about a login,
\* whatever control flags its other tess lines have (validate_stack).
THEOREM AlwaysFailsOpen == Spec => []TessFailsOpen
<1>1. IndInv => TessFailsOpen
  <2> SUFFICES ASSUME IndInv, file["stack"] # admins
               PROVE  FailsOpen(file["stack"])
    BY DEF TessFailsOpen
  <2>1. file["stack"] \in {Rest, Wired} /\ ValidateStack(file["stack"])
    BY DEF IndInv, Files, Legitimate
  <2>2. Rest \in Seq(Line) /\ Wired \in Seq(Line)
    <3>1. admins \in Seq(Line)
      BY StacksAssumption DEF IndInv
    <3>2. Rest \in Seq(Line) /\ ~HasBlock(Rest)
      BY <3>1, NoBlockIsLeft DEF Rest
    <3>. QED BY <3>2, AddedBlockGoes DEF Wired
  <2>. QED BY <2>1, <2>2, ValidFailsOpen
<1>. QED BY <1>1, Inductive, PTL

\* After an uninstall nothing of tess is loaded, though earlier runs died
\* between the removal of the block and that of the module (uninstall).
THEOREM NothingIsLeft == Spec => []UninstalledWhole
<1>1. IndInv => UninstalledWhole
  BY DEF IndInv, Reports, UninstalledWhole
<1>. QED BY <1>1, Inductive, PTL

\* After an install there is one block, the last lines of the stack, however
\* often it was run (add_block).
THEOREM OneBlock == Spec => []InstalledOnce
<1>1. IndInv => InstalledOnce
  <2> SUFFICES ASSUME IndInv, report = "installed"
               PROVE  LET s == file["stack"]
                          n == Len(s) - Len(BlockText)
                      IN  /\ SubSeq(s, n + 1, Len(s)) = BlockText
                          /\ ~HasBlock(SubSeq(s, 1, n))
    BY DEF InstalledOnce
  <2>1. file["stack"] = Rest \o BlockText
    BY DEF IndInv, Reports, Wired
  <2>2. Rest \in Seq(Line) /\ ~HasBlock(Rest)
    <3>1. admins \in Seq(Line)
      BY StacksAssumption DEF IndInv
    <3>. QED BY <3>1, NoBlockIsLeft DEF Rest
  <2>3. BlockText \in Seq(Line) /\ Len(BlockText) = 3
    BY BlockTextLines
  <2>. QED BY <2>1, <2>2, <2>3, CutConcat
<1>. QED BY <1>1, Inductive, PTL

\* The block is committed after the module is durable, and the module goes after
\* the block (the order of install and of uninstall).
THEOREM ModuleFirst == Spec => ModuleUnderStack
<1>1. IndInv => /\ pc = "rename" /\ op = "install" /\ target = "stack" =>
                      disk["module"] = {"installed"}
                /\ pc = "remove_module" => ~HasBlock(file["stack"])
  BY DEF IndInv, Order, Unwiring
<1>2. IndInv =>
        [/\ pc = "rename" /\ op = "install" /\ target = "stack" =>
               disk["module"] = {"installed"}
         /\ file["module"] = "installed" /\ file'["module"] = "none"
               /\ pc = "remove_module" => ~HasBlock(file["stack"])]_vars
  BY <1>1
<1>. QED BY <1>2, Inductive, PTL DEF ModuleUnderStack
==============================================================================
