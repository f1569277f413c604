------------------------ MODULE BuildsSnapshotProofs ------------------------
(***************************************************************************)
(* The build selection and the snapshot made of it, for any cards, any     *)
(* facts, any number of candidates, any core and any width of the board.   *)
(*                                                                         *)
(* First the selection loop; then what a board, a build key, a layout and  *)
(* a representative are; then the payload, table by table.                 *)
(***************************************************************************)
EXTENDS BuildsSnapshot, IntegerSetProofs

\* `covered` is exact, and a card not yet covered is still to be looked at.
CoverInv ==
    /\ TypeOK
    /\ covered = CardsOf(selected)
    /\ CardsOf(Ranked) \subseteq covered \cup pending

\* The selected builds are numbered through.
OrderInv ==
    /\ TypeOK /\ Core \subseteq selected
    /\ \A i \in selected : order[i] \in 1 .. Cardinality(selected)
    /\ \A i, j \in selected : order[i] = order[j] => i = j
    /\ AppendedEarnsItsPlace

LEMMA SelectedFinite ==
  ASSUME TypeOK
  PROVE  IsFiniteSet(selected) /\ Cardinality(selected) \in Nat /\ count \in Nat
<1>1. count \in Nat
  BY SelectionAssumption DEF TypeOK
<1>2. IsFiniteSet(Ranked)
  BY <1>1, FS_Interval DEF Ranked
<1>3. selected \in SUBSET Ranked
  BY DEF TypeOK
<1> QED  BY <1>1, <1>2, <1>3, FS_Subset, FS_CardinalityType

LEMMA InitType == Init => TypeOK
<1> SUFFICES ASSUME Init  PROVE  TypeOK
  OBVIOUS
<1>1. count \in Nat /\ Core \subseteq Ranked /\ Core \subseteq Nat
  BY SelectionAssumption DEF Init, Core, Ranked
<1>2. identity \in [Ranked -> SUBSET Cards]
  BY DEF Init, Ranked
<1>3. CardsOf(Core) \subseteq Cards /\ CardsOf(Ranked) \subseteq Cards
  BY <1>1, <1>2 DEF CardsOf
<1>4. order \in [selected -> Nat]
  BY <1>1 DEF Init
<1> QED  BY <1>1, <1>2, <1>3, <1>4 DEF Init, TypeOK, AbsentCards

\* What AppendBest does when it is taken: the candidate is always a new one.
LEMMA AppendAdds ==
  ASSUME CoverInv, NEW card \in Cards, NEW i \in Ranked, AppendBest(card, i)
  PROVE  /\ i \notin selected /\ selected' = selected \cup {i}
         /\ covered' = covered \cup identity[i]
         /\ order' = [j \in selected \cup {i} |->
                        IF j = i THEN Cardinality(selected) + 1 ELSE order[j]]
         /\ UNCHANGED <<count, identity>> /\ pending' = pending \ {card}
<1>1. card \in identity[i] /\ card \notin covered
  BY DEF AppendBest, IsBestWith
<1>2. i \notin selected
  BY <1>1 DEF CoverInv, CardsOf
<1> QED  BY <1>2 DEF AppendBest

LEMMA TypeStep == CoverInv /\ [Next]_vars => TypeOK'
<1> SUFFICES ASSUME CoverInv, [Next]_vars  PROVE  TypeOK'
  OBVIOUS
<1>0. TypeOK
  BY DEF CoverInv
<1>1. CASE UNCHANGED vars
  BY <1>0, <1>1 DEF vars, TypeOK, Ranked
<1>2. ASSUME NEW card \in Cards, SkipCoveredCard(card)  PROVE  TypeOK'
  BY <1>0, <1>2 DEF SkipCoveredCard, TypeOK, Ranked
<1>3. ASSUME NEW card \in Cards, NEW i \in Ranked, AppendBest(card, i)  PROVE  TypeOK'
  <2>0. /\ i \notin selected /\ selected' = selected \cup {i}
        /\ covered' = covered \cup identity[i]
        /\ order' = [j \in selected \cup {i} |->
                       IF j = i THEN Cardinality(selected) + 1 ELSE order[j]]
        /\ UNCHANGED <<count, identity>> /\ pending' = pending \ {card}
    BY <1>3, AppendAdds
  <2>1. Ranked' = Ranked /\ selected' \subseteq Ranked /\ covered' \subseteq Cards
    BY <1>0, <2>0 DEF TypeOK, Ranked
  <2>2. order' \in [selected' -> Nat]
    BY <1>0, <2>0, SelectedFinite DEF TypeOK
  <2> QED  BY <1>0, <2>0, <2>1, <2>2 DEF TypeOK
<1> QED  BY <1>1, <1>2, <1>3 DEF Next

\* In every state of the selection what is covered is what the selected builds
\* contain, and no uncovered card has been passed over (select_build_identities).
THEOREM CoverInvariant == Spec => []CoverInv
<1>1. Init => CoverInv
  BY InitType DEF Init, CoverInv, AbsentCards
<1>2. CoverInv /\ [Next]_vars => CoverInv'
  <2> SUFFICES ASSUME CoverInv, [Next]_vars  PROVE  CoverInv'
    OBVIOUS
  <2>0. TypeOK'
    BY TypeStep
  <2>1. CASE UNCHANGED vars
    BY <2>0, <2>1 DEF vars, CoverInv, CardsOf, Ranked
  <2>2. ASSUME NEW card \in Cards, SkipCoveredCard(card)  PROVE  CoverInv'
    BY <2>0, <2>2 DEF SkipCoveredCard, CoverInv, CardsOf, Ranked
  <2>3. ASSUME NEW card \in Cards, NEW i \in Ranked, AppendBest(card, i)  PROVE  CoverInv'
    <3>0. /\ i \notin selected /\ selected' = selected \cup {i}
          /\ covered' = covered \cup identity[i]
          /\ order' = [j \in selected \cup {i} |->
                         IF j = i THEN Cardinality(selected) + 1 ELSE order[j]]
          /\ UNCHANGED <<count, identity>> /\ pending' = pending \ {card}
      BY <2>3, AppendAdds
    <3>1. card \in identity[i]
      BY <2>3 DEF AppendBest, IsBestWith
    <3>2. covered' = CardsOf(selected)'
      BY <3>0 DEF CoverInv, CardsOf
    <3>3. CardsOf(Ranked)' = CardsOf(Ranked)
      BY <3>0 DEF CardsOf, Ranked
    <3> QED  BY <2>0, <3>0, <3>1, <3>2, <3>3 DEF CoverInv
  <2> QED  BY <2>1, <2>2, <2>3 DEF Next
<1> QED  BY <1>1, <1>2, PTL DEF Spec

\* No card that any candidate contains is missing from the published builds
\* (select_build_identities).
THEOREM NoCardLost == Spec => []EveryCardCovered
<1>1. CoverInv => EveryCardCovered
  <2> SUFFICES ASSUME CoverInv  PROVE  EveryCardCovered
    OBVIOUS
  <2>1. CardsOf(selected) \subseteq CardsOf(Ranked)
    BY DEF CoverInv, TypeOK, CardsOf
  <2> QED  BY <2>1 DEF CoverInv, EveryCardCovered, Done
<1> QED  BY <1>1, CoverInvariant, PTL

\* The core stays selected, and the selected builds have different numbers from 1
\* to how many they are (select_build_identities).
THEOREM OrderInvariant == Spec => []OrderInv
<1>1. Init => OrderInv
  <2> SUFFICES ASSUME Init  PROVE  OrderInv
    OBVIOUS
  <2>1. TypeOK
    BY InitType
  <2>2. /\ \A i \in selected : order[i] \in 1 .. Cardinality(selected)
        /\ \A i, j \in selected : order[i] = order[j] => i = j
    <3>1. PICK n \in Nat : Core = 1 .. n
      <4>1. CASE count <= CoreLimit
        BY <2>1, <4>1, SelectionAssumption, SelectedFinite DEF Core, Ranked
      <4>2. CASE CoreLimit < count
        BY <2>1, <4>2, SelectionAssumption, SelectedFinite DEF Core, Ranked
      <4> QED  BY <2>1, <4>1, <4>2, SelectedFinite, SelectionAssumption
    <3>2. Cardinality(Core) = n
      BY <3>1, FS_Interval
    <3> QED  BY <3>1, <3>2 DEF Init
  <2> QED  BY <2>1, <2>2 DEF Init, OrderInv, AppendedEarnsItsPlace
<1>2. CoverInv /\ OrderInv /\ [Next]_vars => OrderInv'
  <2> SUFFICES ASSUME CoverInv, OrderInv, [Next]_vars  PROVE  OrderInv'
    OBVIOUS
  <2>0. TypeOK /\ TypeOK'
    BY TypeStep DEF CoverInv
  <2>1. CASE UNCHANGED vars
    BY <2>0, <2>1 DEF vars, OrderInv, AppendedEarnsItsPlace, Core, Ranked
  <2>2. ASSUME NEW card \in Cards, SkipCoveredCard(card)  PROVE  OrderInv'
    BY <2>0, <2>2 DEF SkipCoveredCard, OrderInv, AppendedEarnsItsPlace, Core, Ranked
  <2>3. ASSUME NEW card \in Cards, NEW i \in Ranked, AppendBest(card, i)  PROVE  OrderInv'
    <3>0. /\ i \notin selected /\ selected' = selected \cup {i}
          /\ covered' = covered \cup identity[i]
          /\ order' = [j \in selected \cup {i} |->
                         IF j = i THEN Cardinality(selected) + 1 ELSE order[j]]
          /\ UNCHANGED <<count, identity>> /\ pending' = pending \ {card}
      BY <2>3, AppendAdds
    <3> DEFINE n == Cardinality(selected)
    <3>1. n \in Nat /\ Cardinality(selected') = n + 1 /\ order \in [selected -> Nat]
      BY <2>0, <2>3, <3>0, SelectedFinite, FS_AddElement DEF TypeOK
    <3>2. order'[i] = n + 1 /\ \A j \in selected : order'[j] = order[j] /\ order[j] \in 1 .. n
      BY <3>0 DEF OrderInv
    <3>3. /\ \A j \in selected' : order'[j] \in 1 .. Cardinality(selected')
          /\ \A j, k \in selected' : order'[j] = order'[k] => j = k
      <4>1. \A j, k \in selected : order[j] = order[k] => j = k
        BY DEF OrderInv
      <4> HIDE DEF n
      <4> QED  BY <3>0, <3>1, <3>2, <4>1
    <3>4. ASSUME NEW k \in selected' \ Core'
          PROVE  \E c \in identity'[k] :
                   /\ \A j \in Ranked' : c \in identity'[j] => k <= j
                   /\ \A j \in selected' : order'[j] < order'[k] => c \notin identity'[j]
      <4>1. identity' = identity /\ Ranked' = Ranked /\ Core' = Core
        BY <3>0 DEF Ranked, Core
      <4>2. CASE k = i
        <5>1. /\ card \in identity[i] /\ card \notin covered
              /\ \A j \in Ranked : card \in identity[j] => i <= j
          BY <2>3 DEF AppendBest, IsBestWith
        <5>2. \A j \in selected : card \notin identity[j]
          BY <5>1 DEF CoverInv, CardsOf
        <5>3. \A j \in selected' : order'[j] < order'[i] => j \in selected
          BY <3>0, <3>1, <3>2
        <5> QED  BY <4>1, <4>2, <5>1, <5>2, <5>3
      <4>3. CASE k # i
        <5>1. k \in selected \ Core
          BY <3>0, <4>1, <4>3
        <5>2. PICK c \in identity[k] :
                /\ \A j \in Ranked : c \in identity[j] => k <= j
                /\ \A j \in selected : order[j] < order[k] => c \notin identity[j]
          BY <5>1 DEF OrderInv, AppendedEarnsItsPlace
        <5>3. \A j \in selected' : order'[j] < order'[k] => j \in selected
          BY <3>0, <3>1, <3>2, <5>1
        <5> QED  BY <3>2, <4>1, <5>1, <5>2, <5>3
      <4> QED  BY <4>2, <4>3
    <3>5. Core' \subseteq selected'
      BY <3>0 DEF OrderInv, Core, Ranked
    <3> QED  BY <2>0, <3>3, <3>4, <3>5 DEF OrderInv, AppendedEarnsItsPlace
  <2> QED  BY <2>1, <2>2, <2>3 DEF Next
<1> QED  BY <1>1, <1>2, CoverInvariant, PTL DEF Spec

\* Whatever was appended to the core is the best candidate for some card that
\* nothing selected before it had (select_build_identities).
THEOREM AppendedAreNeeded == Spec => []AppendedEarnsItsPlace
<1>1. OrderInv => AppendedEarnsItsPlace
  BY DEF OrderInv
<1> QED  BY <1>1, OrderInvariant, PTL

-----------------------------------------------------------------------------
\* The squares of the board that the rows of J take up, row by row.
Squares(rows, J) == UNION { {at} \X Cells(rows[at]) : at \in J }

\* A family of rows that have a place and a size.
Sized(rows) ==
    /\ IsFiniteSet(DOMAIN rows)
    /\ \A at \in DOMAIN rows : rows[at].slot \in Int /\ rows[at].size \in Nat

LEMMA CellsOfRow ==
  ASSUME NEW row, row.slot \in Int, row.size \in Nat
  PROVE  IsFiniteSet(Cells(row)) /\ Cardinality(Cells(row)) = row.size
<1> DEFINE a == row.slot
           b == row.slot + row.size - 1
<1>1. a \in Int /\ b \in Int /\ b - a + 1 = row.size /\ (a > b <=> row.size = 0)
  OBVIOUS
<1>2. Cells(row) = a .. b
  BY DEF Cells
<1> HIDE DEF a, b
<1>3. IsFiniteSet(a .. b) /\ Cardinality(a .. b) = IF a > b THEN 0 ELSE b - a + 1
  BY <1>1, FS_Interval
<1> QED  BY <1>1, <1>2, <1>3

LEMMA SquaresFinite ==
  ASSUME NEW rows, Sized(rows), NEW J \in SUBSET DOMAIN rows
  PROVE  IsFiniteSet(Squares(rows, J))
<1> DEFINE parts == { {at} \X Cells(rows[at]) : at \in J }
           f == [at \in J |-> {at} \X Cells(rows[at])]
<1>1. IsFiniteSet(J)
  BY FS_Subset DEF Sized
<1>2. f \in Surjection(J, parts)
  BY DEF Surjection
<1>3. IsFiniteSet(parts)
  BY <1>1, <1>2, FS_Surjection
<1>4. ASSUME NEW at \in J  PROVE  IsFiniteSet({at} \X Cells(rows[at]))
  <2>1. IsFiniteSet(Cells(rows[at]))
    BY CellsOfRow DEF Sized
  <2> QED  BY <2>1, FS_Singleton, FS_Product
<1>5. \A T \in parts : IsFiniteSet(T)
  BY <1>4
<1> HIDE DEF parts
<1>6. IsFiniteSet(UNION parts)
  BY <1>3, <1>5, FS_UNION
<1> QED  BY <1>6 DEF parts, Squares

\* The sum of the sizes counts the squares.
LEMMA TotalIsSquares ==
  ASSUME NEW rows, Sized(rows)
  PROVE  TotalSize(rows) = Cardinality(Squares(rows, DOMAIN rows))
<1> DEFINE I == DOMAIN rows
           size == [at \in I |-> rows[at].size]
           total == [J \in SUBSET I |-> Cardinality(Squares(rows, J))]
<1>1. size \in [I -> Int] /\ IsFiniteSet(I)
  BY DEF Sized
<1>2. total \in [SUBSET I -> Int]
  BY SquaresFinite, FS_CardinalityType
<1>3. total[{}] = 0
  BY FS_EmptySet DEF Squares
<1>4. ASSUME NEW J \in SUBSET I, NEW a \in J
      PROVE  total[J] = size[a] + total[J \ {a}]
  <2> DEFINE rest == Squares(rows, J \ {a})
             own == {a} \X Cells(rows[a])
  <2>1. IsFiniteSet(rest) /\ Cardinality(rest) \in Nat
    BY SquaresFinite, FS_CardinalityType
  <2>2. IsFiniteSet(Cells(rows[a])) /\ Cardinality(Cells(rows[a])) = size[a] /\ size[a] \in Nat
    BY CellsOfRow DEF Sized
  <2>3. IsFiniteSet(own) /\ Cardinality(own) = size[a]
    <3>1. IsFiniteSet({a}) /\ Cardinality({a}) = 1
      BY FS_Singleton
    <3> QED  BY <2>2, <3>1, FS_Product
  <2>4. Squares(rows, J) = rest \cup own /\ rest \cap own = {}
    BY DEF Squares
  <2>5. Cardinality(rest \cup own) = Cardinality(rest) + size[a]
    <3> HIDE DEF rest, own, size
    <3> QED  BY <2>1, <2>2, <2>3, <2>4, FS_Union, FS_EmptySet
  <2>6. total[J] = Cardinality(rest \cup own) /\ total[J \ {a}] = Cardinality(rest)
    <3>1. J \ {a} \in SUBSET I
      OBVIOUS
    <3> HIDE DEF own
    <3> QED  BY <2>4, <3>1
  <2> HIDE DEF rest, own, size, total
  <2> QED  BY <2>1, <2>2, <2>5, <2>6
<1>5. TotalSize(rows) = SumFunction(size)
  BY DEF TotalSize
<1> HIDE DEF size, total, I
<1>6. \A J \in SUBSET I : \A a \in J : total[J] = size[a] + total[J \ {a}]
  BY <1>4
<1>7. SumFunction(size) = total[I]
  BY <1>1, <1>2, <1>3, <1>6, SumIsAdditive
<1>8. total[I] = Cardinality(Squares(rows, I))
  BY DEF total
<1> QED  BY <1>5, <1>7, <1>8 DEF I

\* The sum does not depend on how the rows are indexed.
LEMMA TotalReindexed ==
  ASSUME NEW rows, Sized(rows), NEW other, NEW p \in Bijection(DOMAIN rows, DOMAIN other),
         \A at \in DOMAIN rows : /\ other[p[at]].slot = rows[at].slot
                                 /\ other[p[at]].size = rows[at].size
  PROVE  Sized(other) /\ TotalSize(other) = TotalSize(rows)
<1> DEFINE I == DOMAIN rows
           J == DOMAIN other
           q == [sq \in Squares(rows, I) |-> <<p[sq[1]], sq[2]>>]
<1>1. p \in [I -> J] /\ (\A i, j \in I : p[i] = p[j] => i = j)
                     /\ \A j \in J : \E i \in I : p[i] = j
  BY DEF Bijection, Injection, Surjection, IsInjective
<1>2. Sized(other)
  <2>1. IsFiniteSet(J)
    BY FS_Bijection DEF Sized, ExistsBijection
  <2>2. ASSUME NEW j \in J  PROVE  other[j].slot \in Int /\ other[j].size \in Nat
    BY <1>1 DEF Sized
  <2> QED  BY <2>1, <2>2 DEF Sized
<1>3. \A at \in I : Cells(other[p[at]]) = Cells(rows[at])
  BY DEF Cells
<1>4. q \in Bijection(Squares(rows, I), Squares(other, J))
  <2>1. \A sq \in Squares(rows, I) : sq = <<sq[1], sq[2]>> /\ sq[1] \in I /\ sq[2] \in Cells(rows[sq[1]])
    BY DEF Squares
  <2>2. q \in [Squares(rows, I) -> Squares(other, J)]
    <3>1. ASSUME NEW sq \in Squares(rows, I)
          PROVE  <<p[sq[1]], sq[2]>> \in Squares(other, J)
      BY <1>1, <1>3, <2>1 DEF Squares
    <3> QED  BY <3>1
  <2>3. \A s, t \in Squares(rows, I) : q[s] = q[t] => s = t
    BY <1>1, <2>1
  <2>4. ASSUME NEW t \in Squares(other, J)
        PROVE  \E s \in Squares(rows, I) : q[s] = t
    <3>1. t = <<t[1], t[2]>> /\ t[1] \in J /\ t[2] \in Cells(other[t[1]])
      BY DEF Squares
    <3>2. PICK i \in I : p[i] = t[1]
      BY <1>1, <3>1
    <3>3. <<i, t[2]>> \in Squares(rows, I)
      BY <1>3, <3>1, <3>2 DEF Squares
    <3> QED  BY <3>1, <3>2, <3>3
  <2> QED  BY <2>2, <2>3, <2>4 DEF Bijection, Injection, Surjection, IsInjective
<1>5. Cardinality(Squares(other, J)) = Cardinality(Squares(rows, I))
  BY <1>4, SquaresFinite, FS_Bijection DEF ExistsBijection
<1> QED  BY <1>2, <1>5, TotalIsSquares

\* A board that is as large as the sum of its items and covered by them has
\* every square under exactly one item, and the other way round.
LEMMA FullIsTiled ==
  ASSUME NEW rows, Sized(rows)
  PROVE  FillsBoard(rows) <=>
           /\ \A at \in DOMAIN rows :
                rows[at].slot >= 0 /\ rows[at].slot + rows[at].size <= Width
           /\ \A cell \in 0 .. Width - 1 :
                Cardinality({ at \in DOMAIN rows : cell \in Cells(rows[at]) }) = 1
<1> DEFINE I == DOMAIN rows
           board == 0 .. Width - 1
           all == Squares(rows, I)
           cellOf == [sq \in all |-> sq[2]]
           under(cell) == { at \in I : cell \in Cells(rows[at]) }
           inside == \A at \in I : rows[at].slot >= 0 /\ rows[at].slot + rows[at].size <= Width
<1>1. IsFiniteSet(board) /\ Cardinality(board) = Width /\ Width \in Nat
  BY SnapshotAssumption, FS_Interval
<1>2. IsFiniteSet(all) /\ TotalSize(rows) = Cardinality(all)
  BY SquaresFinite, TotalIsSquares
<1>3. \A sq \in all : sq = <<sq[1], sq[2]>> /\ sq[1] \in I /\ sq[2] \in Cells(rows[sq[1]])
  BY DEF Squares
<1>4. \A at \in I : \A cell \in Cells(rows[at]) : <<at, cell>> \in all
  BY DEF Squares
<1>5. UNION { Cells(row) : row \in Range(rows) } = UNION { Cells(rows[at]) : at \in I }
  BY DEF Range
<1>6. inside => \A at \in I : Cells(rows[at]) \subseteq board
  BY SnapshotAssumption DEF Cells, Sized
<1>7. (\A row \in Range(rows) : row.slot >= 0 /\ row.slot + row.size <= Width) <=> inside
  BY DEF Range
<1>8. \A cell \in board : IsFiniteSet(under(cell))
  BY FS_Subset DEF Sized
<1> HIDE DEF all, board
<1>9. ASSUME FillsBoard(rows), NEW cell \in board
      PROVE  Cardinality(under(cell)) = 1
  <2>1. inside /\ Cardinality(all) = Width /\ UNION { Cells(rows[at]) : at \in I } = board
    BY <1>2, <1>5, <1>7, <1>9 DEF FillsBoard, FillsBoard_Overlapping, board
  <2>2. cellOf \in Surjection(all, board)
    <3>1. cellOf \in [all -> board]
      BY <1>3, <1>6, <2>1
    <3>2. ASSUME NEW c \in board  PROVE  \E sq \in all : cellOf[sq] = c
      <4>1. PICK at \in I : c \in Cells(rows[at])
        BY <2>1
      <4>2. <<at, c>> \in all
        BY <1>4, <4>1
      <4> QED  BY <4>2
    <3> QED  BY <3>1, <3>2 DEF Surjection
  <2>3. cellOf \in Injection(all, board)
    BY <1>1, <1>2, <2>1, <2>2, FS_Surjection
  <2>4. \A s, t \in all : s[2] = t[2] => s = t
    BY <2>3 DEF Injection, IsInjective
  <2>5. PICK at \in I : cell \in Cells(rows[at])
    BY <1>9, <2>1
  <2>6. under(cell) = {at}
    <3>1. ASSUME NEW b \in under(cell)  PROVE  b = at
      <4>1. <<b, cell>> \in all /\ <<at, cell>> \in all
        BY <1>4, <2>5
      <4>2. <<b, cell>>[2] = <<at, cell>>[2]
        OBVIOUS
      <4>3. <<b, cell>> = <<at, cell>>
        BY <2>4, <4>1, <4>2
      <4> QED  BY <4>3
    <3> QED  BY <2>5, <3>1
  <2> QED  BY <2>6, FS_Singleton
<1>10. ASSUME inside, \A cell \in board : Cardinality(under(cell)) = 1
       PROVE  FillsBoard(rows)
  <2>1. \A cell \in board : \E at : under(cell) = {at}
    BY <1>8, <1>10, FS_Singleton
  <2>2. UNION { Cells(rows[at]) : at \in I } = board
    <3>1. ASSUME NEW cell \in board  PROVE  \E at \in I : cell \in Cells(rows[at])
      BY <2>1
    <3>2. \A at \in I : Cells(rows[at]) \subseteq board
      BY <1>6, <1>10
    <3> QED  BY <3>1, <3>2
  <2>3. cellOf \in Bijection(all, board)
    <3>1. cellOf \in [all -> board]
      BY <1>3, <2>2
    <3>2. ASSUME NEW s \in all, NEW t \in all, cellOf[s] = cellOf[t]  PROVE  s = t
      <4>1. s[2] = t[2] /\ s[2] \in board
        BY <3>1, <3>2
      <4>2. s[1] \in under(s[2]) /\ t[1] \in under(s[2])
        BY <1>3, <4>1
      <4>3. s[1] = t[1]
        BY <2>1, <4>1, <4>2
      <4> QED  BY <1>3, <4>1, <4>3
    <3>3. ASSUME NEW c \in board  PROVE  \E sq \in all : cellOf[sq] = c
      <4>1. PICK at \in I : c \in Cells(rows[at])
        BY <2>2
      <4>2. <<at, c>> \in all
        BY <1>4, <4>1
      <4> QED  BY <4>2
    <3> QED  BY <3>1, <3>2, <3>3 DEF Bijection, Injection, Surjection, IsInjective
  <2>4. TotalSize(rows) = Width
    BY <1>1, <1>2, <2>3, FS_Bijection DEF ExistsBijection
  <2> QED  BY <1>5, <1>7, <1>10, <2>2, <2>4 DEF FillsBoard, FillsBoard_Overlapping, board
<1>11. FillsBoard(rows) => inside
  BY <1>7 DEF FillsBoard, FillsBoard_Overlapping
<1> QED  BY <1>9, <1>10, <1>11 DEF board

-----------------------------------------------------------------------------
\* A card set becomes rows of integers.
LEMMA PlacedTyped ==
  ASSUME NEW hand \in Hands
  PROVE  /\ DOMAIN Placed(hand) = 1 .. Len(hand.cards) /\ Len(hand.cards) \in Nat
         /\ \A i \in 1 .. Len(hand.cards) :
              /\ Placed(hand)[i] \in [template : Int, type : Int, size : Int, slot : Int,
                                      enchantment : Int, status : {"captured", "missing", "unset"}]
              /\ Placed(hand)[i].status = hand.status
<1>1. hand.cards \in Seq(FactCards) /\ hand.status \in {"captured", "missing", "unset"}
  BY DEF Hands
<1>2. DOMAIN hand.cards = 1 .. Len(hand.cards) /\ Len(hand.cards) \in Nat
  BY <1>1
<1>3. ASSUME NEW i \in 1 .. Len(hand.cards)
      PROVE  /\ Placed(hand)[i] \in [template : Int, type : Int, size : Int, slot : Int,
                                     enchantment : Int, status : {"captured", "missing", "unset"}]
             /\ Placed(hand)[i].status = hand.status
  <2> DEFINE card == hand.cards[i]
  <2>1. card \in FactCards
    BY <1>1, <1>2
  <2>2. /\ card.template \in Int /\ card.type \in Int /\ card.size \in Int
        /\ card.socket \in Int /\ card.enchantment \in Int
    BY <2>1 DEF FactCards
  <2>3. Placed(hand)[i] =
          [template |-> card.template, type |-> card.type, size |-> card.size,
           slot |-> IF card.socket = NoSocket THEN i - 1 ELSE card.socket,
           enchantment |-> IF card.enchantment = NoneText THEN NoEnchantment
                           ELSE card.enchantment,
           status |-> hand.status]
    BY <1>2 DEF Placed
  <2>4. i - 1 \in Int /\ NoEnchantment \in Int
    BY DEF NoEnchantment
  <2> HIDE DEF card
  <2> QED  BY <1>1, <2>2, <2>3, <2>4
<1> QED  BY <1>2, <1>3 DEF Placed

\* The rows of a run are the items of its one card set, or none.
LEMMA RowsOfRun ==
  ASSUME NEW run \in FactRuns
  PROVE  /\ ~HasSignature(run) => DOMAIN Rows(run) = {}
         /\ HasSignature(run) =>
              LET placed == Placed(run.hands[1])
              IN  /\ run.hands[1] \in Hands
                  /\ DOMAIN Rows(run) = { <<1, i>> : i \in { j \in DOMAIN placed : IsItem(placed[j]) } }
                  /\ \A i \in DOMAIN placed : IsItem(placed[i]) => Rows(run)[<<1, i>>] = placed[i]
<1>1. CASE ~HasSignature(run)
  BY <1>1 DEF Rows
<1>2. CASE HasSignature(run)
  <2> DEFINE placed == [h \in DOMAIN run.hands |-> Placed(run.hands[h])]
             places == UNION { {h} \X DOMAIN placed[h] : h \in DOMAIN placed }
             one == placed[1]
  <2>1. Rows(run) = [at \in { at \in places : IsItem(placed[at[1]][at[2]]) } |-> placed[at[1]][at[2]]]
    BY <1>2 DEF Rows, ItemRows
  <2>2. DOMAIN run.hands = {1} /\ run.hands[1] \in Hands
    BY <1>2 DEF HasSignature, FactRuns
  <2>3. one = Placed(run.hands[1]) /\ DOMAIN placed = {1}
    BY <2>2
  <2> HIDE DEF placed
  <2>4. places = {1} \X DOMAIN one
    BY <2>3
  <2>5. { at \in places : IsItem(placed[at[1]][at[2]]) }
          = { <<1, i>> : i \in { j \in DOMAIN one : IsItem(one[j]) } }
    BY <2>4
  <2>6. DOMAIN Rows(run) = { <<1, i>> : i \in { j \in DOMAIN one : IsItem(one[j]) } }
    BY <2>1, <2>5
  <2>7. ASSUME NEW i \in DOMAIN one, IsItem(one[i])  PROVE  Rows(run)[<<1, i>>] = one[i]
    <3>1. <<1, i>> \in { at \in places : IsItem(placed[at[1]][at[2]]) }
      BY <2>5, <2>7
    <3> HIDE DEF places
    <3> QED  BY <2>1, <3>1
  <2> QED  BY <1>2, <2>2, <2>3, <2>6, <2>7
<1> QED  BY <1>1, <1>2

\* The rows of a run are finitely many, with integers in their columns.
LEMMA RowsTyped ==
  ASSUME NEW run \in FactRuns
  PROVE  /\ IsFiniteSet(DOMAIN Rows(run))
         /\ \A at \in DOMAIN Rows(run) :
              /\ Rows(run)[at].template \in Int /\ Rows(run)[at].size \in Int
              /\ Rows(run)[at].slot \in Int /\ Rows(run)[at].enchantment \in Int
              /\ Rows(run)[at] \in [template : Int, type : Int, size : Int, slot : Int,
                                    enchantment : Int, status : {"captured", "missing", "unset"}]
              /\ IsItem(Rows(run)[at]) /\ HasSignature(run)
              /\ Rows(run)[at].status = run.hands[1].status
<1>1. CASE ~HasSignature(run)
  BY <1>1, RowsOfRun, FS_EmptySet
<1>2. CASE HasSignature(run)
  <2> DEFINE placed == Placed(run.hands[1])
             items == { j \in DOMAIN placed : IsItem(placed[j]) }
             f == [i \in items |-> <<1, i>>]
  <2>1. /\ run.hands[1] \in Hands
        /\ DOMAIN Rows(run) = { <<1, i>> : i \in items }
        /\ \A i \in DOMAIN placed : IsItem(placed[i]) => Rows(run)[<<1, i>>] = placed[i]
    BY <1>2, RowsOfRun
  <2>2. DOMAIN placed = 1 .. Len(run.hands[1].cards) /\ Len(run.hands[1].cards) \in Nat
    BY <2>1, PlacedTyped
  <2>3. IsFiniteSet(items)
    <3> DEFINE n == Len(run.hands[1].cards)
    <3>1. items \in SUBSET (1 .. n) /\ n \in Int
      BY <2>2
    <3> HIDE DEF n, items
    <3>2. IsFiniteSet(1 .. n)
      BY <3>1, FS_Interval
    <3> QED  BY <3>1, <3>2, FS_Subset
  <2>4. f \in Surjection(items, DOMAIN Rows(run))
    BY <2>1 DEF Surjection
  <2>5. IsFiniteSet(DOMAIN Rows(run))
    BY <2>3, <2>4, FS_Surjection
  <2>6. ASSUME NEW at \in DOMAIN Rows(run)
        PROVE  \E i \in items : Rows(run)[at] = placed[i]
    BY <2>1
  <2>7. \A i \in items :
          /\ placed[i] \in [template : Int, type : Int, size : Int, slot : Int,
                            enchantment : Int, status : {"captured", "missing", "unset"}]
          /\ placed[i].status = run.hands[1].status /\ IsItem(placed[i])
    BY <2>1, <2>2, PlacedTyped
  <2> HIDE DEF items, placed
  <2> QED  BY <1>2, <2>5, <2>6, <2>7
<1> QED  BY <1>1, <1>2

\* What a run must be to count, over the rows of its hand.
LEMMA EligibleMeans ==
  ASSUME NEW run \in FactRuns, Eligible(run)
  PROVE  /\ HasSignature(run) /\ DOMAIN Rows(run) # {} /\ Sized(Rows(run))
         /\ FillsBoard(Rows(run))
         /\ \A at \in DOMAIN Rows(run) :
              /\ Rows(run)[at].template \in Cards /\ Rows(run)[at].size > 0
              /\ Rows(run)[at].status = "captured"
<1>1. /\ DOMAIN Rows(run) # {} /\ FillsBoard(Rows(run))
      /\ \A at \in DOMAIN Rows(run) :
           /\ Rows(run)[at].template \in Cards /\ Rows(run)[at].size > 0
           /\ Rows(run)[at].status = "captured"
  BY DEF Eligible, Range
<1>2. HasSignature(run) /\ Sized(Rows(run))
  BY <1>1, RowsTyped DEF Sized
<1> QED  BY <1>1, <1>2

\* Which runs count (SnapshotBuilder.build_builds): the sum of the sizes and
\* the union of the masks together say that the hand tiles the board.
LEMMA TilingOfRun ==
  ASSUME NEW run \in FactRuns
  PROVE  Eligible(run) <=>
           /\ run.finals = 1 /\ Len(run.hands) = 1 /\ run.hands[1].status = "captured"
           /\ LET placed == Placed(run.hands[1])
                  items == { i \in DOMAIN placed : IsItem(placed[i]) }
              IN  /\ \A i \in items :
                       /\ placed[i].template \in Cards /\ placed[i].size > 0
                       /\ Cells(placed[i]) \subseteq 0 .. Width - 1
                  /\ \A cell \in 0 .. Width - 1 :
                       Cardinality({ i \in items : cell \in Cells(placed[i]) }) = 1
<1> DEFINE placed == Placed(run.hands[1])
           items == { i \in DOMAIN placed : IsItem(placed[i]) }
           rows == Rows(run)
           byIndex(cell) == { i \in items : cell \in Cells(placed[i]) }
           byRow(cell) == { at \in DOMAIN rows : cell \in Cells(rows[at]) }
<1>1. ASSUME HasSignature(run), NEW cell \in 0 .. Width - 1
      PROVE  Cardinality(byIndex(cell)) = Cardinality(byRow(cell))
  <2>1. /\ DOMAIN rows = { <<1, i>> : i \in items }
        /\ \A i \in items : rows[<<1, i>>] = placed[i]
    BY <1>1, RowsOfRun
  <2> DEFINE f == [at \in byRow(cell) |-> at[2]]
  <2> HIDE DEF placed, rows, items
  <2>2. \A at \in DOMAIN rows : at[2] \in items /\ at = <<1, at[2]>> /\ rows[at] = placed[at[2]]
    BY <2>1
  <2>3. f \in [byRow(cell) -> byIndex(cell)]
    BY <2>2
  <2>4. \A s, t \in byRow(cell) : f[s] = f[t] => s = t
    BY <2>2
  <2>5. ASSUME NEW i \in byIndex(cell)  PROVE  \E s \in byRow(cell) : f[s] = i
    <3>1. <<1, i>> \in byRow(cell)
      BY <2>1
    <3> QED  BY <3>1
  <2>6. f \in Bijection(byRow(cell), byIndex(cell))
    BY <2>3, <2>4, <2>5 DEF Bijection, Injection, Surjection, IsInjective
  <2>7. IsFiniteSet(byRow(cell))
    <3>1. IsFiniteSet(DOMAIN rows)
      BY RowsTyped DEF rows
    <3> QED  BY <3>1, FS_Subset
  <2> HIDE DEF f, byRow, byIndex
  <2> QED  BY <2>6, <2>7, FS_Bijection DEF ExistsBijection
<1>2. ASSUME Eligible(run)
      PROVE  /\ run.finals = 1 /\ Len(run.hands) = 1 /\ run.hands[1].status = "captured"
             /\ \A i \in items : /\ placed[i].template \in Cards /\ placed[i].size > 0
                                 /\ Cells(placed[i]) \subseteq 0 .. Width - 1
             /\ \A cell \in 0 .. Width - 1 : Cardinality(byIndex(cell)) = 1
  <2>1. /\ HasSignature(run) /\ DOMAIN rows # {} /\ Sized(rows) /\ FillsBoard(rows)
        /\ \A at \in DOMAIN rows : /\ rows[at].template \in Cards /\ rows[at].size > 0
                                   /\ rows[at].status = "captured"
    BY <1>2, EligibleMeans
  <2>2. /\ \A at \in DOMAIN rows : rows[at].slot >= 0 /\ rows[at].slot + rows[at].size <= Width
        /\ \A cell \in 0 .. Width - 1 : Cardinality(byRow(cell)) = 1
    BY <2>1, FullIsTiled
  <2>3. run.finals = 1 /\ Len(run.hands) = 1 /\ run.hands[1].status = "captured"
    BY <2>1, RowsTyped DEF HasSignature
  <2>4. \A i \in items : <<1, i>> \in DOMAIN rows /\ rows[<<1, i>>] = placed[i]
    BY <2>1, RowsOfRun
  <2>5. \A at \in DOMAIN rows : Cells(rows[at]) \subseteq 0 .. Width - 1
    BY <2>1, <2>2, SnapshotAssumption DEF Cells, Sized
  <2>6. \A i \in items : /\ placed[i].template \in Cards /\ placed[i].size > 0
                         /\ Cells(placed[i]) \subseteq 0 .. Width - 1
    <3> HIDE DEF items, placed, rows
    <3> QED  BY <2>1, <2>4, <2>5
  <2>7. \A cell \in 0 .. Width - 1 : Cardinality(byIndex(cell)) = 1
    BY <1>1, <2>1, <2>2
  <2> QED  BY <2>3, <2>6, <2>7
<1>3. ASSUME run.finals = 1, Len(run.hands) = 1, run.hands[1].status = "captured",
             \A i \in items : /\ placed[i].template \in Cards /\ placed[i].size > 0
                              /\ Cells(placed[i]) \subseteq 0 .. Width - 1,
             \A cell \in 0 .. Width - 1 : Cardinality(byIndex(cell)) = 1
      PROVE  Eligible(run)
  <2>1. run.hands[1] \in Hands
    BY <1>3 DEF FactRuns
  <2>2. /\ DOMAIN placed = 1 .. Len(run.hands[1].cards) /\ Len(run.hands[1].cards) \in Nat
        /\ \A i \in DOMAIN placed : placed[i].slot \in Int /\ placed[i].size \in Int
    BY <2>1, PlacedTyped
  <2>3. items # {}
    <3>1. 0 \in 0 .. Width - 1
      BY SnapshotAssumption
    <3>2. Cardinality(byIndex(0)) = 1
      BY <1>3, <3>1
    <3>3. CASE items = {}
      <4>1. byIndex(0) = {}
        BY <3>3
      <4> HIDE DEF byIndex
      <4> QED  BY <3>2, <4>1, FS_EmptySet
    <3> QED  BY <3>3
  <2>4. HasSignature(run)
    <3>1. run.hands[1].cards \in Seq(FactCards)
      BY <2>1 DEF Hands
    <3>2. run.hands[1].cards # <<>>
      BY <2>2, <2>3, <3>1
    <3> QED  BY <1>3, <3>2 DEF HasSignature
  <2>5. /\ DOMAIN rows = { <<1, i>> : i \in items }
        /\ \A i \in items : rows[<<1, i>>] = placed[i]
    BY <2>4, RowsOfRun
  <2>6. \A at \in DOMAIN rows : \E i \in items : rows[at] = placed[i]
    <3> HIDE DEF items, placed, rows
    <3> QED  BY <2>5
  <2>7. \A at \in DOMAIN rows :
          /\ rows[at].template \in Cards /\ rows[at].size > 0 /\ rows[at].size \in Int
          /\ rows[at].slot \in Int /\ Cells(rows[at]) \subseteq 0 .. Width - 1
          /\ rows[at].status = "captured"
    <3>1. \A at \in DOMAIN rows : rows[at].status = "captured"
      BY <1>3, RowsTyped
    <3> HIDE DEF rows
    <3> QED  BY <1>3, <2>2, <2>6, <3>1
  <2>8. Sized(rows)
    <3>1. IsFiniteSet(DOMAIN rows)
      BY RowsTyped
    <3> HIDE DEF rows
    <3> QED  BY <2>7, <3>1 DEF Sized
  <2> HIDE DEF rows
  <2>9. \A at \in DOMAIN rows : rows[at].slot >= 0 /\ rows[at].slot + rows[at].size <= Width
    <3> SUFFICES ASSUME NEW at \in DOMAIN rows
                 PROVE  rows[at].slot >= 0 /\ rows[at].slot + rows[at].size <= Width
      OBVIOUS
    <3>1. rows[at].slot \in Cells(rows[at]) /\ rows[at].slot + rows[at].size - 1 \in Cells(rows[at])
      BY <2>7 DEF Cells
    <3>2. rows[at].slot \in 0 .. Width - 1 /\ rows[at].slot + rows[at].size - 1 \in 0 .. Width - 1
      BY <2>7, <3>1
    <3> QED  BY <2>7, <3>2, SnapshotAssumption
  <2>10. \A cell \in 0 .. Width - 1 : Cardinality(byRow(cell)) = 1
    BY <1>1, <1>3, <2>4 DEF rows
  <2>11. FillsBoard(rows)
    BY <2>8, <2>9, <2>10, FullIsTiled
  <2>12. DOMAIN rows # {}
    BY <2>3, <2>5
  <2> QED  BY <2>7, <2>11, <2>12 DEF Eligible, Range, rows
<1> QED  BY <1>2, <1>3

\* Facts keep the runs' types.
LEMMA FactTyped ==
  ASSUME facts \in Inputs
  PROVE  /\ DOMAIN facts = 1 .. Len(facts) /\ Len(facts) \in Nat /\ IsFiniteSet(DOMAIN facts)
         /\ \A r \in DOMAIN facts : facts[r] \in FactRuns
<1>1. facts \in Seq(FactRuns)
  BY InputsAssumption
<1>2. /\ DOMAIN facts = 1 .. Len(facts) /\ Len(facts) \in Nat
      /\ \A r \in DOMAIN facts : facts[r] \in FactRuns
  BY <1>1
<1> QED  BY <1>2, FS_Interval

\* A run counts exactly when its hand tiles the board, whatever the facts hold
\* (SnapshotBuilder.build_builds).
LEMMA FactsTiled ==
  ASSUME facts \in Inputs
  PROVE  EligibleIsTiling
<1> SUFFICES ASSUME NEW run \in Range(facts)
             PROVE  Eligible(run) <=>
                      /\ run.finals = 1 /\ Len(run.hands) = 1 /\ run.hands[1].status = "captured"
                      /\ LET placed == Placed(run.hands[1])
                             items == { i \in DOMAIN placed : IsItem(placed[i]) }
                         IN  /\ \A i \in items :
                                  /\ placed[i].template \in Cards /\ placed[i].size > 0
                                  /\ Cells(placed[i]) \subseteq 0 .. Width - 1
                             /\ \A cell \in 0 .. Width - 1 :
                                  Cardinality({ i \in items : cell \in Cells(placed[i]) }) = 1
  BY DEF EligibleIsTiling
<1>1. run \in FactRuns
  BY FactTyped DEF Range
<1> QED  BY <1>1, TilingOfRun

-----------------------------------------------------------------------------
\* On a full board a slot names its item.
LEMMA DistinctSlots ==
  ASSUME NEW run \in FactRuns, Eligible(run)
  PROVE  \A a, b \in DOMAIN Rows(run) : Rows(run)[a].slot = Rows(run)[b].slot => a = b
<1> SUFFICES ASSUME NEW a \in DOMAIN Rows(run), NEW b \in DOMAIN Rows(run),
                    Rows(run)[a].slot = Rows(run)[b].slot
             PROVE  a = b
  OBVIOUS
<1> DEFINE rows == Rows(run)
           cell == rows[a].slot
           under == { at \in DOMAIN rows : cell \in Cells(rows[at]) }
<1>1. /\ Sized(rows) /\ FillsBoard(rows)
      /\ \A at \in DOMAIN rows : rows[at].size > 0
  BY EligibleMeans
<1>2. /\ \A at \in DOMAIN rows : rows[at].slot >= 0 /\ rows[at].slot + rows[at].size <= Width
      /\ \A c \in 0 .. Width - 1 :
           Cardinality({ at \in DOMAIN rows : c \in Cells(rows[at]) }) = 1
  BY <1>1, FullIsTiled
<1> HIDE DEF rows
<1>3. a \in DOMAIN rows /\ b \in DOMAIN rows /\ rows[b].slot = cell
  BY DEF rows
<1>4. \A at \in DOMAIN rows : rows[at].slot \in Int /\ rows[at].size \in Int
  BY <1>1 DEF Sized
<1>5. cell \in 0 .. Width - 1 /\ cell \in Cells(rows[a]) /\ cell \in Cells(rows[b])
  BY <1>1, <1>2, <1>3, <1>4, SnapshotAssumption DEF Cells
<1>6. Cardinality(under) = 1 /\ a \in under /\ b \in under
  BY <1>2, <1>3, <1>5
<1>7. IsFiniteSet(under)
  BY <1>1, FS_Subset DEF Sized
<1> HIDE DEF under
<1> QED  BY <1>6, <1>7, FS_Singleton

\* A layout lists the rows of its run once each, by their slots.
LEMMA LayoutOfRun ==
  ASSUME NEW run \in FactRuns, Eligible(run)
  PROVE  /\ DOMAIN Layout(run) = 1 .. Len(Layout(run)) /\ Len(Layout(run)) \in Nat
         /\ \E p \in Bijection(DOMAIN Layout(run), DOMAIN Rows(run)) :
              \A k \in DOMAIN Layout(run) : Layout(run)[k] = Rows(run)[p[k]]
<1> DEFINE rows == Rows(run)
           all == { row.slot : row \in Range(rows) }
           slots == Ascending(all)
           layout == [k \in DOMAIN slots |-> CHOOSE row \in Range(rows) : row.slot = slots[k]]
           p == [k \in DOMAIN layout |-> CHOOSE at \in DOMAIN rows : rows[at] = layout[k]]
<1>1. Sized(rows) /\ \A a, b \in DOMAIN rows : rows[a].slot = rows[b].slot => a = b
  BY EligibleMeans, DistinctSlots
<1>2. Layout(run) = layout
  BY DEF Layout
<1> HIDE DEF rows
<1>3. IsFiniteSet(all) /\ all \subseteq Int
  <2> DEFINE f == [at \in DOMAIN rows |-> rows[at].slot]
  <2>1. f \in Surjection(DOMAIN rows, all)
    BY DEF Surjection, Range
  <2>2. IsFiniteSet(DOMAIN rows) /\ \A at \in DOMAIN rows : rows[at].slot \in Int
    BY <1>1 DEF Sized
  <2> HIDE DEF f
  <2>3. IsFiniteSet(all)
    BY <2>1, <2>2, FS_Surjection
  <2> QED  BY <2>2, <2>3 DEF Range
<1> HIDE DEF all
<1>4. /\ Cardinality(all) \in Nat /\ slots \in [1 .. Cardinality(all) -> Int]
      /\ Range(slots) = all
      /\ \A j, k \in 1 .. Cardinality(all) : j < k => slots[j] < slots[k]
  BY <1>3, AscendingEnumerates
<1> HIDE DEF slots
<1>5. \A k \in DOMAIN slots : layout[k] \in Range(rows) /\ layout[k].slot = slots[k]
  <2> SUFFICES ASSUME NEW k \in DOMAIN slots
               PROVE  layout[k] \in Range(rows) /\ layout[k].slot = slots[k]
    OBVIOUS
  <2>1. slots[k] \in all
    BY <1>4 DEF Range
  <2>2. \E row \in Range(rows) : row.slot = slots[k]
    BY <2>1 DEF all
  <2> QED  BY <2>2
<1>6. DOMAIN layout = DOMAIN slots /\ DOMAIN slots = 1 .. Cardinality(all)
  BY <1>4
<1> HIDE DEF layout
<1>7. \A k \in DOMAIN layout : p[k] \in DOMAIN rows /\ rows[p[k]] = layout[k]
  BY <1>5, <1>6 DEF Range
<1>8. p \in Bijection(DOMAIN layout, DOMAIN rows)
  <2>1. p \in [DOMAIN layout -> DOMAIN rows]
    BY <1>7
  <2>2. ASSUME NEW j \in DOMAIN layout, NEW k \in DOMAIN layout, p[j] = p[k]  PROVE  j = k
    <3>1. slots[j] = slots[k]
      BY <1>5, <1>6, <1>7, <2>2
    <3>2. slots[j] \in Int /\ j \in Int /\ k \in Int
      BY <1>4, <1>6
    <3>3. ~(j < k) /\ ~(k < j)
      BY <1>4, <1>6, <3>1, <3>2
    <3> QED  BY <3>2, <3>3
  <2>3. ASSUME NEW at \in DOMAIN rows  PROVE  \E k \in DOMAIN layout : p[k] = at
    <3>1. rows[at].slot \in all
      BY DEF all, Range
    <3>2. PICK k \in DOMAIN slots : slots[k] = rows[at].slot
      BY <3>1, <1>4 DEF Range
    <3>3. rows[p[k]].slot = rows[at].slot /\ p[k] \in DOMAIN rows
      BY <1>5, <1>6, <1>7, <3>2
    <3> QED  BY <1>1, <1>6, <3>3
  <2> QED  BY <2>1, <2>2, <2>3 DEF Bijection, Injection, Surjection, IsInjective
<1>9. Len(layout) = Cardinality(all)
  BY <1>4, <1>6
<1>10. \E q \in Bijection(DOMAIN layout, DOMAIN rows) :
         \A k \in DOMAIN layout : layout[k] = rows[q[k]]
  BY <1>7, <1>8
<1> QED  BY <1>2, <1>4, <1>6, <1>9, <1>10 DEF rows

\* So it has the run's items, its size, its cards and its build key.
LEMMA LayoutMeans ==
  ASSUME NEW run \in FactRuns, Eligible(run)
  PROVE  LET layout == Layout(run)
         IN  /\ Range(layout) = Range(Rows(run))
             /\ IsFiniteSet(DOMAIN layout) /\ DOMAIN layout = 1 .. Len(layout)
             /\ Len(layout) \in Nat \ {0}
             /\ Sized(layout) /\ TotalSize(layout) = Width
             /\ \A k \in DOMAIN layout :
                  /\ layout[k].template \in Cards /\ layout[k].size > 0 /\ layout[k].slot >= 0
                  /\ layout[k].enchantment \in Int
             /\ BuildKey(run) = Sorted([k \in DOMAIN layout |-> layout[k].template])
<1> DEFINE layout == Layout(run)
           rows == Rows(run)
           I == DOMAIN layout
           J == DOMAIN rows
<1>1. /\ I = 1 .. Len(layout) /\ Len(layout) \in Nat
      /\ \E p \in Bijection(I, J) : \A k \in I : layout[k] = rows[p[k]]
  BY LayoutOfRun
<1>2. PICK p \in Bijection(I, J) : \A k \in I : layout[k] = rows[p[k]]
  BY <1>1
<1>3. /\ J # {} /\ Sized(rows) /\ FillsBoard(rows)
      /\ \A at \in J : rows[at].template \in Cards /\ rows[at].size > 0
  BY EligibleMeans
<1>4. \A at \in J : rows[at].slot >= 0 /\ rows[at].enchantment \in Int
  BY <1>3, FullIsTiled, RowsTyped
<1>5. BuildKey(run) = Sorted([at \in J |-> rows[at].template])
  BY DEF BuildKey
<1> HIDE DEF layout, rows
<1>6. p \in [I -> J] /\ (\A i, j \in I : p[i] = p[j] => i = j)
                     /\ \A j \in J : \E i \in I : p[i] = j
  BY DEF Bijection, Injection, Surjection, IsInjective
<1>7. IsFiniteSet(I) /\ Len(layout) # 0
  <2>1. Len(layout) # 0
    BY <1>1, <1>3, <1>6
  <2>2. IsFiniteSet(1 .. Len(layout))
    BY <1>1, FS_Interval
  <2> QED  BY <1>1, <2>1, <2>2
<1>8. Range(layout) = Range(rows)
  BY <1>2, <1>6 DEF Range
<1>9. Sized(layout)
  BY <1>2, <1>3, <1>6, <1>7 DEF Sized
<1>10. TotalSize(rows) = TotalSize(layout)
  BY <1>2, <1>9, TotalReindexed
<1>11. TotalSize(rows) = Width
  BY <1>3 DEF FillsBoard
<1>12. \A k \in I : /\ layout[k].template \in Cards /\ layout[k].size > 0 /\ layout[k].slot >= 0
                    /\ layout[k].enchantment \in Int
  BY <1>2, <1>3, <1>4, <1>6
<1>13. Sorted([k \in I |-> layout[k].template]) = Sorted([at \in J |-> rows[at].template])
  <2> DEFINE f == [k \in I |-> layout[k].template]
             g == [at \in J |-> rows[at].template]
  <2>1. f \in [I -> Int] /\ g \in [J -> Int]
    BY <1>3, <1>12, SelectionAssumption
  <2>2. \A k \in I : f[k] = g[p[k]]
    BY <1>2, <1>6
  <2> HIDE DEF f, g
  <2> QED  BY <1>7, <2>1, <2>2, SortedReindexed DEF f, g
<1> QED  BY <1>1, <1>5, <1>7, <1>8, <1>9, <1>10, <1>11, <1>12, <1>13 DEF layout, rows

\* A build key is a sorted sequence of cards.
LEMMA KeyOfRun ==
  ASSUME NEW run \in FactRuns, Eligible(run)
  PROVE  LET key == BuildKey(run)
         IN  /\ Len(key) \in Nat \ {0} /\ DOMAIN key = 1 .. Len(key)
             /\ key \in [1 .. Len(key) -> Cards]
             /\ Sorted(key) = key
             /\ Len(key) = Len(Layout(run))
             /\ Range(key) = { Layout(run)[k].template : k \in DOMAIN Layout(run) }
<1> DEFINE layout == Layout(run)
           n == Len(layout)
           f == [k \in DOMAIN layout |-> layout[k].template]
<1>1. /\ DOMAIN layout = 1 .. n /\ n \in Nat \ {0}
      /\ \A k \in DOMAIN layout : layout[k].template \in Cards
      /\ BuildKey(run) = Sorted(f)
  BY LayoutMeans
<1> HIDE DEF layout, n
<1>2. f \in [1 .. n -> Int] /\ Range(f) \subseteq Cards
  BY <1>1, SelectionAssumption DEF Range
<1>3. Range(f) = { layout[k].template : k \in DOMAIN layout }
  BY DEF Range
<1> HIDE DEF f
<1>4. IsFiniteSet(1 .. n) /\ Cardinality(1 .. n) = n
  BY <1>1, FS_Interval
<1>5. Sorted(f) \in [1 .. n -> Int] /\ Range(Sorted(f)) = Range(f) /\ Sorted(Sorted(f)) = Sorted(f)
  BY <1>2, <1>4, SortedIsSorted, SortedRange, SortedTwice
<1> DEFINE key == Sorted(f)
<1> HIDE DEF key
<1>6. key \in [1 .. n -> Int] /\ Range(key) \subseteq Cards
  BY <1>2, <1>5 DEF key
<1>7. key \in [1 .. n -> Cards]
  BY <1>6 DEF Range
<1>8. Len(key) = n
  BY <1>1, <1>7
<1> QED  BY <1>1, <1>3, <1>5, <1>7, <1>8 DEF key, layout, n

\* Runs with the same rows have the same layout, and the other way round; and
\* then the same build key.
LEMMA SameBoard ==
  ASSUME NEW run \in FactRuns, Eligible(run), NEW other \in FactRuns, Eligible(other)
  PROVE  /\ Range(Rows(run)) = Range(Rows(other)) <=> Layout(run) = Layout(other)
         /\ Layout(run) = Layout(other) => BuildKey(run) = BuildKey(other)
<1>1. Range(Rows(run)) = Range(Rows(other)) => Layout(run) = Layout(other)
  BY DEF Layout
<1>2. /\ Range(Layout(run)) = Range(Rows(run)) /\ Range(Layout(other)) = Range(Rows(other))
      /\ BuildKey(run) = Sorted([k \in DOMAIN Layout(run) |-> Layout(run)[k].template])
      /\ BuildKey(other) = Sorted([k \in DOMAIN Layout(other) |-> Layout(other)[k].template])
  BY LayoutMeans
<1> QED  BY <1>1, <1>2

-----------------------------------------------------------------------------
\* A candidate: a sorted key, some Ten-Win run, and all its runs full boards.
LEMMA CandidateMeans ==
  ASSUME facts \in Inputs, NEW key \in Candidates(facts)
  PROVE  /\ Len(key) \in Nat \ {0} /\ DOMAIN key = 1 .. Len(key)
         /\ key \in [1 .. Len(key) -> Cards] /\ Sorted(key) = key
         /\ IsFiniteSet(RunsOf(key)) /\ RunsOf(key) \subseteq DOMAIN facts
         /\ IsFiniteSet(TenWinsOf(key)) /\ TenWinsOf(key) \subseteq RunsOf(key)
         /\ Cardinality(RunsOf(key)) \in Nat
         /\ TenWinsOf(key) # {} /\ Cardinality(TenWinsOf(key)) \in 1 .. Cardinality(RunsOf(key))
         /\ \A r \in RunsOf(key) :
              facts[r] \in FactRuns /\ Eligible(facts[r]) /\ BuildKey(facts[r]) = key
<1>1. PICK r \in DOMAIN facts : Eligible(facts[r]) /\ facts[r].tenWin /\ key = BuildKey(facts[r])
  BY DEF Candidates, Range
<1>2. IsFiniteSet(DOMAIN facts) /\ \A q \in DOMAIN facts : facts[q] \in FactRuns
  BY FactTyped
<1>3. /\ Len(key) \in Nat \ {0} /\ DOMAIN key = 1 .. Len(key)
      /\ key \in [1 .. Len(key) -> Cards] /\ Sorted(key) = key
  BY <1>1, <1>2, KeyOfRun
<1>4. /\ RunsOf(key) \subseteq DOMAIN facts /\ TenWinsOf(key) \subseteq RunsOf(key)
      /\ r \in TenWinsOf(key)
  BY <1>1 DEF RunsOf, TenWinsOf
<1>5. /\ IsFiniteSet(RunsOf(key)) /\ IsFiniteSet(TenWinsOf(key))
      /\ Cardinality(TenWinsOf(key)) <= Cardinality(RunsOf(key))
  BY <1>2, <1>4, FS_Subset
<1>6. /\ Cardinality(RunsOf(key)) \in Nat /\ Cardinality(TenWinsOf(key)) \in Nat
      /\ Cardinality(TenWinsOf(key)) # 0
  BY <1>4, <1>5, FS_CardinalityType, FS_EmptySet
<1>7. Cardinality(TenWinsOf(key)) \in 1 .. Cardinality(RunsOf(key))
  BY <1>5, <1>6
<1>8. \A q \in RunsOf(key) :
        facts[q] \in FactRuns /\ Eligible(facts[q]) /\ BuildKey(facts[q]) = key
  BY <1>2 DEF RunsOf
<1> QED  BY <1>3, <1>4, <1>5, <1>6, <1>7, <1>8

\* The representative is a layout of a Ten-Win run, and none is more frequent.
LEMMA RepresentativeMeans ==
  ASSUME facts \in Inputs, NEW key \in Candidates(facts)
  PROVE  /\ \E r \in TenWinsOf(key) : Representative(key) = Layout(facts[r])
         /\ \A r \in TenWinsOf(key) :
              Observations(key, Layout(facts[r])) <= Observations(key, Representative(key))
<1> DEFINE wins == TenWinsOf(key)
           layouts == { Layout(facts[r]) : r \in wins }
           counts == { Observations(key, layout) : layout \in layouts }
<1>1. IsFiniteSet(wins) /\ wins # {}
  BY CandidateMeans
<1>2. \A layout \in layouts : Observations(key, layout) \in Nat
  <2> SUFFICES ASSUME NEW layout \in layouts  PROVE  Observations(key, layout) \in Nat
    OBVIOUS
  <2>1. { r \in wins : Layout(facts[r]) = layout } \in SUBSET wins
    OBVIOUS
  <2>2. Cardinality({ r \in wins : Layout(facts[r]) = layout }) \in Nat
    BY <1>1, <2>1, FS_Subset, FS_CardinalityType
  <2> QED  BY <2>2 DEF Observations
<1> HIDE DEF wins
<1>3. IsFiniteSet(counts) /\ counts \subseteq Int /\ counts # {}
  <2> DEFINE f == [r \in wins |-> Observations(key, Layout(facts[r]))]
  <2>1. f \in Surjection(wins, counts)
    BY DEF Surjection
  <2>2. IsFiniteSet(counts)
    BY <1>1, <2>1, FS_Surjection
  <2> QED  BY <1>1, <1>2, <2>2
<1>4. PICK most \in counts : \A n \in counts : n <= most
  BY <1>3, GreatestExists
<1>5. \E layout \in layouts :
        \A other \in layouts : Observations(key, other) <= Observations(key, layout)
  BY <1>4
<1>6. Representative(key) = CHOOSE layout \in layouts :
        \A other \in layouts : Observations(key, other) <= Observations(key, layout)
  BY DEF Representative, wins
<1> HIDE DEF layouts
<1>7. /\ Representative(key) \in layouts
      /\ \A other \in layouts : Observations(key, other) <= Observations(key, Representative(key))
  BY <1>5, <1>6
<1> QED  BY <1>7 DEF layouts, wins

\* p75 of a candidate: no day is known, or three of four known days are up to
\* it and fewer are before it.
LEMMA P75Means ==
  ASSUME facts \in Inputs, NEW key \in Candidates(facts)
  PROVE  LET known == { r \in TenWinsOf(key) : facts[r].day # NoDay }
             by(day) == Cardinality({ r \in known : facts[r].day <= day })
         IN  /\ P75(key) \in Int /\ P75(key) >= NoDay
             /\ known = {} => P75(key) = NoDay
             /\ known # {} => /\ 4 * by(P75(key)) >= 3 * Cardinality(known)
                              /\ 4 * by(P75(key) - 1) < 3 * Cardinality(known)
<1> DEFINE known == { r \in TenWinsOf(key) : facts[r].day # NoDay }
           f == [r \in known |-> facts[r].day]
           n == Cardinality(known)
           m == NearestRank(n)
<1>1. /\ IsFiniteSet(TenWinsOf(key))
      /\ \A r \in TenWinsOf(key) : facts[r].day \in Nat \cup {NoDay}
  <2>1. /\ IsFiniteSet(TenWinsOf(key)) /\ TenWinsOf(key) \subseteq RunsOf(key)
        /\ \A r \in RunsOf(key) : facts[r] \in FactRuns
    BY CandidateMeans
  <2> QED  BY <2>1 DEF FactRuns
<1>2. IsFiniteSet(known) /\ n \in Nat
  BY <1>1, FS_Subset, FS_CardinalityType
<1>3. f \in [known -> Int] /\ \A r \in known : f[r] >= 0
  BY <1>1
<1>4. { q \in TenWinsOf(key) : facts[q].day >= 0 } = known
  BY <1>1 DEF NoDay
<1>5. KnownDays(key) = Sorted(f)
  BY <1>4 DEF KnownDays
<1>6. \A x : { r \in known : facts[r].day <= x } = UpTo(f, x)
  BY DEF UpTo
<1> HIDE DEF known, f
<1>7. Sorted(f) \in [1 .. n -> Int] /\ Len(Sorted(f)) = n
  BY <1>2, <1>3, SortedIsSorted
<1>8. CASE known = {}
  <2>1. n = 0
    BY <1>8, FS_EmptySet
  <2>2. Sorted(f) = <<>>
    BY <1>7, <2>1
  <2> QED  BY <1>5, <1>8, <2>2 DEF P75, known, NoDay
<1>9. CASE known # {}
  <2>1. n \in Nat \ {0}
    BY <1>2, <1>9, FS_EmptySet
  <2>2. m \in 1 .. n /\ 4 * m >= 3 * n /\ 4 * (m - 1) < 3 * n
    BY <2>1 DEF NearestRank
  <2>3. P75(key) = Sorted(f)[m]
    <3>1. Sorted(f) # <<>>
      BY <1>7, <2>1
    <3> QED  BY <1>5, <1>7, <3>1 DEF P75
  <2> DEFINE d == Sorted(f)[m]
  <2> HIDE DEF m, n
  <2>4. d \in Int /\ d \in Range(f)
    BY <1>2, <1>3, <2>2, SortedRank DEF n
  <2>5. d >= 0
    BY <1>3, <2>4 DEF Range
  <2>6. d <= d <=> m <= Cardinality(UpTo(f, d))
    BY <1>2, <1>3, <2>2, <2>4, SortedUpTo DEF n
  <2>7. d <= d - 1 <=> m <= Cardinality(UpTo(f, d - 1))
    BY <1>2, <1>3, <2>2, <2>4, SortedUpTo DEF n
  <2>8. Cardinality(UpTo(f, d)) \in Int /\ Cardinality(UpTo(f, d - 1)) \in Int
    BY <1>2, <1>3, <2>4, UpToFinite
  <2>10. P75(key) = d
    BY <2>3
  <2> HIDE DEF d
  <2>9. 4 * Cardinality(UpTo(f, d)) >= 3 * n /\ 4 * Cardinality(UpTo(f, d - 1)) < 3 * n
    BY <2>1, <2>2, <2>4, <2>6, <2>7, <2>8
  <2>11. P75(key) \in Int /\ P75(key) >= NoDay
    BY <2>4, <2>5, <2>10 DEF NoDay
  <2>12. /\ 4 * Cardinality({ r \in known : facts[r].day <= P75(key) }) >= 3 * Cardinality(known)
         /\ 4 * Cardinality({ r \in known : facts[r].day <= P75(key) - 1 })
              < 3 * Cardinality(known)
    <3>1. /\ { r \in known : facts[r].day <= P75(key) } = UpTo(f, d)
          /\ { r \in known : facts[r].day <= P75(key) - 1 } = UpTo(f, d - 1)
      BY <1>6, <2>10
    <3> QED  BY <2>9, <3>1 DEF n
  <2> QED  BY <1>9, <2>11, <2>12 DEF known
<1> QED  BY <1>8, <1>9 DEF known

-----------------------------------------------------------------------------
\* The ranking lists the candidates, each once, and the selection loop is given
\* the cards of each.
RankedInv ==
    /\ facts \in Inputs
    /\ outcome # "query_failed" =>
         /\ ranked \in SetToSeqs(Candidates(facts))
         /\ count = Len(ranked)
         /\ identity = [i \in 1 .. count |-> Range(ranked[i])]

LEMMA RangeFinite ==
  ASSUME NEW f, IsFiniteSet(DOMAIN f)
  PROVE  IsFiniteSet(Range(f))
<1> DEFINE g == [x \in DOMAIN f |-> f[x]]
<1>1. g \in Surjection(DOMAIN f, Range(f))
  BY DEF Surjection, Range
<1> HIDE DEF g
<1> QED  BY <1>1, FS_Surjection

LEMMA CandidatesFinite ==
  ASSUME facts \in Inputs
  PROVE  IsFiniteSet(Candidates(facts))
<1> DEFINE wins == { r \in DOMAIN facts : Eligible(facts[r]) /\ facts[r].tenWin }
           f == [r \in wins |-> BuildKey(facts[r])]
<1>1. IsFiniteSet(wins)
  <2>1. IsFiniteSet(DOMAIN facts) /\ wins \in SUBSET DOMAIN facts
    BY FactTyped
  <2> QED  BY <2>1, FS_Subset
<1>2. Range(f) = Candidates(facts)
  BY DEF Range, Candidates
<1>3. DOMAIN f = wins
  OBVIOUS
<1> HIDE DEF wins, f
<1> QED  BY <1>1, <1>2, <1>3, RangeFinite

LEMMA RankedMeans ==
  ASSUME RankedInv, outcome # "query_failed"
  PROVE  /\ facts \in Inputs /\ count \in Nat
         /\ DOMAIN ranked = Ranked
         /\ \A i \in Ranked : ranked[i] \in Candidates(facts)
         /\ \A i, j \in Ranked : ranked[i] = ranked[j] => i = j
         /\ \A key \in Candidates(facts) : \E i \in Ranked : ranked[i] = key
         /\ identity = [i \in Ranked |-> Range(ranked[i])]
<1> DEFINE all == Candidates(facts)
           n == Cardinality(all)
<1>1. facts \in Inputs /\ ranked \in SetToSeqs(all) /\ count = Len(ranked)
      /\ identity = [i \in 1 .. count |-> Range(ranked[i])]
  BY DEF RankedInv
<1>2. IsFiniteSet(all) /\ n \in Nat
  BY <1>1, CandidatesFinite, FS_CardinalityType
<1>3. ranked \in [1 .. n -> all] /\ \A i, j \in 1 .. n : i # j => ranked[i] # ranked[j]
  BY <1>1 DEF SetToSeqs
<1> HIDE DEF all
<1>4. ranked \in Injection(1 .. n, all)
  BY <1>3 DEF Injection, IsInjective
<1>5. IsFiniteSet(1 .. n) /\ Cardinality(1 .. n) = n
  BY <1>2, FS_Interval
<1> HIDE DEF n
<1>6. ranked \in Surjection(1 .. n, all)
  BY <1>2, <1>4, <1>5, FS_Injection DEF n
<1>7. Len(ranked) = n
  BY <1>2, <1>3
<1>8. Ranked = 1 .. n
  BY <1>1, <1>7 DEF Ranked
<1>9. \A key \in all : \E i \in 1 .. n : ranked[i] = key
  BY <1>6 DEF Surjection
<1> QED  BY <1>1, <1>2, <1>3, <1>7, <1>8, <1>9 DEF all

\* The published builds are the selected candidates, in the order of selection.
LEMMA PublishedMeans ==
  ASSUME RankedInv, OrderInv, outcome # "query_failed"
  PROVE  /\ DOMAIN Published = 1 .. Len(Published) /\ Len(Published) \in Nat
         /\ \A n \in DOMAIN Published : \E i \in selected : Published[n] = ranked[i]
         /\ \A i \in selected : \E n \in DOMAIN Published : Published[n] = ranked[i]
         /\ \A n \in DOMAIN Published : /\ Published[n] \in Candidates(facts)
                                        /\ Range(Published[n]) \subseteq CardsOf(selected)
<1> DEFINE m == Cardinality(selected)
<1>1. /\ IsFiniteSet(selected) /\ m \in Nat /\ selected \subseteq Ranked
      /\ order \in [selected -> Nat]
  BY SelectedFinite DEF OrderInv, TypeOK
<1>2. /\ \A i \in selected : order[i] \in 1 .. m
      /\ \A i, j \in selected : order[i] = order[j] => i = j
  BY DEF OrderInv
<1>3. IsFiniteSet(1 .. m) /\ Cardinality(1 .. m) = m
  BY <1>1, FS_Interval
<1>4. DOMAIN Published = 1 .. m
      /\ \A n \in 1 .. m : Published[n] = ranked[CHOOSE i \in selected : order[i] = n]
  BY DEF Published
<1> HIDE DEF m
<1>5. order \in Injection(selected, 1 .. m)
  BY <1>1, <1>2 DEF Injection, IsInjective
<1>6. order \in Surjection(selected, 1 .. m)
  BY <1>1, <1>3, <1>5, FS_Injection DEF m
<1>7. \A n \in 1 .. m : \E i \in selected : order[i] = n
  BY <1>6 DEF Surjection
<1>8. \A n \in 1 .. m : \E i \in selected : order[i] = n /\ Published[n] = ranked[i]
  BY <1>4, <1>7
<1>9. \A i \in selected : Published[order[i]] = ranked[i] /\ order[i] \in 1 .. m
  BY <1>2, <1>8
<1>10. Len(Published) = m
  <2>1. Published = [n \in 1 .. m |-> Published[n]]
    BY DEF Published, m
  <2> QED  BY <1>1, <2>1
<1>11. \A i \in selected : ranked[i] \in Candidates(facts) /\ identity[i] = Range(ranked[i])
  BY <1>1, RankedMeans
<1>12. \A i \in selected : Range(ranked[i]) \subseteq CardsOf(selected)
  BY <1>11 DEF CardsOf
<1> QED  BY <1>1, <1>4, <1>8, <1>9, <1>10, <1>11, <1>12

-----------------------------------------------------------------------------
\* An ascending table, and the index of an entry in it.
LEMMA IndexOfEntry ==
  ASSUME NEW S, IsFiniteSet(S), S \subseteq Int
  PROVE  LET table == Ascending(S)
         IN  /\ Len(table) \in Nat /\ DOMAIN table = 1 .. Len(table)
             /\ Range(table) = S
             /\ \A x \in S : /\ IndexIn(x, table) \in 1 .. Len(table)
                             /\ table[IndexIn(x, table)] = x
             /\ \A x, y \in S : x < y => IndexIn(x, table) < IndexIn(y, table)
<1> DEFINE table == Ascending(S)
           n == Cardinality(S)
<1>1. /\ n \in Nat /\ table \in [1 .. n -> Int] /\ Range(table) = S
      /\ \A j, k \in 1 .. n : j < k => table[j] < table[k]
  BY AscendingEnumerates
<1> HIDE DEF table, n
<1>2. Len(table) = n
  BY <1>1
<1>3. ASSUME NEW x \in S
      PROVE  IndexIn(x, table) \in 1 .. n /\ table[IndexIn(x, table)] = x
  <2>1. \E i \in DOMAIN table : table[i] = x
    BY <1>1 DEF Range
  <2>2. IndexIn(x, table) \in DOMAIN table /\ table[IndexIn(x, table)] = x
    BY <2>1 DEF IndexIn
  <2> QED  BY <1>1, <2>2
<1>4. ASSUME NEW x \in S, NEW y \in S, x < y
      PROVE  IndexIn(x, table) < IndexIn(y, table)
  <2> DEFINE i == IndexIn(x, table)
             j == IndexIn(y, table)
  <2>1. i \in 1 .. n /\ j \in 1 .. n /\ table[i] = x /\ table[j] = y
    BY <1>3
  <2> HIDE DEF i, j
  <2>2. ~(j < i) /\ i # j
    BY <1>1, <1>4, <2>1
  <2>3. i < j
    BY <1>1, <2>1, <2>2
  <2> QED  BY <2>3 DEF i, j
<1> QED  BY <1>1, <1>2, <1>3, <1>4 DEF table

\* The card table: every card of a published build, once, in order.
LEMMA CardsMean ==
  ASSUME RankedInv, OrderInv, outcome # "query_failed"
  PROVE  LET cards == CardsOf(selected)
         IN  /\ IsFiniteSet(cards) /\ cards \subseteq Cards
             /\ Len(CardTable) \in Nat /\ DOMAIN CardTable = 1 .. Len(CardTable)
             /\ Range(CardTable) = cards /\ CardTable = Ascending(Range(CardTable))
             /\ \A card \in cards : /\ CardRef(card) \in 0 .. Len(CardTable) - 1
                                    /\ CardTable[CardRef(card) + 1] = card
             /\ \A a, b \in cards : a < b => CardRef(a) < CardRef(b)
<1> DEFINE cards == CardsOf(selected)
<1>1. IsFiniteSet(cards) /\ cards \subseteq Cards
  <2>1. \A i \in selected : identity[i] = Range(ranked[i]) /\ ranked[i] \in Candidates(facts)
    BY RankedMeans DEF OrderInv, TypeOK
  <2>2. \A i \in selected : IsFiniteSet(identity[i]) /\ identity[i] \subseteq Cards
    <3> SUFFICES ASSUME NEW i \in selected
                 PROVE  IsFiniteSet(identity[i]) /\ identity[i] \subseteq Cards
      OBVIOUS
    <3>1. /\ Len(ranked[i]) \in Nat /\ DOMAIN ranked[i] = 1 .. Len(ranked[i])
          /\ ranked[i] \in [1 .. Len(ranked[i]) -> Cards]
      BY <2>1, RankedMeans, CandidateMeans
    <3>2. IsFiniteSet(DOMAIN ranked[i])
      BY <3>1, FS_Interval
    <3>3. IsFiniteSet(Range(ranked[i]))
      BY <3>2, RangeFinite
    <3>4. Range(ranked[i]) \subseteq Cards
      BY <3>1 DEF Range
    <3> QED  BY <2>1, <3>3, <3>4
  <2> DEFINE sets == { identity[i] : i \in selected }
             f == [i \in selected |-> identity[i]]
  <2>3. Range(f) = sets /\ DOMAIN f = selected
    BY DEF Range
  <2>4. \A T \in sets : IsFiniteSet(T) /\ T \subseteq Cards
    BY <2>2
  <2>5. cards = UNION sets
    BY DEF CardsOf
  <2> HIDE DEF sets, f, cards
  <2>6. IsFiniteSet(sets)
    BY <2>3, RangeFinite, SelectedFinite DEF OrderInv
  <2>7. IsFiniteSet(UNION sets)
    BY <2>4, <2>6, FS_UNION
  <2> QED  BY <2>4, <2>5, <2>7
<1>2. cards \subseteq Int
  BY <1>1, SelectionAssumption
<1>3. CardTable = Ascending(cards)
  BY DEF CardTable
<1>4. \A card : CardRef(card) = IndexIn(card, CardTable) - 1
  BY DEF CardRef
<1> HIDE DEF cards
<1>5. /\ Len(CardTable) \in Nat /\ DOMAIN CardTable = 1 .. Len(CardTable)
      /\ Range(CardTable) = cards
      /\ \A x \in cards : /\ IndexIn(x, CardTable) \in 1 .. Len(CardTable)
                          /\ CardTable[IndexIn(x, CardTable)] = x
      /\ \A x, y \in cards : x < y => IndexIn(x, CardTable) < IndexIn(y, CardTable)
  BY <1>1, <1>2, <1>3, IndexOfEntry
<1>6. \A card \in cards : /\ CardRef(card) \in 0 .. Len(CardTable) - 1
                          /\ CardTable[CardRef(card) + 1] = card
  <2> SUFFICES ASSUME NEW card \in cards
               PROVE  /\ CardRef(card) \in 0 .. Len(CardTable) - 1
                      /\ CardTable[CardRef(card) + 1] = card
    OBVIOUS
  <2> DEFINE i == IndexIn(card, CardTable)
  <2>1. i \in 1 .. Len(CardTable) /\ CardTable[i] = card /\ CardRef(card) = i - 1
    BY <1>4, <1>5
  <2> HIDE DEF i
  <2>2. CardRef(card) + 1 = i /\ CardRef(card) \in 0 .. Len(CardTable) - 1
    BY <1>5, <2>1
  <2> QED  BY <2>1, <2>2
<1>7. \A a, b \in cards : a < b => CardRef(a) < CardRef(b)
  <2> SUFFICES ASSUME NEW a \in cards, NEW b \in cards, a < b  PROVE  CardRef(a) < CardRef(b)
    OBVIOUS
  <2> DEFINE i == IndexIn(a, CardTable)
             j == IndexIn(b, CardTable)
  <2>1. i \in 1 .. Len(CardTable) /\ j \in 1 .. Len(CardTable) /\ i < j
        /\ CardRef(a) = i - 1 /\ CardRef(b) = j - 1
    BY <1>4, <1>5
  <2> HIDE DEF i, j
  <2> QED  BY <1>5, <2>1
<1> QED  BY <1>1, <1>3, <1>5, <1>6, <1>7 DEF cards

-----------------------------------------------------------------------------
\* The representative layout of a candidate is a full board of its cards.
LEMMA RepresentativeBoard ==
  ASSUME facts \in Inputs, NEW key \in Candidates(facts)
  PROVE  LET layout == Representative(key)
         IN  /\ IsFiniteSet(DOMAIN layout) /\ DOMAIN layout = 1 .. Len(layout)
             /\ Sized(layout) /\ TotalSize(layout) = Width
             /\ \A k \in DOMAIN layout :
                  /\ layout[k].template \in Cards /\ layout[k].size > 0 /\ layout[k].slot >= 0
                  /\ layout[k].enchantment \in Int
             /\ key = Sorted([k \in DOMAIN layout |-> layout[k].template])
             /\ Len(key) = Len(layout)
             /\ Range(key) = { layout[k].template : k \in DOMAIN layout }
<1>1. PICK r \in TenWinsOf(key) : Representative(key) = Layout(facts[r])
  BY RepresentativeMeans
<1>2. facts[r] \in FactRuns /\ Eligible(facts[r]) /\ BuildKey(facts[r]) = key
  BY CandidateMeans
<1> QED  BY <1>1, <1>2, LayoutMeans, KeyOfRun

\* The enchantment table: a reference leads back to its name, through the null
\* the table of a consumer begins with.
LEMMA EnchantmentsMean ==
  ASSUME RankedInv, OrderInv, outcome # "query_failed"
  PROVE  /\ Len(EnchantmentTable) \in Nat
         /\ EnchantmentTable = Ascending(Range(EnchantmentTable))
         /\ \A n \in DOMAIN Published : \A k \in DOMAIN Representative(Published[n]) :
              LET name == Representative(Published[n])[k].enchantment
              IN  /\ EnchantRef(name) \in 0 .. Len(EnchantmentTable)
                  /\ (<<NoEnchantment>> \o EnchantmentTable)[EnchantRef(name) + 1] = name
<1> DEFINE names == (UNION { EnchantmentsOf(key) : key \in Range(Published) }) \ {NoEnchantment}
           T == EnchantmentTable
<1>1. facts \in Inputs
  BY RankedMeans
<1>2. \A key \in Range(Published) : key \in Candidates(facts)
  BY PublishedMeans DEF Range
<1>3. ASSUME NEW key \in Range(Published)
      PROVE  IsFiniteSet(EnchantmentsOf(key)) /\ EnchantmentsOf(key) \subseteq Int
  <2> DEFINE layout == Representative(key)
  <2>1. /\ IsFiniteSet(DOMAIN layout)
        /\ \A k \in DOMAIN layout : layout[k].enchantment \in Int
    BY <1>1, <1>2, <1>3, RepresentativeBoard
  <2> DEFINE f == [k \in DOMAIN layout |-> layout[k].enchantment]
  <2>2. EnchantmentsOf(key) = Range(f)
    BY DEF EnchantmentsOf, Range
  <2>3. IsFiniteSet(DOMAIN f) /\ \A k \in DOMAIN f : f[k] \in Int
    BY <2>1
  <2> HIDE DEF f
  <2>4. IsFiniteSet(Range(f))
    BY <2>3, RangeFinite
  <2>5. Range(f) \subseteq Int
    BY <2>3 DEF Range
  <2> QED  BY <2>2, <2>4, <2>5
<1>4. IsFiniteSet(names) /\ names \subseteq Int
  <2> DEFINE sets == { EnchantmentsOf(key) : key \in Range(Published) }
             f == [key \in Range(Published) |-> EnchantmentsOf(key)]
  <2>1. DOMAIN f = Range(Published) /\ Range(f) = sets
    BY DEF Range
  <2>2. \A S \in sets : IsFiniteSet(S) /\ S \subseteq Int
    BY <1>3
  <2>3. names = (UNION sets) \ {NoEnchantment}
    OBVIOUS
  <2> HIDE DEF sets, f, names
  <2>4. IsFiniteSet(DOMAIN Published)
    BY PublishedMeans, FS_Interval
  <2>5. IsFiniteSet(sets)
    BY <2>1, <2>4, RangeFinite
  <2>6. IsFiniteSet(UNION sets)
    BY <2>2, <2>5, FS_UNION
  <2>7. names \in SUBSET UNION sets
    BY <2>3
  <2>8. IsFiniteSet(names)
    BY <2>6, <2>7, FS_Subset
  <2> QED  BY <2>2, <2>3, <2>8
<1>5. T = Ascending(names)
  BY DEF EnchantmentTable
<1>6. \A name : EnchantRef(name) = IF name = NoEnchantment THEN 0 ELSE IndexIn(name, T)
  BY DEF EnchantRef
<1>7. ASSUME NEW n \in DOMAIN Published, NEW k \in DOMAIN Representative(Published[n])
      PROVE  LET name == Representative(Published[n])[k].enchantment
             IN  name = NoEnchantment \/ name \in names
  BY DEF EnchantmentsOf, Range
<1> HIDE DEF names, T
<1>8. /\ Len(T) \in Nat /\ DOMAIN T = 1 .. Len(T) /\ Range(T) = names
      /\ \A x \in names : IndexIn(x, T) \in 1 .. Len(T) /\ T[IndexIn(x, T)] = x
  BY <1>4, <1>5, IndexOfEntry
<1>9. T \in Seq(Int)
  <2>1. \A j \in 1 .. Len(T) : T[j] \in Int
    BY <1>4, <1>8 DEF Range
  <2>2. T = [j \in 1 .. Len(T) |-> T[j]]
    BY <1>4, <1>5, <1>8, AscendingEnumerates
  <2> QED  BY <1>8, <2>1, <2>2
<1>10. /\ (<<NoEnchantment>> \o T)[1] = NoEnchantment
       /\ \A j \in 1 .. Len(T) : (<<NoEnchantment>> \o T)[j + 1] = T[j]
  <2>1. <<NoEnchantment>> \in Seq(Int) /\ Len(<<NoEnchantment>>) = 1
    BY DEF NoEnchantment
  <2> QED  BY <1>8, <1>9, <2>1
<1>11. ASSUME NEW name, name = NoEnchantment \/ name \in names
       PROVE  /\ EnchantRef(name) \in 0 .. Len(T)
              /\ (<<NoEnchantment>> \o T)[EnchantRef(name) + 1] = name
  <2> DEFINE whole == <<NoEnchantment>> \o T
  <2>0. whole[1] = NoEnchantment /\ \A j \in 1 .. Len(T) : whole[j + 1] = T[j]
    BY <1>10
  <2> HIDE DEF whole
  <2>1. CASE name = NoEnchantment
    <3>1. EnchantRef(name) = 0
      BY <1>6, <2>1
    <3> QED  BY <1>8, <2>0, <2>1, <3>1 DEF whole
  <2>2. CASE name # NoEnchantment
    <3> DEFINE j == IndexIn(name, T)
    <3>1. EnchantRef(name) = j /\ j \in 1 .. Len(T) /\ T[j] = name
      BY <1>6, <1>8, <1>11, <2>2
    <3> HIDE DEF j
    <3>2. EnchantRef(name) \in 0 .. Len(T) /\ whole[EnchantRef(name) + 1] = name
      BY <1>8, <2>0, <3>1
    <3> QED  BY <3>2 DEF whole
  <2> QED  BY <2>1, <2>2
<1>12. T = Ascending(Range(T))
  BY <1>5, <1>8
<1> QED  BY <1>7, <1>8, <1>11, <1>12 DEF T

\* The row of a published build: what its references stand for, and that the
\* validator has nothing against it.
LEMMA BuildRowMeans ==
  ASSUME RankedInv, OrderInv, outcome # "query_failed", NEW n \in DOMAIN Published,
         NEW payload, payload.cards = CardTable, payload.enchantments = EnchantmentTable
  PROVE  LET key == Published[n]
             row == BuildRow(key)
             layout == Representative(key)
         IN  /\ row.refs = [i \in 1 .. Len(key) |-> CardRef(key[i])]
             /\ \A i \in 1 .. Len(key) : CardTable[row.refs[i] + 1] = key[i]
             /\ DOMAIN row.layout = DOMAIN layout
             /\ \A k \in DOMAIN layout :
                  /\ row.layout[k].slot = layout[k].slot /\ row.layout[k].size = layout[k].size
                  /\ CardTable[row.layout[k].ref + 1] = layout[k].template
                  /\ (<<NoEnchantment>> \o EnchantmentTable)[row.layout[k].enchantment + 1]
                       = layout[k].enchantment
             /\ row.p75 = P75(key)
             /\ ValidBuild(row, payload)
<1> DEFINE key == Published[n]
           row == BuildRow(key)
           layout == Representative(key)
           cards == CardsOf(selected)
           K == DOMAIN layout
           f == [k \in K |-> layout[k].template]
           h == [card \in cards |-> CardRef(card)]
<1>1. facts \in Inputs /\ key \in Candidates(facts) /\ Range(key) \subseteq cards
  BY PublishedMeans, RankedMeans
<1>2. /\ Len(key) \in Nat \ {0} /\ DOMAIN key = 1 .. Len(key)
      /\ key \in [1 .. Len(key) -> Cards] /\ Sorted(key) = key
      /\ Cardinality(RunsOf(key)) \in Nat
      /\ TenWinsOf(key) # {} /\ Cardinality(TenWinsOf(key)) \in 1 .. Cardinality(RunsOf(key))
  BY <1>1, CandidateMeans
<1>3. /\ IsFiniteSet(K) /\ K = 1 .. Len(layout)
      /\ Sized(layout) /\ TotalSize(layout) = Width
      /\ \A k \in K : /\ layout[k].template \in Cards /\ layout[k].size > 0
                      /\ layout[k].slot >= 0 /\ layout[k].enchantment \in Int
      /\ key = Sorted(f) /\ Len(key) = Len(layout)
      /\ Range(key) = { layout[k].template : k \in K }
  BY <1>1, RepresentativeBoard
<1>4. /\ IsFiniteSet(cards) /\ cards \subseteq Cards /\ cards \subseteq Int
      /\ Len(CardTable) \in Nat
      /\ \A card \in cards : /\ CardRef(card) \in 0 .. Len(CardTable) - 1
                             /\ CardTable[CardRef(card) + 1] = card
      /\ \A a, b \in cards : a < b => CardRef(a) < CardRef(b)
  BY CardsMean, SelectionAssumption
<1>5. \A k \in K : LET name == layout[k].enchantment
                   IN  /\ EnchantRef(name) \in 0 .. Len(EnchantmentTable)
                       /\ (<<NoEnchantment>> \o EnchantmentTable)[EnchantRef(name) + 1] = name
  BY EnchantmentsMean
<1>6. /\ row.refs = Sorted([i \in DOMAIN key |-> CardRef(key[i])])
      /\ row.layout = [i \in K |-> [ref |-> CardRef(layout[i].template), slot |-> layout[i].slot,
                                    enchantment |-> EnchantRef(layout[i].enchantment),
                                    size |-> layout[i].size]]
      /\ row.completed = Cardinality(RunsOf(key))
      /\ row.ten_win = Cardinality(TenWinsOf(key)) /\ row.p75 = P75(key)
  BY DEF BuildRow
<1>7. P75(key) >= NoDay
  BY <1>1, P75Means
<1> HIDE DEF key, row, layout, cards, K
<1>8. h \in [cards -> Int] /\ Increasing(h, cards)
  BY <1>4 DEF Increasing
<1>9. /\ \A i \in 1 .. Len(key) : key[i] \in cards /\ key[i] \in Int
      /\ \A k \in K : layout[k].template \in cards
  <2>1. \A i \in 1 .. Len(key) : key[i] \in Range(key)
    BY <1>2 DEF Range
  <2> QED  BY <1>1, <1>3, <1>4, <2>1
<1>10. IsFiniteSet(1 .. Len(key)) /\ Cardinality(1 .. Len(key)) = Len(key)
  BY <1>2, FS_Interval
<1>11. row.refs = [i \in 1 .. Len(key) |-> CardRef(key[i])]
  <2>1. [i \in 1 .. Len(key) |-> CardRef(key[i])] = Composed(h, key)
    BY <1>2, <1>9 DEF Composed
  <2> HIDE DEF h
  <2> DEFINE I == 1 .. Len(key)
  <2>2. key \in [I -> Int] /\ Range(key) \subseteq cards /\ IsFiniteSet(I)
    BY <1>1, <1>2, <1>9, <1>10
  <2> HIDE DEF I
  <2>3. Sorted(Composed(h, key)) = Composed(h, Sorted(key))
    BY <1>4, <1>8, <2>2, SortedMapped
  <2> QED  BY <1>2, <1>6, <2>1, <2>3
<1>12. Sorted([k \in K |-> CardRef(layout[k].template)]) = row.refs
  <2>1. f \in [K -> Int] /\ Range(f) \subseteq cards
    BY <1>4, <1>9 DEF Range
  <2>2. [k \in K |-> CardRef(layout[k].template)] = Composed(h, f)
    BY <1>9 DEF Composed
  <2>3. [i \in 1 .. Len(key) |-> CardRef(key[i])] = Composed(h, key)
    BY <1>2, <1>9 DEF Composed
  <2>4. key = Sorted(f)
    BY <1>3
  <2> HIDE DEF h, f
  <2>5. Sorted(Composed(h, f)) = Composed(h, Sorted(f))
    BY <1>3, <1>4, <1>8, <2>1, SortedMapped
  <2> QED  BY <1>11, <2>2, <2>3, <2>4, <2>5
<1> HIDE DEF f, h
<1>13. /\ DOMAIN row.layout = K
       /\ \A k \in K :
            /\ row.layout[k].slot = layout[k].slot /\ row.layout[k].size = layout[k].size
            /\ row.layout[k].ref = CardRef(layout[k].template)
            /\ row.layout[k].enchantment = EnchantRef(layout[k].enchantment)
  BY <1>6
<1>14. TotalSize(row.layout) = Width
  <2> DEFINE p == [k \in K |-> k]
  <2>1. p \in Bijection(K, DOMAIN row.layout)
    BY <1>13 DEF Bijection, Injection, Surjection, IsInjective
  <2>2. \A k \in K : /\ row.layout[p[k]].slot = layout[k].slot
                     /\ row.layout[p[k]].size = layout[k].size
    BY <1>13
  <2> HIDE DEF p
  <2>3. TotalSize(row.layout) = TotalSize(layout)
    BY <1>3, <2>1, <2>2, TotalReindexed
  <2> QED  BY <1>3, <2>3
<1>15. \A i \in 1 .. Len(key) : /\ row.refs[i] \in 0 .. Len(CardTable) - 1
                                /\ CardTable[row.refs[i] + 1] = key[i]
  BY <1>4, <1>9, <1>11
<1>16. \A k \in K : /\ row.layout[k].ref \in 0 .. Len(CardTable) - 1
                    /\ CardTable[row.layout[k].ref + 1] = layout[k].template
  BY <1>4, <1>9, <1>13
<1>17. ValidBuild(row, payload)
  <2>1. \A ref \in Range(row.refs) : ref \in 0 .. Len(payload.cards) - 1
    BY <1>11, <1>15 DEF Range
  <2>2. row.refs # <<>>
    BY <1>2, <1>11
  <2>3. row.refs = Sorted([i \in DOMAIN row.layout |-> row.layout[i].ref])
    <3>1. [i \in DOMAIN row.layout |-> row.layout[i].ref]
            = [k \in K |-> CardRef(layout[k].template)]
      BY <1>13
    <3> QED  BY <1>12, <3>1
  <2>4. \A item \in Range(row.layout) :
          /\ item.ref < Len(payload.cards) /\ item.slot >= 0 /\ item.size >= 1
          /\ item.enchantment \in 0 .. Len(payload.enchantments)
    <3> SUFFICES ASSUME NEW k \in K
                 PROVE  LET item == row.layout[k]
                        IN  /\ item.ref < Len(payload.cards) /\ item.slot >= 0
                            /\ item.size >= 1
                            /\ item.enchantment \in 0 .. Len(payload.enchantments)
      BY <1>13 DEF Range
    <3>1. row.layout[k].ref < Len(payload.cards)
      BY <1>4, <1>16
    <3>2. layout[k].size \in Nat /\ layout[k].size > 0 /\ layout[k].slot >= 0
      BY <1>3 DEF Sized
    <3> QED  BY <1>5, <1>13, <3>1, <3>2
  <2>5. row.completed >= 1 /\ row.ten_win \in 1 .. row.completed
    BY <1>2, <1>6
  <2>6. row.p75 >= NoDay
    BY <1>6, <1>7
  <2> QED  BY <1>14, <2>1, <2>2, <2>3, <2>4, <2>5, <2>6 DEF ValidBuild
<1> QED  BY <1>5, <1>6, <1>11, <1>13, <1>15, <1>16, <1>17 DEF key, row, layout, K

-----------------------------------------------------------------------------
\* The builds listed under a card: however often it occurs in a build, each of
\* the builds with the card once, in order.
EntriesOf(builds, ref) ==
    UNION { {i} \X (1 .. Entries(ref, builds[i].refs)) : i \in DOMAIN builds }
IdsWith(builds, ref) ==
    { n - 1 : n \in { m \in DOMAIN builds : ref \in Range(builds[m].refs) } }

LEMMA IdsOfCard ==
  ASSUME NEW builds, IsFiniteSet(DOMAIN builds), DOMAIN builds \subseteq Int, NEW ref
  PROVE  /\ Sorted([entry \in EntriesOf(builds, ref) |-> entry[1] - 1])
              = Ascending(IdsWith(builds, ref))
         /\ IsFiniteSet(IdsWith(builds, ref)) /\ IdsWith(builds, ref) \subseteq Int
<1> DEFINE having == { m \in DOMAIN builds : ref \in Range(builds[m].refs) }
           entries == UNION { {i} \X (1 .. Entries(ref, builds[i].refs)) : i \in DOMAIN builds }
           with == { n - 1 : n \in having }
           f == [x \in with |-> x]
           g == [entry \in entries |-> entry[1] - 1]
           p == [x \in with |-> <<x + 1, 1>>]
<1>1. \A i \in DOMAIN builds :
        1 .. Entries(ref, builds[i].refs) = IF i \in having THEN {1} ELSE {}
  <2> SUFFICES ASSUME NEW i \in DOMAIN builds
               PROVE  1 .. Entries(ref, builds[i].refs) = IF i \in having THEN {1} ELSE {}
    OBVIOUS
  <2>1. i \in having => Entries(ref, builds[i].refs) = 1
    BY DEF Entries
  <2>2. i \notin having => Entries(ref, builds[i].refs) = 0
    BY DEF Entries
  <2> HIDE DEF having
  <2>3. 1 .. 1 = {1} /\ 1 .. 0 = {}
    OBVIOUS
  <2> QED  BY <2>1, <2>2, <2>3
<1>2. entries = having \X {1}
  <2> DEFINE box(i) == {i} \X (1 .. Entries(ref, builds[i].refs))
  <2>1. entries = UNION { box(i) : i \in DOMAIN builds }
    OBVIOUS
  <2>2. \A i \in DOMAIN builds : box(i) = IF i \in having THEN {i} \X {1} ELSE {}
    BY <1>1
  <2>3. \A i \in having : i \in DOMAIN builds
    OBVIOUS
  <2> HIDE DEF entries, having, box
  <2>4. \A e : e \in entries <=> \E i \in DOMAIN builds : e \in box(i)
    BY <2>1
  <2>5. \A e : e \in entries <=> \E i \in having : e \in {i} \X {1}
    BY <2>2, <2>3, <2>4
  <2> QED  BY <2>5
<1>3. having \in SUBSET DOMAIN builds /\ having \subseteq Int
  OBVIOUS
<1>4. IsFiniteSet(having)
  BY <1>3, FS_Subset
<1>5. IsFiniteSet(with) /\ with \subseteq Int
  <2> DEFINE q == [n \in having |-> n - 1]
  <2>1. DOMAIN q = having /\ Range(q) = with
    BY DEF Range
  <2>2. with \subseteq Int
    BY <1>3
  <2> HIDE DEF q, having, with
  <2> QED  BY <1>4, <2>1, <2>2, RangeFinite
<1> HIDE DEF entries
<1>6. p \in Bijection(with, entries)
  <2>1. \A x \in with : x \in Int /\ x + 1 \in having
    BY <1>3
  <2>2. p \in [with -> entries]
    BY <1>2, <2>1
  <2>3. \A x, y \in with : p[x] = p[y] => x = y
    BY <2>1
  <2>4. ASSUME NEW e \in entries  PROVE  \E x \in with : p[x] = e
    <3>1. PICK n \in having : e = <<n, 1>>
      BY <1>2
    <3>2. n - 1 \in with /\ n \in Int /\ (n - 1) + 1 = n
      BY <1>3
    <3>3. p[n - 1] = <<(n - 1) + 1, 1>>
      BY <3>2
    <3> QED  BY <3>1, <3>2, <3>3
  <2> QED  BY <2>2, <2>3, <2>4 DEF Bijection, Injection, Surjection, IsInjective
<1>7. f \in [with -> Int] /\ g \in [entries -> Int]
  BY <1>2, <1>3, <1>5
<1>8. \A x \in with : f[x] = g[p[x]]
  <2> SUFFICES ASSUME NEW x \in with  PROVE  f[x] = g[p[x]]
    OBVIOUS
  <2>1. x \in Int /\ x + 1 \in having /\ (x + 1) - 1 = x
    BY <1>3
  <2>2. p[x] = <<x + 1, 1>> /\ <<x + 1, 1>> \in entries
    BY <1>2, <2>1
  <2>3. g[<<x + 1, 1>>] = (x + 1) - 1
    BY <2>2
  <2> QED  BY <2>1, <2>2, <2>3
<1> HIDE DEF f, g, p, with, having
<1>9. Sorted(f) = Sorted(g)
  <2>1. IsFiniteSet(with)
    BY <1>5
  <2> QED  BY <2>1, <1>6, <1>7, <1>8, SortedReindexed
<1>10. Ascending(with) = Sorted(f)
  BY DEF Ascending, f
<1>11. Sorted([entry \in entries |-> entry[1] - 1]) = Ascending(with)
  BY <1>9, <1>10 DEF g
<1>12. EntriesOf(builds, ref) = entries
  BY DEF EntriesOf, entries
<1>13. IdsWith(builds, ref) = with
  BY DEF IdsWith, with, having
<1> QED  BY <1>5, <1>11, <1>12, <1>13

\* The index of a sequence of builds passes its validation; it has every
\* reference of every build, and under each exactly the builds with it.
LEMMA IndexMeans ==
  ASSUME NEW builds, IsFiniteSet(DOMAIN builds), DOMAIN builds \subseteq Int,
         \A n \in DOMAIN builds : /\ IsFiniteSet(Range(builds[n].refs))
                                  /\ Range(builds[n].refs) \subseteq Int,
         NEW payload, payload.builds = builds, payload.card_index = CardIndex(builds)
  PROVE  LET index == CardIndex(builds)
         IN  /\ ValidIndex(payload)
             /\ \A n \in DOMAIN builds : \A ref \in Range(builds[n].refs) :
                  \E k \in DOMAIN index : index[k].ref = ref
             /\ \A k \in DOMAIN index :
                  Range(index[k].builds)
                    = { n - 1 : n \in { m \in DOMAIN builds :
                                          index[k].ref \in Range(builds[m].refs) } }
<1> DEFINE all == UNION { Range(build.refs) : build \in Range(builds) }
           refs == Ascending(all)
           index == CardIndex(builds)
           entries(ref) == EntriesOf(builds, ref)
           with(ref) == IdsWith(builds, ref)
<1>1. IsFiniteSet(all) /\ all \subseteq Int
  <2> DEFINE f == [n \in DOMAIN builds |-> Range(builds[n].refs)]
             sets == Range(f)
  <2>1. all = UNION sets
    BY DEF Range
  <2>2. DOMAIN f = DOMAIN builds
    OBVIOUS
  <2>3. \A S \in sets : IsFiniteSet(S) /\ S \subseteq Int
    <3> SUFFICES ASSUME NEW n \in DOMAIN builds  PROVE  IsFiniteSet(f[n]) /\ f[n] \subseteq Int
      BY DEF Range
    <3> QED  OBVIOUS
  <2> HIDE DEF f
  <2>4. IsFiniteSet(sets)
    BY <2>2, RangeFinite
  <2> HIDE DEF sets, all
  <2>5. IsFiniteSet(UNION sets)
    BY <2>3, <2>4, FS_UNION
  <2> QED  BY <2>1, <2>3, <2>5
<1>2. \A n \in DOMAIN builds : Range(builds[n].refs) \subseteq all
  BY DEF Range
<1>3. index = [k \in DOMAIN refs |-> [ref |-> refs[k],
                                      builds |-> Sorted([entry \in entries(refs[k]) |-> entry[1] - 1])]]
  BY DEF CardIndex, EntriesOf
<1>4. \A ref : /\ Sorted([entry \in entries(ref) |-> entry[1] - 1]) = Ascending(with(ref))
               /\ IsFiniteSet(with(ref)) /\ with(ref) \subseteq Int
  BY IdsOfCard
<1>5. ValidIndex(payload) <=>
        /\ [k \in DOMAIN index |-> index[k].ref] = Ascending(all)
        /\ \A entry \in Range(index) : entry.builds = Ascending(with(entry.ref))
  BY DEF ValidIndex, IdsWith
<1> HIDE DEF entries, with, all, index
<1>6. /\ DOMAIN index = DOMAIN refs
      /\ \A k \in DOMAIN index : index[k].ref = refs[k] /\ index[k].builds = Ascending(with(refs[k]))
  BY <1>3, <1>4
<1>7. Cardinality(all) \in Nat /\ refs \in [1 .. Cardinality(all) -> Int] /\ Range(refs) = all
  BY <1>1, AscendingEnumerates
<1>8. \A ref : Range(Ascending(with(ref))) = with(ref)
  BY <1>4, AscendingEnumerates
<1>9. [k \in DOMAIN index |-> index[k].ref] = refs
  <2>1. refs = [k \in DOMAIN refs |-> refs[k]]
    BY <1>7
  <2> HIDE DEF refs
  <2> QED  BY <1>6, <2>1
<1> HIDE DEF refs
<1>10. ValidIndex(payload)
  <2>1. \A entry \in Range(index) : entry.builds = Ascending(with(entry.ref))
    BY <1>6 DEF Range
  <2> QED  BY <1>5, <1>9, <2>1 DEF refs
<1>11. \A ref \in all : \E k \in DOMAIN index : index[k].ref = ref
  BY <1>6, <1>7 DEF Range
<1>12. \A k \in DOMAIN index : Range(index[k].builds) = with(index[k].ref)
  BY <1>6, <1>8
<1> QED  BY <1>2, <1>10, <1>11, <1>12 DEF index, with, IdsWith

-----------------------------------------------------------------------------
\* The payload.
PublishedRows == [n \in DOMAIN Published |-> BuildRow(Published[n])]

LEMMA PayloadParts ==
  /\ Payload.cards = CardTable /\ Payload.enchantments = EnchantmentTable
  /\ Payload.builds = PublishedRows /\ Payload.card_index = CardIndex(PublishedRows)
BY DEF Payload, PublishedRows

\* Its rows, with what BuildRowMeans says of each.
LEMMA RowsMean ==
  ASSUME RankedInv, OrderInv, outcome # "query_failed"
  PROVE  /\ DOMAIN PublishedRows = DOMAIN Published
         /\ IsFiniteSet(DOMAIN PublishedRows) /\ DOMAIN PublishedRows \subseteq Int
         /\ \A n \in DOMAIN Published :
              /\ PublishedRows[n] = BuildRow(Published[n])
              /\ ValidBuild(PublishedRows[n], Payload)
              /\ IsFiniteSet(Range(PublishedRows[n].refs))
              /\ Range(PublishedRows[n].refs) \subseteq Int
              /\ Range(PublishedRows[n].refs) = { CardRef(card) : card \in Range(Published[n]) }
<1>1. /\ DOMAIN PublishedRows = DOMAIN Published
      /\ \A n \in DOMAIN Published : PublishedRows[n] = BuildRow(Published[n])
  BY DEF PublishedRows
<1>2. IsFiniteSet(DOMAIN Published) /\ DOMAIN Published \subseteq Int
  BY PublishedMeans, FS_Interval
<1>3. ASSUME NEW n \in DOMAIN Published
      PROVE  /\ ValidBuild(BuildRow(Published[n]), Payload)
             /\ IsFiniteSet(Range(BuildRow(Published[n]).refs))
             /\ Range(BuildRow(Published[n]).refs) \subseteq Int
             /\ Range(BuildRow(Published[n]).refs)
                  = { CardRef(card) : card \in Range(Published[n]) }
  <2> DEFINE key == Published[n]
             row == BuildRow(key)
  <2>1. /\ row.refs = [i \in 1 .. Len(key) |-> CardRef(key[i])]
        /\ ValidBuild(row, Payload)
    BY PayloadParts, BuildRowMeans
  <2>2. Len(key) \in Nat /\ DOMAIN key = 1 .. Len(key) /\ Range(key) \subseteq CardsOf(selected)
    BY RankedMeans, PublishedMeans, CandidateMeans
  <2>3. \A card \in CardsOf(selected) : CardRef(card) \in Int
    BY CardsMean
  <2> HIDE DEF key, row
  <2>4. Range(row.refs) = { CardRef(card) : card \in Range(key) }
    BY <2>1, <2>2 DEF Range
  <2>5. DOMAIN row.refs = 1 .. Len(key)
    BY <2>1
  <2>6. IsFiniteSet(DOMAIN row.refs)
    BY <2>2, <2>5, FS_Interval
  <2>7. IsFiniteSet(Range(row.refs))
    BY <2>6, RangeFinite
  <2>8. Range(row.refs) \subseteq Int
    BY <2>2, <2>3, <2>4
  <2> QED  BY <2>1, <2>4, <2>7, <2>8 DEF key, row
<1> QED  BY <1>1, <1>2, <1>3

\* The validator has nothing against the payload.
LEMMA PayloadValid ==
  ASSUME RankedInv, OrderInv, outcome # "query_failed"
  PROVE  IsValid(Payload)
<1>1. CardTable = Ascending(Range(CardTable))
  BY CardsMean
<1>2. EnchantmentTable = Ascending(Range(EnchantmentTable))
  BY EnchantmentsMean
<1>3. \A build \in Range(PublishedRows) : ValidBuild(build, Payload)
  BY RowsMean DEF Range
<1>4. ValidIndex(Payload)
  BY PayloadParts, RowsMean, IndexMeans
<1> QED  BY <1>1, <1>2, <1>3, <1>4, PayloadParts DEF IsValid

\* What the index lists under the card of a published build.
LEMMA IndexFinds ==
  ASSUME RankedInv, OrderInv, outcome # "query_failed", NEW card \in CardsOf(selected)
  PROVE  \E k \in DOMAIN Payload.card_index :
           LET entry == Payload.card_index[k]
           IN  /\ Payload.cards[entry.ref + 1] = card
               /\ entry.builds # <<>>
               /\ \A id \in Range(entry.builds) :
                    entry.ref \in Range(Payload.builds[id + 1].refs)
<1> DEFINE rows == PublishedRows
           index == CardIndex(rows)
           ref == CardRef(card)
<1>1. PICK n \in DOMAIN Published : card \in Range(Published[n])
  <2>1. PICK i \in selected : card \in identity[i]
    BY DEF CardsOf
  <2>2. i \in Ranked
    BY <2>1 DEF OrderInv, TypeOK
  <2>3. card \in Range(ranked[i])
    BY <2>1, <2>2, RankedMeans
  <2> QED  BY <2>1, <2>3, PublishedMeans
<1>2. CardTable[ref + 1] = card /\ ref \in Int
  BY CardsMean
<1>3. /\ DOMAIN rows = DOMAIN Published /\ DOMAIN rows \subseteq Int
      /\ ref \in Range(rows[n].refs)
  BY <1>1, RowsMean
<1>4. /\ \A m \in DOMAIN rows : \A r \in Range(rows[m].refs) :
           \E k \in DOMAIN index : index[k].ref = r
      /\ \A k \in DOMAIN index :
           Range(index[k].builds)
             = { m - 1 : m \in { j \in DOMAIN rows : index[k].ref \in Range(rows[j].refs) } }
  BY RowsMean, PayloadParts, IndexMeans
<1> HIDE DEF ref, rows, index
<1>5. PICK k \in DOMAIN index : index[k].ref = ref
  BY <1>1, <1>3, <1>4
<1>6. Range(index[k].builds) = { m - 1 : m \in { j \in DOMAIN rows : ref \in Range(rows[j].refs) } }
  BY <1>4, <1>5
<1>7. n - 1 \in Range(index[k].builds)
  BY <1>1, <1>3, <1>6
<1>8. index[k].builds # <<>>
  BY <1>7 DEF Range
<1>9. ASSUME NEW id \in Range(index[k].builds)  PROVE  ref \in Range(rows[id + 1].refs)
  <2>1. PICK m \in DOMAIN rows : id = m - 1 /\ ref \in Range(rows[m].refs)
    BY <1>6, <1>9
  <2>2. id + 1 = m
    BY <1>3, <2>1
  <2> QED  BY <2>1, <2>2
<1>10. Payload.card_index = index /\ Payload.cards = CardTable /\ Payload.builds = rows
  BY PayloadParts DEF index, rows
<1> QED  BY <1>2, <1>5, <1>8, <1>9, <1>10

-----------------------------------------------------------------------------
\* Boards, as a consumer sees them.
Shown(row) == [template |-> row.template, slot |-> row.slot, size |-> row.size,
               enchantment |-> row.enchantment]
Board(run) == { Shown(row) : row \in Range(Rows(run)) }

\* An item of a full board is what is shown of it: its type and its status are
\* those of every such item.
LEMMA ShownDistinct ==
  ASSUME NEW run \in FactRuns, Eligible(run), NEW other \in FactRuns, Eligible(other),
         NEW row \in Range(Rows(run)), NEW twin \in Range(Rows(other)), Shown(row) = Shown(twin)
  PROVE  row = twin
<1>1. PICK a \in DOMAIN Rows(run) : row = Rows(run)[a]
  BY DEF Range
<1>2. PICK b \in DOMAIN Rows(other) : twin = Rows(other)[b]
  BY DEF Range
<1> DEFINE R == [template : Int, type : Int, size : Int, slot : Int, enchantment : Int,
                 status : {"captured", "missing", "unset"}]
<1>3. row \in R /\ row.type = 0 /\ row.status = "captured"
  BY <1>1, RowsTyped DEF Eligible, IsItem
<1>4. twin \in R /\ twin.type = 0 /\ twin.status = "captured"
  BY <1>2, RowsTyped DEF Eligible, IsItem
<1>5. /\ row.template = twin.template /\ row.slot = twin.slot
      /\ row.size = twin.size /\ row.enchantment = twin.enchantment
  BY DEF Shown
<1> QED  BY <1>3, <1>4, <1>5

LEMMA BoardIsLayout ==
  ASSUME NEW run \in FactRuns, Eligible(run), NEW other \in FactRuns, Eligible(other)
  PROVE  Board(run) = Board(other) <=> Layout(run) = Layout(other)
<1>1. ASSUME Board(run) = Board(other)  PROVE  Range(Rows(run)) = Range(Rows(other))
  <2>1. ASSUME NEW row \in Range(Rows(run))  PROVE  row \in Range(Rows(other))
    <3>1. PICK twin \in Range(Rows(other)) : Shown(row) = Shown(twin)
      BY <1>1, <2>1 DEF Board
    <3> QED  BY <2>1, <3>1, ShownDistinct
  <2>2. ASSUME NEW row \in Range(Rows(other))  PROVE  row \in Range(Rows(run))
    <3>1. PICK twin \in Range(Rows(run)) : Shown(row) = Shown(twin)
      BY <1>1, <2>2 DEF Board
    <3> QED  BY <2>2, <3>1, ShownDistinct
  <2> QED  BY <2>1, <2>2
<1>2. Range(Rows(run)) = Range(Rows(other)) => Board(run) = Board(other)
  BY DEF Board
<1> QED  BY <1>1, <1>2, SameBoard

\* The Ten-Win runs with the board of a run of a candidate are the ones the
\* most frequent layout is counted by.
BoardWins(board) ==
    { r \in DOMAIN facts : facts[r].tenWin /\ Eligible(facts[r]) /\ Board(facts[r]) = board }

LEMMA WinsOfBoard ==
  ASSUME facts \in Inputs, NEW key \in Candidates(facts), NEW r \in TenWinsOf(key)
  PROVE  /\ r \in BoardWins(Board(facts[r]))
         /\ Cardinality(BoardWins(Board(facts[r]))) = Observations(key, Layout(facts[r]))
<1>1. /\ \A q \in DOMAIN facts : facts[q] \in FactRuns
      /\ r \in DOMAIN facts /\ Eligible(facts[r]) /\ BuildKey(facts[r]) = key /\ facts[r].tenWin
  BY FactTyped DEF TenWinsOf, RunsOf
<1>2. ASSUME NEW q \in DOMAIN facts
      PROVE  q \in BoardWins(Board(facts[r])) <=>
               q \in TenWinsOf(key) /\ Layout(facts[q]) = Layout(facts[r])
  <2>1. CASE ~(facts[q].tenWin /\ Eligible(facts[q]))
    BY <2>1 DEF BoardWins, TenWinsOf, RunsOf
  <2>2. CASE facts[q].tenWin /\ Eligible(facts[q])
    <3>1. Board(facts[q]) = Board(facts[r]) <=> Layout(facts[q]) = Layout(facts[r])
      BY <1>1, <2>2, BoardIsLayout
    <3>2. Layout(facts[q]) = Layout(facts[r]) => BuildKey(facts[q]) = key
      BY <1>1, <2>2, SameBoard
    <3>3. q \in BoardWins(Board(facts[r])) <=> Board(facts[q]) = Board(facts[r])
      BY <2>2 DEF BoardWins
    <3>4. q \in TenWinsOf(key) <=> BuildKey(facts[q]) = key
      BY <2>2 DEF TenWinsOf, RunsOf
    <3> QED  BY <3>1, <3>2, <3>3, <3>4
  <2> QED  BY <2>1, <2>2
<1>3. /\ BoardWins(Board(facts[r])) \subseteq DOMAIN facts
      /\ TenWinsOf(key) \subseteq DOMAIN facts
  BY DEF BoardWins, TenWinsOf, RunsOf
<1>4. BoardWins(Board(facts[r])) = { q \in TenWinsOf(key) : Layout(facts[q]) = Layout(facts[r]) }
  BY <1>2, <1>3
<1> QED  BY <1>4 DEF Observations

-----------------------------------------------------------------------------
\* The snapshot: an emitted one is the payload of a selection that is done.
SnapshotInv ==
    /\ RankedInv
    /\ outcome \in {"selecting", "query_failed", "built"}
    /\ outcome = "built" => Done /\ snapshot = Payload

\* Nothing the payload is made of changes when it is emitted.
LEMMA PayloadStays ==
  ASSUME UNCHANGED <<vars, facts, ranked>>
  PROVE  Payload' = Payload
<1>0. vars' = vars /\ facts' = facts /\ ranked' = ranked
  OBVIOUS
<1>1. \A key : RunsOf(key)' = RunsOf(key)
  BY <1>0 DEF RunsOf
<1>2. \A key : TenWinsOf(key)' = TenWinsOf(key)
  BY <1>0, <1>1 DEF TenWinsOf
<1>3. \A key, layout : Observations(key, layout)' = Observations(key, layout)
  BY <1>0, <1>2 DEF Observations
<1>4. \A key : Representative(key)' = Representative(key)
  BY <1>0, <1>2, <1>3 DEF Representative
<1>5. \A key : KnownDays(key)' = KnownDays(key)
  BY <1>0, <1>2 DEF KnownDays
<1>6. \A key : P75(key)' = P75(key)
  BY <1>5 DEF P75
<1>7. Published' = Published
  BY <1>0 DEF Published, vars
<1>8. CardTable' = CardTable
  BY <1>0 DEF CardTable, vars, CardsOf
<1>9. \A card : CardRef(card)' = CardRef(card)
  BY <1>8 DEF CardRef
<1>10. \A key : EnchantmentsOf(key)' = EnchantmentsOf(key)
  BY <1>4 DEF EnchantmentsOf
<1>11. EnchantmentTable' = EnchantmentTable
  BY <1>7, <1>10 DEF EnchantmentTable
<1>12. \A name : EnchantRef(name)' = EnchantRef(name)
  BY <1>11 DEF EnchantRef
<1>13. \A key : BuildRow(key)' = BuildRow(key)
  BY <1>1, <1>2, <1>4, <1>6, <1>9, <1>12 DEF BuildRow
<1> QED  BY <1>7, <1>8, <1>11, <1>13 DEF Payload

\* Building the snapshot runs the selection loop and leaves it alone after
\* (build_builds calls select_build_identities): what holds of the loop holds here.
THEOREM SnapshotSelects == SnapshotSpec => Spec
<1>1. SnapshotInit => Init
  BY DEF SnapshotInit
<1>2. [SnapshotNext]_snapshotVars => [Next]_vars
  BY DEF SnapshotNext, Select, Emit, snapshotVars
<1> QED  BY <1>1, <1>2, PTL DEF SnapshotSpec, Spec

\* What the builder ranks are the builds of the full boards, in the order of the
\* ranking, and what it emits is their payload, unchanged from then on
\* (build_builds).
THEOREM SnapshotInvariant == SnapshotSpec => []SnapshotInv
<1>1. SnapshotInit => SnapshotInv
  <2> SUFFICES ASSUME SnapshotInit  PROVE  SnapshotInv
    OBVIOUS
  <2>1. facts \in Inputs /\ count = Len(ranked)
        /\ identity = [i \in 1 .. count |-> Range(ranked[i])]
    BY DEF SnapshotInit
  <2>2. CASE QueryRaises(facts)
    <3>1. outcome = "query_failed"
      BY <2>2 DEF SnapshotInit
    <3> QED  BY <2>1, <3>1 DEF SnapshotInv, RankedInv
  <2>3. CASE ~QueryRaises(facts)
    <3>1. outcome = "selecting" /\ ranked \in SetToSeqs(Candidates(facts))
      BY <2>3 DEF SnapshotInit
    <3> QED  BY <2>1, <3>1 DEF SnapshotInv, RankedInv
  <2> QED  BY <2>2, <2>3
<1>2. SnapshotInv /\ OrderInv /\ [SnapshotNext]_snapshotVars => SnapshotInv'
  <2> SUFFICES ASSUME SnapshotInv, OrderInv, [SnapshotNext]_snapshotVars  PROVE  SnapshotInv'
    OBVIOUS
  <2>0. RankedInv
    BY DEF SnapshotInv
  <2>1. CASE Select
    <3>1. /\ outcome = "selecting" /\ UNCHANGED <<facts, ranked, outcome>>
          /\ UNCHANGED <<count, identity>>
      BY <2>1 DEF Select, Next, SkipCoveredCard, AppendBest
    <3>2. RankedInv'
      BY <2>0, <3>1 DEF RankedInv
    <3> QED  BY <3>1, <3>2 DEF SnapshotInv
  <2>2. CASE Emit
    <3>1. /\ outcome = "selecting" /\ Done /\ snapshot' = Payload
          /\ outcome' = IF IsValid(Payload) THEN "built" ELSE "violation"
          /\ UNCHANGED <<vars, facts, ranked>>
      BY <2>2 DEF Emit
    <3>2. IsValid(Payload)
      BY <2>0, <3>1, PayloadValid
    <3>3. Payload' = Payload
      BY <3>1, PayloadStays
    <3>4. Done' /\ RankedInv'
      <4>1. pending' = pending /\ count' = count /\ identity' = identity
            /\ facts' = facts /\ ranked' = ranked
        BY <3>1 DEF vars
      <4> QED  BY <2>0, <3>1, <3>2, <4>1 DEF Done, RankedInv
    <3> QED  BY <3>1, <3>2, <3>3, <3>4 DEF SnapshotInv
  <2>3. CASE UNCHANGED snapshotVars
    <3>1. /\ UNCHANGED <<vars, facts, ranked>> /\ UNCHANGED <<snapshot, outcome>>
          /\ pending' = pending /\ count' = count /\ identity' = identity
      BY <2>3 DEF snapshotVars, vars
    <3>2. Payload' = Payload
      BY <3>1, PayloadStays
    <3>3. RankedInv' /\ (Done' <=> Done)
      BY <2>0, <3>1 DEF RankedInv, Done
    <3> QED  BY <3>1, <3>2, <3>3 DEF SnapshotInv
  <2> QED  BY <2>1, <2>2, <2>3 DEF SnapshotNext
<1> QED  BY <1>1, <1>2, SnapshotSelects, OrderInvariant, PTL DEF SnapshotSpec

\* The published builds of a snapshot lose no card and owe every appended one to
\* a card the core has not (build_builds).
THEOREM SnapshotLosesNoCard == SnapshotSpec => [](EveryCardCovered /\ AppendedEarnsItsPlace)
BY SnapshotSelects, NoCardLost, AppendedAreNeeded, PTL

\* A run counts exactly when its only hand tiles the board (build_builds).
THEOREM FullBoardsCount == SnapshotSpec => []EligibleIsTiling
<1>1. SnapshotInv => EligibleIsTiling
  BY FactsTiled DEF SnapshotInv, RankedInv
<1> QED  BY <1>1, SnapshotInvariant, PTL

\* The builder never makes a payload that its validator refuses
\* (_validate_builds).
THEOREM BuilderAgrees == SnapshotSpec => []SnapshotValid
<1>1. SnapshotInv => SnapshotValid
  BY DEF SnapshotInv, SnapshotValid
<1> QED  BY <1>1, SnapshotInvariant, PTL

\* A consumer finds every card of every Ten-Win board through the index
\* (build_builds).
THEOREM CardsAreFound == SnapshotSpec => []EveryCardFindable
<1>1. SnapshotInv /\ OrderInv /\ EveryCardCovered => EveryCardFindable
  <2> SUFFICES ASSUME SnapshotInv, OrderInv, EveryCardCovered, outcome = "built",
                      NEW key \in Candidates(facts), NEW card \in Range(key)
               PROVE  \E k \in DOMAIN snapshot.card_index :
                        LET entry == snapshot.card_index[k]
                        IN  /\ snapshot.cards[entry.ref + 1] = card
                            /\ entry.builds # <<>>
                            /\ \A id \in Range(entry.builds) :
                                 entry.ref \in Range(snapshot.builds[id + 1].refs)
    BY DEF EveryCardFindable
  <2>1. RankedInv /\ Done /\ snapshot = Payload
    BY DEF SnapshotInv
  <2>2. PICK i \in Ranked : ranked[i] = key /\ identity[i] = Range(ranked[i])
    BY <2>1, RankedMeans
  <2>3. card \in CardsOf(Ranked)
    BY <2>2 DEF CardsOf
  <2>4. card \in CardsOf(selected)
    BY <2>1, <2>3 DEF EveryCardCovered
  <2> QED  BY <2>1, <2>4, IndexFinds
<1> QED  BY <1>1, SnapshotInvariant, SnapshotLosesNoCard, SnapshotSelects, OrderInvariant, PTL

\* The layout a consumer decodes is a board that won, and none of its build did
\* so more often (build_builds).
THEOREM DecodedWasPlayed == SnapshotSpec => []DecodesToPlayedBoard
<1>1. SnapshotInv /\ OrderInv => DecodesToPlayedBoard
  <2> DEFINE whole == <<NoEnchantment>> \o snapshot.enchantments
             decoded(build) ==
               { [template |-> snapshot.cards[item.ref + 1], slot |-> item.slot,
                  size |-> item.size, enchantment |-> whole[item.enchantment + 1]]
                 : item \in Range(build.layout) }
             keyOf(build) == Sorted([i \in DOMAIN build.refs |-> snapshot.cards[build.refs[i] + 1]])
  <2>1. SUFFICES ASSUME SnapshotInv, OrderInv, outcome = "built",
                        NEW build \in Range(snapshot.builds)
                 PROVE  /\ BoardWins(decoded(build)) # {}
                        /\ \A r \in TenWinsOf(keyOf(build)) :
                             Cardinality(BoardWins(Board(facts[r])))
                               <= Cardinality(BoardWins(decoded(build)))
    BY DEF DecodesToPlayedBoard, BoardWins, Board, Shown
  <2>2. RankedInv /\ snapshot = Payload
    BY <2>1 DEF SnapshotInv
  <2>3. /\ snapshot.cards = CardTable /\ snapshot.enchantments = EnchantmentTable
        /\ snapshot.builds = PublishedRows
    BY <2>2, PayloadParts
  <2>4. PICK n \in DOMAIN Published : build = BuildRow(Published[n])
    <3>1. build \in Range(PublishedRows)
      BY <2>1, <2>3
    <3>2. PICK i \in DOMAIN PublishedRows : build = PublishedRows[i]
      BY <3>1 DEF Range
    <3> QED  BY <2>1, <2>2, <3>2, RowsMean
  <2> DEFINE key == Published[n]
             layout == Representative(key)
  <2>5. facts \in Inputs /\ key \in Candidates(facts)
    BY <2>1, <2>2, RankedMeans, PublishedMeans
  <2>6. /\ build.refs = [i \in 1 .. Len(key) |-> CardRef(key[i])]
        /\ \A i \in 1 .. Len(key) : CardTable[build.refs[i] + 1] = key[i]
        /\ DOMAIN build.layout = DOMAIN layout
        /\ \A k \in DOMAIN layout :
             /\ build.layout[k].slot = layout[k].slot /\ build.layout[k].size = layout[k].size
             /\ CardTable[build.layout[k].ref + 1] = layout[k].template
             /\ whole[build.layout[k].enchantment + 1] = layout[k].enchantment
    BY <2>1, <2>2, <2>3, <2>4, PayloadParts, BuildRowMeans
  <2>7. keyOf(build) = key
    <3>1. DOMAIN key = 1 .. Len(key) /\ key \in [1 .. Len(key) -> Cards] /\ Sorted(key) = key
      BY <2>5, CandidateMeans
    <3> HIDE DEF key, layout
    <3>2. [i \in DOMAIN build.refs |-> CardTable[build.refs[i] + 1]] = key
      BY <2>6, <3>1
    <3> QED  BY <2>3, <3>1, <3>2
  <2>8. PICK r \in TenWinsOf(key) : layout = Layout(facts[r])
    BY <2>5, RepresentativeMeans
  <2>9. decoded(build) = Board(facts[r])
    <3>1. Range(layout) = Range(Rows(facts[r]))
      <4>1. facts[r] \in FactRuns /\ Eligible(facts[r])
        BY <2>5, <2>8, CandidateMeans
      <4> QED  BY <2>8, <4>1, LayoutMeans
    <3> HIDE DEF key, layout, whole
    <3>2. decoded(build)
            = { [template |-> CardTable[build.layout[k].ref + 1], slot |-> build.layout[k].slot,
                 size |-> build.layout[k].size,
                 enchantment |-> whole[build.layout[k].enchantment + 1]] : k \in DOMAIN layout }
      BY <2>3, <2>6 DEF Range
    <3>3. decoded(build) = { Shown(layout[k]) : k \in DOMAIN layout }
      BY <2>6, <3>2 DEF Shown
    <3>4. Board(facts[r]) = { Shown(layout[k]) : k \in DOMAIN layout }
      BY <3>1 DEF Board, Range
    <3> QED  BY <3>3, <3>4
  <2>10. /\ r \in BoardWins(Board(facts[r]))
         /\ \A q \in TenWinsOf(key) :
              Cardinality(BoardWins(Board(facts[q]))) = Observations(key, Layout(facts[q]))
    BY <2>5, <2>8, WinsOfBoard
  <2>11. \A q \in TenWinsOf(key) :
           Observations(key, Layout(facts[q])) <= Observations(key, Layout(facts[r]))
    BY <2>5, <2>8, RepresentativeMeans
  <2> HIDE DEF key, layout, decoded, keyOf
  <2> QED  BY <2>7, <2>8, <2>9, <2>10, <2>11
<1> QED  BY <1>1, SnapshotInvariant, SnapshotSelects, OrderInvariant, PTL

\* p75 is the nearest rank among the known days, and null when there is none
\* (build_builds).
THEOREM P75IsRight == SnapshotSpec => []P75IsNearestRank
<1>1. SnapshotInv /\ OrderInv => P75IsNearestRank
  <2> SUFFICES ASSUME SnapshotInv, OrderInv, outcome = "built", NEW n \in DOMAIN snapshot.builds
               PROVE  LET p75 == snapshot.builds[n].p75
                          known == { r \in TenWinsOf(Published[n]) : facts[r].day # NoDay }
                          by(day) == Cardinality({ r \in known : facts[r].day <= day })
                      IN  IF known = {} THEN p75 = NoDay
                          ELSE /\ 4 * by(p75) >= 3 * Cardinality(known)
                               /\ 4 * by(p75 - 1) < 3 * Cardinality(known)
    BY DEF P75IsNearestRank
  <2>1. RankedInv /\ snapshot.builds = PublishedRows
    BY PayloadParts DEF SnapshotInv
  <2>2. n \in DOMAIN Published /\ snapshot.builds[n] = BuildRow(Published[n])
    BY <2>1, RowsMean
  <2>3. snapshot.builds[n].p75 = P75(Published[n])
    BY <2>2 DEF BuildRow
  <2>4. facts \in Inputs /\ Published[n] \in Candidates(facts)
    BY <2>1, <2>2, RankedMeans, PublishedMeans
  <2> QED  BY <2>3, <2>4, P75Means
<1> QED  BY <1>1, SnapshotInvariant, SnapshotSelects, OrderInvariant, PTL

=============================================================================
