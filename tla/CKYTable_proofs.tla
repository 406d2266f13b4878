--------------------------- MODULE CKYTable_proofs ---------------------------
(***************************************************************************)
(* Proofs that the packed chart is sound for every sentence length and     *)
(* every number of tags.  The strengthening says in closed form what the   *)
(* loop of the constructor has stored so far:                              *)
(*    2 * shift[j] = (j - 1) * (2 * NumWords - j + 2).                     *)
(***************************************************************************)
EXTENDS CKYTable, TLAPS

Row(j) == (j - 1) * (2 * NumWords - j + 2)

PcOK ==
  /\ pc = "start" => i = 0
  /\ pc = "fill"  => i \in 1..(NumWords + 1)
  /\ pc = "ready" => i = NumWords + 1

OffsetsOK == \A j \in 0..(i - 1) : 2 * shift[j] = Row(j)

IInv == TypeOK /\ PcOK /\ OffsetsOK

-----------------------------------------------------------------------------
(* Arithmetic.                                                             *)

(* The number of spans is exact: N * (N + 1) is even.                      *)
LEMMA TriExact == 2 * Tri = NumWords * (NumWords + 1) /\ Tri \in Nat
<1>1. NumWords \in Nat
  BY SizeAssumption
<1>2. PICK k \in Nat : NumWords = 2 * k \/ NumWords = 2 * k + 1
  <2>1. NumWords \div 2 \in Nat /\ (NumWords = 2 * (NumWords \div 2)
                                     \/ NumWords = 2 * (NumWords \div 2) + 1)
    BY <1>1
  <2> QED  BY <2>1
<1>3. CASE NumWords = 2 * k
  <2>1. NumWords * (NumWords + 1) = 2 * (k * (2 * k + 1))
    BY <1>2, <1>3
  <2>2. k * (2 * k + 1) \in Nat
    BY <1>2
  <2>3. Tri = k * (2 * k + 1)
    BY <2>1, <2>2 DEF Tri
  <2> QED  BY <2>1, <2>2, <2>3
<1>4. CASE NumWords = 2 * k + 1
  <2>1. NumWords * (NumWords + 1) = 2 * ((2 * k + 1) * (k + 1))
    BY <1>2, <1>4
  <2>2. (2 * k + 1) * (k + 1) \in Nat
    BY <1>2
  <2>3. Tri = (2 * k + 1) * (k + 1)
    BY <2>1, <2>2 DEF Tri
  <2> QED  BY <2>1, <2>2, <2>3
<1> QED  BY <1>2, <1>3, <1>4

(* The row of spans of length l ends before the entries do.                *)
LEMMA RowInside ==
  ASSUME NEW l \in 1..NumWords, NEW b \in 0..(NumWords - l), NEW s \in Int,
         2 * s = Row(l)
  PROVE  s + b \in 0..(Tri - 1)
<1>1. NumWords \in Nat /\ l \in Int /\ b \in Int
  BY SizeAssumption
<1>2. 2 * (s + b) = (l - 1) * (2 * NumWords - l + 2) + 2 * b
  BY <1>1 DEF Row
<1>3. (l - 1) * (2 * NumWords - l + 2) >= 0
  BY <1>1
<1>4. (l - 1) * (2 * NumWords - l + 2) + 2 * (NumWords - l) + 2
        + (NumWords - l) * (NumWords - l + 1) = NumWords * (NumWords + 1)
  BY <1>1
<1>5. (NumWords - l) * (NumWords - l + 1) >= 0
  BY <1>1
<1>6. 2 * (s + b) >= 0
  BY <1>1, <1>2, <1>3
<1>7. 2 * (s + b) <= 2 * Tri - 2
  <2> DEFINE A == (l - 1) * (2 * NumWords - l + 2)
             B == (NumWords - l) * (NumWords - l + 1)
  <2>1. A \in Int /\ B \in Int /\ Tri \in Int
    BY <1>1, TriExact
  <2>2. A + 2 * (NumWords - l) + 2 + B = 2 * Tri
    BY <1>4, TriExact
  <2>3. 2 * (s + b) = A + 2 * b
    BY <1>2
  <2>4. B >= 0
    BY <1>5
  <2> HIDE DEF A, B
  <2> QED  BY <2>1, <2>2, <2>3, <2>4, <1>1
<1> QED  BY <1>1, <1>6, <1>7, TriExact

(* A longer span's row starts after the last entry of a shorter span's.    *)
LEMMA RowsDisjoint ==
  ASSUME NEW l \in 1..NumWords, NEW b \in 0..(NumWords - l), NEW s \in Int,
         NEW m \in 1..NumWords, NEW d \in 0..(NumWords - m), NEW u \in Int,
         2 * s = Row(l), 2 * u = Row(m), l < m
  PROVE  s + b < u + d
<1>1. NumWords \in Nat /\ l \in Int /\ m \in Int /\ b \in Int /\ d \in Int
  BY SizeAssumption
<1> DEFINE A == (l - 1) * (2 * NumWords - l + 2)
           B == (m - 1) * (2 * NumWords - m + 2)
           G == (m - l - 1) * (2 * NumWords + 2 - l - m)
<1>2. A \in Int /\ B \in Int /\ G \in Int
  BY <1>1
<1>3. B = A + 2 * (NumWords - l) + 2 + G
  BY <1>1
<1>4. G >= 0
  BY <1>1
<1>5. 2 * s = A /\ 2 * u = B
  BY DEF Row
<1> HIDE DEF A, B, G
<1> QED  BY <1>1, <1>2, <1>3, <1>4, <1>5

(* Entries of different positions, or of different tags, differ.           *)
LEMMA StrideInjective ==
  ASSUME NEW p \in Int, NEW q \in Int,
         NEW t \in 0..(NumTags - 1), NEW u \in 0..(NumTags - 1),
         NumTags * p + t = NumTags * q + u
  PROVE  p = q /\ t = u
<1>1. NumTags \in Nat /\ t \in Int /\ u \in Int /\ NumTags > 0
  BY SizeAssumption
<1>2. ASSUME p < q PROVE FALSE
  <2>1. NumTags * q >= NumTags * (p + 1)
    BY <1>1, <1>2
  <2>2. NumTags * (p + 1) = NumTags * p + NumTags
    BY <1>1
  <2> QED  BY <1>1, <2>1, <2>2
<1>3. ASSUME q < p PROVE FALSE
  <2>1. NumTags * p >= NumTags * (q + 1)
    BY <1>1, <1>3
  <2>2. NumTags * (q + 1) = NumTags * q + NumTags
    BY <1>1
  <2> QED  BY <1>1, <2>1, <2>2
<1> QED  BY <1>1, <1>2, <1>3

-----------------------------------------------------------------------------
(* The invariant.                                                          *)

(* The constructor starts with no offsets and no entries.                  *)
LEMMA InitInv == Init => IInv
<1> SUFFICES ASSUME Init PROVE IInv
  OBVIOUS
<1>1. TypeOK
  BY SizeAssumption DEF Init, TypeOK
<1>2. PcOK
  BY DEF Init, PcOK
<1>3. OffsetsOK
  BY DEF Init, OffsetsOK
<1> QED  BY <1>1, <1>2, <1>3 DEF IInv

(* Each round of the loop extends the closed form by one row.              *)
LEMMA FillInv == IInv /\ FillShift => IInv'
<1> SUFFICES ASSUME IInv, FillShift PROVE IInv'
  OBVIOUS
<1> USE DEF IInv
<1>1. NumWords \in Nat /\ i \in 1..NumWords /\ i' = i + 1 /\ pc' = "fill"
  BY SizeAssumption DEF FillShift, PcOK, TypeOK
<1>2. shift[i - 1] \in Int /\ 2 * shift[i - 1] = Row(i - 1)
  BY <1>1 DEF OffsetsOK, TypeOK
<1>3. shift' = [shift EXCEPT ![i] = NextOffset(i, shift[i - 1])]
  BY DEF FillShift
<1>4. NextOffset(i, shift[i - 1]) \in Int
  BY <1>1, <1>2 DEF NextOffset
<1>5. TypeOK'
  BY <1>1, <1>3, <1>4 DEF TypeOK, FillShift
<1>6. PcOK'
  BY <1>1 DEF PcOK
<1>7. 2 * NextOffset(i, shift[i - 1]) = Row(i)
  <2>1. Row(i - 1) = (i - 2) * (2 * NumWords - i + 3)
    BY <1>1 DEF Row
  <2>2. (i - 2) * (2 * NumWords - i + 3) + 2 * (NumWords - i + 2) = Row(i)
    BY <1>1 DEF Row
  <2> QED  BY <1>1, <1>2, <2>1, <2>2 DEF NextOffset
<1>8. OffsetsOK'
  <2> SUFFICES ASSUME NEW j \in 0..i PROVE 2 * shift'[j] = Row(j)
    BY <1>1 DEF OffsetsOK, Row
  <2>1. CASE j = i
    BY <2>1, <1>1, <1>3, <1>7 DEF TypeOK
  <2>2. CASE j # i
    BY <2>2, <1>1, <1>3 DEF TypeOK, OffsetsOK
  <2> QED  BY <2>1, <2>2
<1> QED  BY <1>5, <1>6, <1>8

(* The address of an accepted index lies inside the array.                 *)
LEMMA AddressInside ==
  ASSUME IInv, pc = "ready", NEW c \in Cells
  PROVE  /\ c[2] - c[1] \in 1..NumWords
         /\ c[1] \in 0..(NumWords - (c[2] - c[1]))
         /\ c[3] \in 0..(NumTags - 1)
         /\ shift[c[2] - c[1]] \in Int
         /\ 2 * shift[c[2] - c[1]] = Row(c[2] - c[1])
         /\ CellAddress(c) \in Slots
<1> DEFINE l == c[2] - c[1]
           s == shift[l]
           p == s + c[1]
<1>1. /\ NumWords \in Nat /\ NumTags \in Nat
      /\ l \in 1..NumWords /\ c[1] \in 0..(NumWords - l) /\ c[3] \in 0..(NumTags - 1)
  BY SizeAssumption DEF Cells
<1>2. s \in Int /\ 2 * s = Row(l)
  BY <1>1 DEF IInv, TypeOK, PcOK, OffsetsOK
<1> HIDE DEF s, l
<1>3. p \in 0..(Tri - 1)
  BY <1>1, <1>2, RowInside
<1>4. NumTags * p + c[3] \in 0..(NumTags * Tri - 1)
  <2> HIDE DEF p
  <2>1. NumTags * p + NumTags <= NumTags * Tri
    <3>1. NumTags * (p + 1) <= NumTags * Tri
      BY <1>1, <1>3, TriExact
    <3> QED  BY <1>1, <1>3, <3>1
  <2>2. NumTags * p >= 0
    BY <1>1, <1>3
  <2>3. NumTags * p \in Int /\ NumTags * Tri \in Int
    BY <1>1, <1>3, TriExact
  <2> QED  BY <1>1, <2>1, <2>2, <2>3
<1>5. CellAddress(c) = NumTags * p + c[3]
  BY DEF CellAddress, Address, l, s
<1> QED  BY <1>1, <1>2, <1>4, <1>5 DEF l, s, Slots

(* The index test accepts the constituents of the sentence and no others.  *)
LEMMA ValidIsCell ==
  ASSUME NEW b \in 0..(NumWords + 1), NEW e \in 0..(NumWords + 1), NEW t \in 0..NumTags,
         ~Invalid(b, e, t)
  PROVE  <<b, e, t>> \in Cells
BY SizeAssumption DEF Invalid, Cells

(* Each step of the constructor and each access keeps the invariant.       *)
LEMMA StepInv == IInv /\ [Next]_vars => IInv'
<1> SUFFICES ASSUME IInv, [Next]_vars PROVE IInv'
  OBVIOUS
<1>1. CASE StoreDummy
  BY <1>1, SizeAssumption DEF StoreDummy, IInv, TypeOK, PcOK, OffsetsOK, Row
<1>2. CASE FillShift
  BY <1>2, FillInv
<1>3. CASE Allocate
  BY <1>3, SizeAssumption DEF Allocate, IInv, TypeOK, PcOK, OffsetsOK, Row
<1>4. ASSUME NEW b \in 0..(NumWords + 1), NEW e \in 0..(NumWords + 1), NEW t \in 0..NumTags,
             Load(b, e, t)
      PROVE  IInv'
  <2>1. CellAddress(<<b, e, t>>) \in Slots
    BY <1>4, ValidIsCell, AddressInside DEF Load
  <2>2. mem[Address(b, e, t)] \in Values
    BY <1>4, <2>1 DEF Load, CellAddress, IInv, TypeOK
  <2>3. TypeOK'
    BY <1>4, <2>2 DEF Load, IInv, TypeOK
  <2> QED  BY <1>4, <2>3 DEF Load, IInv, PcOK, OffsetsOK, Row
<1>5. ASSUME NEW b \in 0..(NumWords + 1), NEW e \in 0..(NumWords + 1), NEW t \in 0..NumTags,
             NEW v \in Values, Store(b, e, t, v)
      PROVE  IInv'
  <2>1. TypeOK'
    BY <1>5 DEF Store, IInv, TypeOK
  <2> QED  BY <1>5, <2>1 DEF Store, IInv, PcOK, OffsetsOK, Row
<1>6. ASSUME NEW b \in 0..(NumWords + 1), NEW e \in 0..(NumWords + 1), NEW t \in 0..NumTags,
             Throw(b, e, t)
      PROVE  IInv'
  BY <1>6 DEF Throw, IInv, TypeOK, PcOK, OffsetsOK, Row
<1>7. CASE UNCHANGED vars
  BY <1>7 DEF vars, IInv, TypeOK, PcOK, OffsetsOK, Row
<1> QED  BY <1>1, <1>2, <1>3, <1>4, <1>5, <1>6, <1>7 DEF Next, At

-----------------------------------------------------------------------------
(* Every variable keeps its type, and the closed form of the offsets holds *)
(* at every step of the constructor and of every access after it.          *)
THEOREM Invariance == Spec => []IInv
<1>1. Init => IInv
  BY InitInv
<1>2. IInv /\ [Next]_vars => IInv'
  BY StepInv
<1> QED  BY <1>1, <1>2, PTL DEF Spec

(* Every variable keeps its type.                                          *)
THEOREM TypeCorrect == Spec => []TypeOK
<1>1. IInv => TypeOK
  BY DEF IInv
<1> QED  BY <1>1, Invariance, PTL

(* With the closed form of the offsets every address is in the array.      *)
LEMMA InvInBounds == IInv => InBounds
BY AddressInside DEF InBounds

(* at() never leaves the array, whatever the sentence and the tag set.     *)
THEOREM Bounds == Spec => []InBounds
BY InvInBounds, Invariance, PTL

(* Rows of different lengths, positions of a row and tags of a position    *)
(* are disjoint, so that equal addresses have equal indices.               *)
LEMMA AddressInjective == IInv => NoAlias
<1> SUFFICES ASSUME IInv, pc = "ready", NEW c \in Cells, NEW d \in Cells,
                    CellAddress(c) = CellAddress(d)
             PROVE  c = d
  BY DEF NoAlias
<1> DEFINE l == c[2] - c[1]
           m == d[2] - d[1]
<1>1. /\ l \in 1..NumWords /\ c[1] \in 0..(NumWords - l) /\ c[3] \in 0..(NumTags - 1)
      /\ shift[l] \in Int /\ 2 * shift[l] = Row(l)
  BY AddressInside
<1>2. /\ m \in 1..NumWords /\ d[1] \in 0..(NumWords - m) /\ d[3] \in 0..(NumTags - 1)
      /\ shift[m] \in Int /\ 2 * shift[m] = Row(m)
  BY AddressInside
<1>3. c = <<c[1], c[2], c[3]>> /\ d = <<d[1], d[2], d[3]>>
  BY DEF Cells
<1>4. c[1] \in Int /\ c[2] \in Int /\ d[1] \in Int /\ d[2] \in Int
  BY SizeAssumption DEF Cells
<1>5. NumTags * (shift[l] + c[1]) + c[3] = NumTags * (shift[m] + d[1]) + d[3]
  BY DEF CellAddress, Address
<1>6. shift[l] + c[1] \in Int /\ shift[m] + d[1] \in Int
  BY <1>1, <1>2, <1>4
<1> HIDE DEF l, m
<1>7. shift[l] + c[1] = shift[m] + d[1] /\ c[3] = d[3]
  BY <1>1, <1>2, <1>5, <1>6, StrideInjective
<1>8. ~(l < m)
  BY <1>1, <1>2, <1>6, <1>7, RowsDisjoint
<1>9. ~(m < l)
  BY <1>1, <1>2, <1>6, <1>7, RowsDisjoint
<1>10. l = m /\ c[1] = d[1]
  BY <1>1, <1>2, <1>4, <1>7, <1>8, <1>9, SizeAssumption
<1>11. c[2] = d[2]
  BY <1>4, <1>10 DEF l, m
<1> QED  BY <1>3, <1>7, <1>10, <1>11

(* Two constituents never share a chart entry.                             *)
THEOREM Disjoint == Spec => []NoAlias
BY AddressInjective, Invariance, PTL

-----------------------------------------------------------------------------
(* Refinement.                                                             *)

ChartView ==
  IF pc = "ready" THEN [c \in Cells |-> mem[CellAddress(c)]] ELSE <<>>

(* Before it is built the packed table shows an empty chart.               *)
LEMMA ViewInit == Init => Chart!Init
BY DEF Init, Chart!Init, None, Chart!None

(* The same facts about the state a step ends in.                          *)
LEMMA InvPrime == IInv' => InBounds' /\ NoAlias'
BY InvInBounds, AddressInjective, PTL

(* Every step of the packed table is a step of the chart or none: a store  *)
(* changes the entry of its own index alone.                               *)
LEMMA ViewStep == IInv /\ IInv' /\ [Next]_vars => [Chart!Next]_(Chart!chartVars)
<1> SUFFICES ASSUME IInv, IInv', [Next]_vars PROVE [Chart!Next]_(Chart!chartVars)
  OBVIOUS
<1>0. Chart!Cells = Cells
  BY DEF Chart!Cells, Cells
<1>1. CASE StoreDummy
  BY <1>1 DEF StoreDummy, Chart!chartVars
<1>2. CASE FillShift
  BY <1>2 DEF FillShift, Chart!chartVars
<1>3. CASE Allocate
  <2>1. pc = "fill" /\ pc' = "ready" /\ answer' = answer
    BY <1>3 DEF Allocate
  <2>2. ChartView' = [c \in Cells |-> mem'[CellAddress(c)']]
    BY <2>1 DEF ChartView
  <2>3. \A c \in Cells : mem'[CellAddress(c)'] \in Values
    BY <1>3, <2>1, InvPrime DEF InBounds, Allocate
  <2>4. ChartView' \in [Cells -> Values]
    BY <2>2, <2>3
  <2> QED  BY <2>1, <2>4, <1>0 DEF Chart!Next, Chart!Build, ChartView
<1>4. ASSUME NEW b \in 0..(NumWords + 1), NEW e \in 0..(NumWords + 1), NEW t \in 0..NumTags,
             Load(b, e, t)
      PROVE  Chart!Next
  <2>1. <<b, e, t>> \in Cells /\ pc = "ready" /\ pc' = "ready"
    BY <1>4, ValidIsCell DEF Load
  <2>2. ChartView' = ChartView
    BY <1>4 DEF ChartView, Load, CellAddress, Address
  <2>3. ChartView[<<b, e, t>>] = mem[Address(b, e, t)]
    BY <2>1 DEF ChartView, CellAddress
  <2>4. answer' = Chart!Got(ChartView[<<b, e, t>>])
    BY <1>4, <2>3 DEF Load, Got, Chart!Got
  <2> QED  BY <2>1, <2>2, <2>4, <1>0 DEF Chart!Next, Chart!Read, ChartView
<1>5. ASSUME NEW b \in 0..(NumWords + 1), NEW e \in 0..(NumWords + 1), NEW t \in 0..NumTags,
             NEW v \in Values, Store(b, e, t, v)
      PROVE  Chart!Next
  <2> DEFINE c == <<b, e, t>>
  <2>1. c \in Cells /\ pc = "ready" /\ pc' = "ready"
    BY <1>5, ValidIsCell DEF Store
  <2>2. mem' = [mem EXCEPT ![CellAddress(c)] = v] /\ mem \in [Slots -> Values]
    BY <1>5, <2>1 DEF Store, CellAddress, IInv, TypeOK
  <2>3. \A d \in Cells : CellAddress(d)' = CellAddress(d) /\ CellAddress(d) \in Slots
    BY <1>5, <2>1, AddressInside DEF Store, CellAddress, Address
  <2>4. \A d \in Cells : mem'[CellAddress(d)'] = IF d = c THEN v ELSE mem[CellAddress(d)]
    <3>1. \A d \in Cells : CellAddress(d) = CellAddress(c) => d = c
      BY <2>1, AddressInjective DEF NoAlias
    <3> HIDE DEF c
    <3> QED  BY <2>1, <2>2, <2>3, <3>1
  <2>5. ChartView' = [ChartView EXCEPT ![c] = v]
    <3>1. ChartView = [d \in Cells |-> mem[CellAddress(d)]]
      BY <2>1 DEF ChartView
    <3>2. ChartView' = [d \in Cells |-> mem'[CellAddress(d)']]
      BY <2>1 DEF ChartView
    <3> HIDE DEF c
    <3> QED  BY <2>1, <2>4, <3>1, <3>2
  <2>6. answer' = Chart!Got(v)
    BY <1>5 DEF Store, Got, Chart!Got
  <2> QED  BY <2>1, <2>5, <2>6, <1>0 DEF Chart!Next, Chart!Write, ChartView
<1>6. ASSUME NEW b \in 0..(NumWords + 1), NEW e \in 0..(NumWords + 1), NEW t \in 0..NumTags,
             Throw(b, e, t)
      PROVE  Chart!Next
  <2>1. ChartView' = ChartView
    BY <1>6 DEF ChartView, Throw, CellAddress, Address
  <2> QED  BY <1>6, <2>1 DEF Throw, Thrown, Chart!Thrown, Chart!Next, Chart!Reject, ChartView
<1>7. CASE UNCHANGED vars
  <2>1. ChartView' = ChartView
    BY <1>7 DEF ChartView, vars, CellAddress, Address
  <2> QED  BY <1>7, <2>1 DEF vars, Chart!chartVars, ChartView
<1> QED  BY <1>1, <1>2, <1>3, <1>4, <1>5, <1>6, <1>7 DEF Next, At

(* The packed chart implements the abstract one: a value read at an index  *)
(* is the last one stored at that index, for every size of the chart.      *)
THEOREM Refinement == Spec => ChartSpec
<1>1. Init => Chart!Init
  BY ViewInit
<1>2. IInv /\ IInv' /\ [Next]_vars => [Chart!Next]_(Chart!chartVars)
  BY ViewStep
<1> QED  BY <1>1, <1>2, Invariance, PTL DEF Spec, ChartSpec, Chart!Spec
=============================================================================
