---------------------------- MODULE AnnexB_proofs ----------------------------
(***************************************************************************)
(* Proofs about the scan of AnnexB, for frames of any length and any set   *)
(* of bytes.  The invariant says what each loop has already looked at: no  *)
(* start code before pos that has not opened a unit, none between pos and  *)
(* i.                                                                      *)
(***************************************************************************)
EXTENDS AnnexB, TLAPS

OpenedAt == {units[k].first - 4 : k \in 1..Len(units)}

OuterInv ==
    /\ OpenedAt = {p \in Openers : p < pos}
    /\ units # <<>> => pos = End(units[Len(units)])
    /\ units # <<>> /\ loop # "inner" => pos = len \/ pos \in Openers

InnerInv ==
    loop = "inner" => /\ pos \in Openers
                      /\ pos + 4 <= i
                      /\ \A p \in Openers : ~(pos < p /\ p < i)

IInv == /\ TypeOK
        /\ UnitsCutAtCodes
        /\ OuterInv
        /\ InnerInv
        /\ loop = "done" => ~MoreAt(pos)

Unit == [first : 0..len, size : 0..len]

(* Two start codes do not overlap. *)
LEMMA CodesApart ==
    ASSUME TypeOK, NEW p \in Openers, NEW q \in Openers, p < q
    PROVE  p + 4 <= q
<1>1. p \in Int /\ q \in Int /\ 0 <= p /\ q + 4 < len /\ len \in Nat
  BY DEF Openers, Codes, TypeOK
<1>2. /\ data[p + 3] = 1
      /\ data[q] = 0 /\ data[q + 1] = 0 /\ data[q + 2] = 0
  BY DEF Openers, Codes, StartCode
<1>3. q # p + 1 /\ q # p + 2 /\ q # p + 3
  <2>1. ASSUME q = p + 1 PROVE FALSE
    <3>1. q + 2 = p + 3
      BY <1>1, <2>1
    <3> QED
      BY <1>2, <3>1
  <2>2. ASSUME q = p + 2 PROVE FALSE
    <3>1. q + 1 = p + 3
      BY <1>1, <2>2
    <3> QED
      BY <1>2, <3>1
  <2>3. ASSUME q = p + 3 PROVE FALSE
    BY <1>2, <2>3
  <2> QED
    BY <2>1, <2>2, <2>3
<1> QED
  BY <1>1, <1>3

(* What a turn of a loop that has more bytes to look at finds.             *)
LEMMA OpenerAt ==
    ASSUME TypeOK, NEW p \in 0..len
    PROVE  p \in Openers <=> MoreAt(p) /\ StartCode(p)
BY DEF TypeOK, Openers, Codes, MoreAt

LEMMA InitIInv == Init => IInv
<1> SUFFICES ASSUME Init
             PROVE  IInv
  OBVIOUS
<1>1. TypeOK
  BY DEF Init, TypeOK
<1>2. Openers \subseteq Nat
  BY DEF Openers, Codes
<1>3. \A p \in Openers : ~(p < 0)
  BY <1>2
<1>4. OpenedAt = {}
  BY DEF Init, OpenedAt
<1> QED
  BY <1>1, <1>3, <1>4 DEF Init, IInv, UnitsCutAtCodes, OuterInv, InnerInv

(* The inner loop has found the end of the unit that began at pos.         *)
LEMMA SendUnitIInv ==
    ASSUME IInv, loop = "inner", NEW end \in Nat, SendUnit(end),
           pos + 4 <= end, end <= len, end = len \/ end \in Openers,
           \A p \in Openers : ~(pos < p /\ p < end)
    PROVE  IInv'
<1> DEFINE n == Len(units)
           u == [first |-> pos + 4, size |-> end - (pos + 4)]
<1>0. /\ TypeOK /\ UnitsCutAtCodes /\ OuterInv
      /\ pos \in Openers /\ pos \in Nat /\ len \in Nat /\ pos + 4 < len
  BY DEF IInv, InnerInv, TypeOK, Openers
<1>1. /\ units' = Append(units, u) /\ pos' = end /\ loop' = "outer"
      /\ UNCHANGED <<len, data, i>>
  BY DEF SendUnit, Resume
<1>2. Openers' = Openers /\ Openers \subseteq Nat
  BY <1>1 DEF Openers, Codes, StartCode
<1>3. /\ u \in Unit /\ u.first = pos + 4 /\ End(u) = end
  BY <1>0 DEF Unit, End
<1> HIDE DEF u
<1>4. units \in Seq(Unit) /\ n \in Nat
  BY <1>0 DEF TypeOK, Unit
<1>5. /\ units' \in Seq(Unit) /\ Len(units') = n + 1
      /\ \A k \in 1..n : units'[k] = units[k] /\ units[k] \in Unit
      /\ units'[n + 1] = u
      /\ units' # <<>>
  BY <1>1, <1>3, <1>4
<1>6. TypeOK'
  BY <1>0, <1>1, <1>5 DEF TypeOK, Unit
<1>7. UnitsCutAtCodes'
  <2>1. \A k \in 1..Len(units') :
          /\ units'[k].first - 4 \in Openers
          /\ units'[k].first < len
          /\ \A p \in Openers : ~(units'[k].first <= p /\ p < End(units'[k]))
    <3> TAKE k \in 1..Len(units')
    <3>1. CASE k \in 1..n
      BY <1>0, <1>5, <3>1 DEF UnitsCutAtCodes
    <3>2. CASE k = n + 1
      <4>1. units'[k].first - 4 = pos /\ units'[k].first < len
        BY <1>0, <1>3, <1>5, <3>2
      <4>2. ASSUME NEW p \in Openers, pos + 4 <= p, p < end
            PROVE  FALSE
        BY <1>0, <1>2, <4>2
      <4> QED
        BY <1>0, <1>3, <1>5, <3>2, <4>1, <4>2
    <3> QED
      BY <1>4, <1>5, <3>1, <3>2
  <2>2. \A k \in 1..(Len(units') - 1) :
          units'[k + 1].first = End(units'[k]) + 4
    <3> TAKE k \in 1..(Len(units') - 1)
    <3>1. k \in 1..n
      BY <1>4, <1>5
    <3>2. CASE k < n
      <4>1. k \in 1..(n - 1) /\ k + 1 \in 1..n
        BY <1>4, <3>1, <3>2
      <4> QED
        BY <1>0, <1>5, <3>1, <4>1 DEF UnitsCutAtCodes
    <3>3. CASE k = n
      <4>1. units # <<>> /\ pos = End(units[n])
        BY <1>0, <1>4, <3>1 DEF OuterInv
      <4> QED
        BY <1>3, <1>5, <3>1, <3>3, <4>1
    <3> QED
      BY <1>4, <3>1, <3>2, <3>3
  <2> QED
    BY <1>1, <1>2, <2>1, <2>2 DEF UnitsCutAtCodes, End
<1>8. OuterInv'
  <2>1. OpenedAt' = OpenedAt \cup {pos}
    <3>1. OpenedAt' = {units'[k].first - 4 : k \in 1..(n + 1)}
      BY <1>5 DEF OpenedAt
    <3>2. units'[n + 1].first - 4 = pos
      BY <1>0, <1>3, <1>5
    <3>3. 1..(n + 1) = 1..n \cup {n + 1}
      BY <1>4
    <3> QED
      BY <1>5, <3>1, <3>2, <3>3 DEF OpenedAt
  <2>2. {p \in Openers : p < end} = {p \in Openers : p < pos} \cup {pos}
    <3>1. \A p \in Openers : p < end <=> p < pos \/ p = pos
      BY <1>0, <1>2
    <3> QED
      BY <1>0, <3>1
  <2>3. OpenedAt' = {p \in Openers' : p < pos'}
    BY <1>0, <1>1, <1>2, <2>1, <2>2 DEF OuterInv
  <2>4. pos' = End(units'[Len(units')])
    BY <1>1, <1>3, <1>5
  <2>5. pos' = len' \/ pos' \in Openers'
    BY <1>1, <1>2
  <2> QED
    BY <2>3, <2>4, <2>5 DEF OuterInv, End
<1> QED
  BY <1>1, <1>6, <1>7, <1>8 DEF IInv, InnerInv

LEMMA NextIInv == IInv /\ [Next]_vars => IInv'
<1> SUFFICES ASSUME IInv, [Next]_vars
             PROVE  IInv'
  OBVIOUS
<1>0. /\ TypeOK /\ UnitsCutAtCodes /\ OuterInv /\ InnerInv
      /\ len \in Nat /\ pos \in 0..len /\ i \in 0..len
  BY DEF IInv, TypeOK
<1>1. Openers \subseteq Nat
  BY DEF Openers, Codes
<1>2. ASSUME UNCHANGED <<len, data, units>>
      PROVE  Openers' = Openers /\ OpenedAt' = OpenedAt /\ UnitsCutAtCodes'
  BY <1>0, <1>2 DEF Openers, Codes, StartCode, OpenedAt, UnitsCutAtCodes, End
<1>3. CASE SkipByte
  <2>1. /\ pos' = pos + 1 /\ loop = "outer" /\ loop' = "outer"
        /\ pos + 4 < len /\ pos \notin Openers
        /\ UNCHANGED <<len, data, i, units>>
    BY <1>0, <1>3, OpenerAt DEF SkipByte, Forward, MoreAt
  <2>2. units = <<>>
    BY <1>0, <2>1 DEF OuterInv
  <2>3. \A p \in Openers : p < pos' <=> p < pos
    BY <1>0, <1>1, <2>1
  <2>4. OuterInv'
    BY <1>0, <1>2, <2>1, <2>2, <2>3 DEF OuterInv
  <2>5. TypeOK'
    BY <1>0, <2>1 DEF TypeOK
  <2> QED
    BY <1>2, <2>1, <2>4, <2>5 DEF IInv, InnerInv
<1>4. CASE UnitBegins
  <2>1. /\ i' = pos + 4 /\ loop' = "inner" /\ loop = "outer"
        /\ pos + 4 < len /\ pos \in Openers
        /\ UNCHANGED <<len, data, pos, units>>
    BY <1>0, <1>4, OpenerAt DEF UnitBegins, MoreAt
  <2>2. ASSUME NEW p \in Openers
        PROVE  ~(pos < p /\ p < pos + 4)
    <3>1. pos < p => pos + 4 <= p
      BY <1>0, <2>1, CodesApart
    <3> QED
      BY <1>0, <1>1, <3>1
  <2>3. OuterInv'
    BY <1>0, <1>2, <2>1 DEF OuterInv, End
  <2>4. InnerInv'
    <3>1. pos + 4 <= i'
      BY <1>0, <2>1
    <3> QED
      BY <1>2, <2>1, <2>2, <3>1 DEF InnerInv
  <2>5. TypeOK'
    BY <1>0, <2>1 DEF TypeOK
  <2> QED
    BY <1>2, <2>1, <2>3, <2>4, <2>5 DEF IInv
<1>5. CASE KeepLooking
  <2>1. /\ i' = i + 1 /\ loop = "inner" /\ loop' = "inner"
        /\ i + 4 < len /\ i \notin Openers
        /\ UNCHANGED <<len, data, pos, units>>
    BY <1>0, <1>5, OpenerAt DEF KeepLooking, MoreAt
  <2>2. \A p \in Openers : ~(pos < p /\ p < i')
    BY <1>0, <1>1, <2>1 DEF InnerInv
  <2>3. pos \in Openers /\ pos + 4 <= i'
    BY <1>0, <2>1 DEF InnerInv
  <2>4. OuterInv' /\ InnerInv'
    BY <1>0, <1>2, <2>1, <2>2, <2>3 DEF OuterInv, InnerInv, End
  <2>5. TypeOK'
    BY <1>0, <2>1 DEF TypeOK
  <2> QED
    BY <1>2, <2>1, <2>4, <2>5 DEF IInv
<1>6. CASE UnitEnds
  <2>1. loop = "inner" /\ SendUnit(i) /\ i \in Openers
    BY <1>0, <1>6, OpenerAt DEF UnitEnds
  <2>2. /\ i \in Nat /\ i <= len /\ pos + 4 <= i
        /\ \A p \in Openers : ~(pos < p /\ p < i)
    BY <1>0, <2>1 DEF InnerInv
  <2> QED
    BY <2>1, <2>2, SendUnitIInv
<1>7. CASE LastUnit
  <2>1. loop = "inner" /\ SendUnit(len) /\ ~(i + 4 < len)
    BY <1>7 DEF LastUnit, MoreAt
  <2>2. pos + 4 <= len /\ len <= len
    BY <1>0, <2>1 DEF InnerInv
  <2>3. ASSUME NEW p \in Openers
        PROVE  ~(pos < p /\ p < len)
    <3>1. p \in Nat /\ p + 4 < len
      BY <1>1 DEF Openers
    <3>2. ~(pos < p /\ p < i)
      BY <1>0, <2>1 DEF InnerInv
    <3> QED
      BY <1>0, <2>1, <3>1, <3>2
  <2> QED
    BY <1>0, <2>1, <2>2, <2>3, SendUnitIInv
<1>8. CASE Return
  <2>1. /\ loop = "outer" /\ loop' = "done" /\ ~(pos + 4 < len)
        /\ UNCHANGED <<len, data, pos, i, units>>
    BY <1>8 DEF Return, MoreAt
  <2>2. OuterInv' /\ InnerInv'
    BY <1>0, <1>2, <2>1 DEF OuterInv, InnerInv, End
  <2>3. TypeOK'
    BY <1>0, <2>1 DEF TypeOK
  <2> QED
    BY <1>2, <2>1, <2>2, <2>3 DEF IInv, MoreAt
<1>9. CASE UNCHANGED vars
  <2>1. UNCHANGED <<len, data, pos, i, loop, units>>
    BY <1>9 DEF vars
  <2>2. OuterInv' /\ InnerInv'
    BY <1>0, <1>2, <2>1 DEF OuterInv, InnerInv, End
  <2>3. TypeOK'
    BY <1>0, <2>1 DEF TypeOK
  <2>4. loop' = "done" => ~MoreAt(pos)'
    BY <2>1 DEF IInv, MoreAt
  <2> QED
    BY <1>2, <2>1, <2>2, <2>3, <2>4 DEF IInv
<1> QED
  BY <1>3, <1>4, <1>5, <1>6, <1>7, <1>8, <1>9 DEF Next

THEOREM Invariance == Spec => []IInv
BY InitIInv, NextIInv, PTL DEF Spec
-----------------------------------------------------------------------------
(* The scan never reads past its frame: its positions stay within it, and  *)
(* so does every unit, for frames of any length (parseAndSendFrame).       *)
THEOREM TypeCorrect == Spec => []TypeOK
<1>1. IInv => TypeOK
  BY DEF IInv
<1> QED
  BY Invariance, <1>1, PTL

(* The units sent are cut out of the frame at its start codes and nowhere  *)
(* else, for frames of any length (parseAndSendFrame).                     *)
THEOREM Cuts == Spec => []UnitsCutAtCodes
<1>1. IInv => UnitsCutAtCodes
  BY DEF IInv
<1> QED
  BY Invariance, <1>1, PTL

(* When the scan of a frame returns, every start code that a byte follows  *)
(* has opened a unit, and the last unit ends with the frame.               *)
THEOREM Complete == Spec => []NothingLeftOut
<1>1. IInv => NothingLeftOut
  <2> SUFFICES ASSUME IInv, loop = "done"
               PROVE  /\ OpenedAt = Openers
                      /\ units # <<>> => /\ End(units[Len(units)]) = len
                                         /\ units[Len(units)].size > 0
    BY DEF NothingLeftOut, OpenedAt
  <2>1. /\ TypeOK /\ UnitsCutAtCodes /\ OuterInv
        /\ len \in Nat /\ pos \in 0..len /\ ~(pos + 4 < len)
    BY DEF IInv, TypeOK, MoreAt
  <2>2. \A p \in Openers : p \in Nat /\ p + 4 < len
    BY DEF Openers, Codes
  <2>3. \A p \in Openers : p < pos
    BY <2>1, <2>2
  <2>4. OpenedAt = Openers
    BY <2>1, <2>3 DEF OuterInv
  <2>5. ASSUME units # <<>>
        PROVE  End(units[Len(units)]) = len /\ units[Len(units)].size > 0
    <3>1. pos = End(units[Len(units)]) /\ pos = len
      BY <2>1, <2>2, <2>5 DEF OuterInv
    <3>2. Len(units) \in 1..Len(units) /\ units[Len(units)] \in Unit
      <4>1. units \in Seq(Unit)
        BY <2>1 DEF TypeOK, Unit
      <4> QED
        BY <2>5, <4>1
    <3>3. units[Len(units)].first < len
      BY <2>1, <3>2 DEF UnitsCutAtCodes
    <3> QED
      BY <2>1, <3>1, <3>2, <3>3 DEF End, Unit
  <2> QED
    BY <2>4, <2>5
<1> QED
  BY Invariance, <1>1, PTL
-----------------------------------------------------------------------------
(* Every turn of the two loops, of a frame of any length, leaves less to   *)
(* do, which is never less than nothing: the scan ends after at most       *)
(* len + 1 turns.  The inner loop may give back its turn to the outer one  *)
(* because it stands at least four bytes after pos (parseAndSendFrame).    *)
THEOREM Advances == Spec => ScanAdvances
<1>1. IInv /\ [Next]_vars => [ToDo' \in 0..(ToDo - 1)]_vars
  <2> SUFFICES ASSUME IInv, Next
               PROVE  ToDo' \in 0..(ToDo - 1)
    OBVIOUS
  <2>0. /\ TypeOK /\ InnerInv
        /\ len \in Nat /\ pos \in 0..len /\ i \in 0..len
    BY DEF IInv, TypeOK
  <2>1. CASE SkipByte
    BY <2>0, <2>1 DEF SkipByte, Forward, MoreAt, ToDo
  <2>2. CASE UnitBegins
    BY <2>0, <2>2 DEF UnitBegins, MoreAt, ToDo
  <2>3. CASE KeepLooking
    BY <2>0, <2>3 DEF KeepLooking, MoreAt, ToDo
  <2>4. CASE UnitEnds
    BY <2>0, <2>4 DEF UnitEnds, SendUnit, Resume, MoreAt, ToDo
  <2>5. CASE LastUnit
    BY <2>0, <2>5 DEF LastUnit, SendUnit, Resume, MoreAt, ToDo
  <2>6. CASE Return
    BY <2>0, <2>6 DEF Return, MoreAt, ToDo
  <2> QED
    BY <2>1, <2>2, <2>3, <2>4, <2>5, <2>6 DEF Next
<1> QED
  BY Invariance, <1>1, PTL DEF Spec, ScanAdvances
=============================================================================
