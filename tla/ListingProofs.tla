------------------------------ MODULE ListingProofs ------------------------------
(* Theorems about Listing, for any memory, number of lines and look-back. *)
EXTENDS Listing, TLAPS

(* One turn around the addresses. *)
LEMMA WrapOnce ==
    ASSUME NEW x \in Int
    PROVE  /\ 0 <= x /\ x < Span => Wrap(x) = x
           /\ Span <= x /\ x < 2 * Span => Wrap(x) = x - Span
           /\ 0 - Span <= x /\ x < 0 => Wrap(x) = x + Span
  BY ListingAssumption DEF Wrap

(* Addresses in terms of slots: the address space is a number of them. *)
LEMMA Slots ==
    ASSUME NEW a \in Address
    PROVE  /\ a \in Int /\ a >= 0 /\ a < Span /\ a % 2 = 0
           /\ a % 4 \in {0, 2}
           /\ SlotOf(a) = a - (a % 4)
           /\ SlotOf(a) \in Address /\ SlotOf(a) % 4 = 0 /\ SlotOf(a) + 2 \in Address
           /\ Span \in Int /\ Span >= 4 /\ Span % 4 = 0
  <1>1. Span \in Int /\ Span >= 4 /\ Span % 4 = 0
    BY ListingAssumption
  <1>2. a \in Int /\ a >= 0 /\ a < Span /\ a % 2 = 0 /\ a % 4 \in {0, 2}
    BY <1>1 DEF Address
  <1> DEFINE b == a - (a % 4)
  <1>3. b \in Int /\ 0 <= b /\ b % 4 = 0 /\ b + 2 < Span
    BY <1>1, <1>2
  <1>4. b \in Address /\ b + 2 \in Address
    BY <1>1, <1>3 DEF Address
  <1> QED
    BY <1>1, <1>2, <1>3, <1>4 DEF SlotOf

(* A step back or forward stays among the addresses and in place modulo 4. *)
LEMMA Steps ==
    ASSUME NEW a \in Address
    PROVE  /\ Wrap(a - 4) \in Address
           /\ Wrap(a - 4) % 4 = a % 4
           /\ Wrap(a - 4) = IF a >= 4 THEN a - 4 ELSE a - 4 + Span
           /\ Wrap(a + 2) \in Address /\ Wrap(a + 4) \in Address
           /\ Wrap(a + 2) = IF a + 2 < Span THEN a + 2 ELSE 0
           /\ Wrap(a + 4) = IF a + 4 < Span THEN a + 4 ELSE a + 4 - Span
  <1>1. /\ a \in Int /\ 0 <= a /\ a < Span /\ a % 2 = 0
        /\ Span \in Int /\ Span >= 4 /\ Span % 4 = 0
    BY Slots
  <1>2. Wrap(a - 4) = IF a >= 4 THEN a - 4 ELSE a - 4 + Span
    <2>1. a - 4 \in Int /\ 0 - Span <= a - 4 /\ a - 4 < Span
      BY <1>1
    <2> QED
      BY <1>1, <2>1, WrapOnce
  <1>3. Wrap(a + 2) = IF a + 2 < Span THEN a + 2 ELSE 0
    <2>1. a + 2 \in Int /\ 0 <= a + 2 /\ a + 2 < 2 * Span /\ a + 2 <= Span
      BY <1>1
    <2> QED
      BY <1>1, <2>1, WrapOnce
  <1>4. Wrap(a + 4) = IF a + 4 < Span THEN a + 4 ELSE a + 4 - Span
    <2>1. a + 4 \in Int /\ 0 <= a + 4 /\ a + 4 < 2 * Span
      BY <1>1
    <2> QED
      BY <1>1, <2>1, WrapOnce
  <1>5. Wrap(a - 4) \in Address /\ Wrap(a - 4) % 4 = a % 4
    BY <1>1, <1>2 DEF Address
  <1>6. Wrap(a + 2) \in Address /\ Wrap(a + 4) \in Address
    BY <1>1, <1>3, <1>4 DEF Address
  <1> QED
    BY <1>2, <1>3, <1>4, <1>5, <1>6

LEMMA LaterIs ==
    ASSUME NEW a \in Address
    PROVE  Later(a) = IF P0(a) THEN Wrap(a + 4) ELSE Wrap(a + 2)
  BY Zenon DEF Later

(* Looking back from where an instruction begins finds where the one before *)
(* it begins, and what is drawn there ends at it.                           *)
LEMMA EarlierThenLater ==
    ASSUME top \in [Address -> BOOLEAN], NEW a \in Boundary
    PROVE  Earlier(a) \in Boundary /\ Later(Earlier(a)) = a
  <1> DEFINE back == Wrap(a - 4)
  <1>0. a \in Address /\ (a % 4 = 0 \/ ~top[a - 2])
    BY DEF Boundary
  <1>1. back \in Address /\ back % 4 = a % 4
        /\ back = IF a >= 4 THEN a - 4 ELSE a - 4 + Span
    BY <1>0, Steps
  <1>2. /\ a \in Int /\ 0 <= a /\ a < Span /\ a % 4 \in {0, 2}
        /\ back \in Int /\ 0 <= back /\ back < Span
        /\ Span \in Int /\ Span >= 4 /\ Span % 4 = 0
    BY <1>0, <1>1, Slots
  <1>3. /\ Wrap(back + 4) = a
        /\ Wrap(back + 2) = IF back + 2 < Span THEN back + 2 ELSE 0
        /\ Wrap(back + 2) \in Address
    <2>1. /\ Wrap(back + 4) = IF back + 4 < Span THEN back + 4 ELSE back + 4 - Span
          /\ Wrap(back + 2) = IF back + 2 < Span THEN back + 2 ELSE 0
          /\ Wrap(back + 2) \in Address
      BY <1>1, Steps
    <2> QED
      BY <1>1, <1>2, <2>1
  <1>4. CASE a % 4 = 0 /\ top[back]
    <2>1. Earlier(a) = back
      BY <1>1, <1>4 DEF Earlier
    <2>2. SlotOf(back) = back
      BY <1>1, <1>2, <1>4 DEF SlotOf
    <2>3. Later(back) = a
      BY <1>1, <1>3, <1>4, <2>2, LaterIs DEF P0
    <2> QED
      BY <1>1, <1>4, <2>1, <2>3 DEF Boundary
  <1>5. CASE a % 4 = 0 /\ ~top[back]
    <2> DEFINE mid == back + 2
    <2>1. mid < Span /\ mid % 4 = 2 /\ mid \in Int /\ mid - 2 = back
      BY <1>1, <1>2, <1>5
    <2>2. Wrap(back + 2) = mid /\ mid \in Address
      BY <1>3, <2>1
    <2>3. Earlier(a) = mid
      BY <1>5, <2>2 DEF Earlier
    <2>4. SlotOf(mid) = back
      BY <2>1 DEF SlotOf
    <2>5. Later(mid) = Wrap(mid + 2)
      BY <1>5, <2>2, <2>4, LaterIs DEF P0
    <2>6. mid + 2 = back + 4
      BY <1>2
    <2>7. Later(mid) = a
      BY <1>3, <2>5, <2>6
    <2> QED
      BY <1>5, <2>1, <2>2, <2>3, <2>7 DEF Boundary
  <1>6. CASE a % 4 = 2
    <2>1. a >= 2 /\ a - 2 \in Int /\ a - 2 < Span /\ (a - 2) % 4 = 0 /\ (a - 2) % 2 = 0
          /\ ~top[a - 2]
      BY <1>0, <1>2, <1>6
    <2>2. a - 2 \in Address
      BY <1>2, <2>1 DEF Address
    <2>3. Wrap(back + 2) = a - 2
      BY <1>1, <1>2, <1>3, <1>6, <2>1
    <2>4. Earlier(a) = a - 2
      BY <1>1, <1>6, <2>3 DEF Earlier
    <2>5. SlotOf(a - 2) = a - 2
      BY <2>1 DEF SlotOf
    <2>6. Later(a - 2) = Wrap(a - 2 + 2)
      BY <2>1, <2>2, <2>5, LaterIs DEF P0
    <2>7. Wrap(a - 2 + 2) = a
      BY <1>2, WrapOnce
    <2> QED
      BY <2>1, <2>2, <2>4, <2>6, <2>7 DEF Boundary
  <1> QED
    BY <1>2, <1>4, <1>5, <1>6

--------------------------------------------------------------------------------
Marks == {"next", "breakpoint", "none"}
Row == [at : Address, long : BOOLEAN, mark : Marks]

(* A trail of addresses where instructions begin, each before the last. *)
Linked(t) ==
    \A k \in 1 .. Len(t) : t[k] \in Boundary /\ (k > 1 => Later(t[k]) = t[k - 1])

(* While it looks back the debugger stands at the end of the trail. *)
BackInv ==
    /\ Len(trail) = LookBacks - lookback + 1
    /\ trail[1] = pc
    /\ pc \in Boundary => Linked(trail)
    /\ lookback > 0 => rows = <<>>
    /\ rows = <<>> => address = trail[Len(trail)]

(* Then it comes back along the trail, row by row. *)
RowsInv ==
    pc \in Boundary /\ lookback = 0 =>
        /\ Len(rows) <= LookBacks => address = trail[LookBacks + 1 - Len(rows)]
        /\ \A k \in 1 .. Len(rows) : k <= LookBacks + 1 => rows[k].at = trail[LookBacks + 2 - k]

LInv == ListingTypeOK /\ BackInv /\ RowsInv

LEMMA TypeInit == Init => ListingTypeOK
  BY ListingAssumption DEF Init, ListingTypeOK

LEMMA EarlierType ==
    ASSUME NEW a \in Address
    PROVE  Earlier(a) \in Address
  <1>1. Wrap(a - 4) \in Address
    BY Steps
  <1>2. Wrap(Wrap(a - 4) + 2) \in Address
    BY <1>1, Steps
  <1> QED
    BY <1>1, <1>2, Zenon DEF Earlier

LEMMA LaterType ==
    ASSUME NEW a \in Address
    PROVE  Later(a) \in Address
  BY Steps, LaterIs

LEMMA MarkType ==
    ASSUME NEW a \in Address
    PROVE  Mark(a) \in Marks
  BY DEF Mark, Marks

LEMMA P0Type ==
    ASSUME top \in [Address -> BOOLEAN], NEW a \in Address
    PROVE  P0(a) \in BOOLEAN
  <1>1. SlotOf(a) \in Address
    BY Slots
  <1> QED
    BY <1>1, Zenon DEF P0

LEMMA TypeStep == ListingTypeOK /\ [Next]_vars => ListingTypeOK'
  <1> SUFFICES ASSUME ListingTypeOK, [Next]_vars PROVE ListingTypeOK'
    OBVIOUS
  <1>0. /\ top \in [Address -> BOOLEAN] /\ pc \in Address /\ address \in Address
        /\ lookback \in 0 .. LookBacks /\ trail \in Seq(Address) /\ rows \in Seq(Row)
        /\ LookBacks \in Nat
    BY ListingAssumption DEF ListingTypeOK, Row, Marks
  <1>1. CASE LookBack
    <2>1. address' \in Address
      BY <1>0, <1>1, EarlierType DEF LookBack
    <2>2. trail' \in Seq(Address)
      BY <1>0, <1>1, <2>1 DEF LookBack
    <2>3. lookback' \in 0 .. LookBacks
      BY <1>0, <1>1 DEF LookBack
    <2> QED
      BY <1>0, <1>1, <2>1, <2>2, <2>3 DEF LookBack, ListingTypeOK, Row, Marks
  <1>2. CASE DrawRow
    <2>1. address' \in Address
      BY <1>0, <1>2, LaterType DEF DrawRow
    <2>2. [at |-> address, long |-> P0(address), mark |-> Mark(address)] \in Row
      <3>1. P0(address) \in BOOLEAN /\ Mark(address) \in Marks
        BY <1>0, P0Type, MarkType
      <3> QED
        BY <1>0, <3>1 DEF Row
    <2>3. rows' \in Seq(Row)
      BY <1>0, <1>2, <2>2 DEF DrawRow
    <2> QED
      BY <1>0, <1>2, <2>1, <2>3 DEF DrawRow, ListingTypeOK, Row, Marks
  <1>3. CASE UNCHANGED vars
    BY <1>3 DEF vars, ListingTypeOK
  <1> QED
    BY <1>1, <1>2, <1>3 DEF Next

(* The listing keeps to its types. *)
THEOREM ListingTypeCorrect == Spec => []ListingTypeOK
  <1> QED
    BY TypeInit, TypeStep, PTL DEF Spec

LEMMA LInvInit == Init => LInv
  <1> SUFFICES ASSUME Init PROVE LInv
    OBVIOUS
  <1>1. ListingTypeOK
    BY TypeInit
  <1>2. LookBacks \in Nat /\ trail = <<pc>> /\ Len(trail) = 1 /\ trail[1] = pc
        /\ rows = <<>> /\ Len(rows) = 0 /\ address = pc /\ lookback = LookBacks
    BY ListingAssumption DEF Init
  <1>3. pc \in Boundary => Linked(trail)
    BY <1>2 DEF Linked
  <1>4. BackInv
    BY <1>2, <1>3 DEF BackInv
  <1>5. RowsInv
    BY <1>2 DEF RowsInv
  <1> QED
    BY <1>1, <1>4, <1>5 DEF LInv

(* What the memory's top bits decide does not change. *)
LEMMA SameMemory ==
    ASSUME top' = top, NEW t
    PROVE  Boundary' = Boundary /\ (Linked(t)' <=> Linked(t'))
  BY DEF Linked, Boundary, Later, P0, SlotOf

LEMMA LookBackStep ==
    ASSUME LInv, LookBack
    PROVE  BackInv' /\ RowsInv'
  <1>0. /\ top \in [Address -> BOOLEAN] /\ lookback \in 0 .. LookBacks /\ LookBacks \in Nat
        /\ trail \in Seq(Address) /\ lookback > 0 /\ lookback' = lookback - 1
        /\ rows = <<>> /\ rows' = <<>> /\ top' = top /\ pc' = pc
        /\ address = trail[Len(trail)] /\ address' = Earlier(address)
        /\ Len(trail) = LookBacks - lookback + 1 /\ trail[1] = pc
        /\ trail' = Append(trail, address')
    BY ListingAssumption DEF LInv, ListingTypeOK, BackInv, LookBack
  <1> DEFINE n == Len(trail)
  <1>1. /\ n \in Nat /\ n >= 1 /\ Len(trail') = n + 1
        /\ trail'[n + 1] = address'
        /\ \A k \in 1 .. n : trail'[k] = trail[k]
    BY <1>0
  <1>2. ASSUME pc \in Boundary
        PROVE  Linked(trail')
    <2>1. Linked(trail) /\ address \in Boundary
      BY <1>0, <1>1, <1>2 DEF LInv, BackInv, Linked
    <2>2. address' \in Boundary /\ Later(address') = address
      BY <1>0, <2>1, EarlierThenLater
    <2>3. ASSUME NEW k \in 1 .. (n + 1)
          PROVE  trail'[k] \in Boundary /\ (k > 1 => Later(trail'[k]) = trail'[k - 1])
      <3>1. CASE k = n + 1
        BY <1>0, <1>1, <2>2, <3>1
      <3>2. CASE k \in 1 .. n
        <4>1. trail'[k] = trail[k] /\ (k > 1 => trail'[k - 1] = trail[k - 1])
          BY <1>1, <3>2
        <4> QED
          BY <2>1, <3>2, <4>1 DEF Linked
      <3> QED
        BY <1>1, <3>1, <3>2
    <2> QED
      BY <1>1, <2>3 DEF Linked
  <1>3. pc' \in Boundary' => Linked(trail)'
    BY <1>0, <1>2, SameMemory
  <1>4. BackInv'
    BY <1>0, <1>1, <1>3 DEF BackInv
  <1>5. RowsInv'
    BY <1>0, <1>1 DEF RowsInv
  <1> QED
    BY <1>4, <1>5

LEMMA DrawRowStep ==
    ASSUME LInv, DrawRow
    PROVE  BackInv' /\ RowsInv'
  <1> DEFINE n == Len(rows)
             row == [at |-> address, long |-> P0(address), mark |-> Mark(address)]
  <1>0. /\ lookback = 0 /\ lookback' = 0 /\ LookBacks \in Nat
        /\ trail \in Seq(Address) /\ trail' = trail /\ rows \in Seq(Row)
        /\ top' = top /\ pc' = pc /\ address' = Later(address)
        /\ Len(trail) = LookBacks + 1 /\ trail[1] = pc
        /\ rows' = Append(rows, row)
    BY ListingAssumption DEF LInv, ListingTypeOK, BackInv, DrawRow, Row, Marks
  <1>1. /\ n \in Nat /\ Len(rows') = n + 1 /\ rows'[n + 1] = row /\ rows' # <<>>
        /\ \A k \in 1 .. n : rows'[k] = rows[k]
    BY <1>0
  <1>2. pc' \in Boundary' => Linked(trail)'
    BY <1>0, SameMemory DEF LInv, BackInv
  <1>3. BackInv'
    BY <1>0, <1>1, <1>2 DEF BackInv
  <1>4. ASSUME pc \in Boundary
        PROVE  /\ n + 1 <= LookBacks => address' = trail[LookBacks - n]
               /\ \A k \in 1 .. (n + 1) : k <= LookBacks + 1 =>
                     rows'[k].at = trail[LookBacks + 2 - k]
    <2>1. /\ n <= LookBacks => address = trail[LookBacks + 1 - n]
          /\ \A k \in 1 .. n : k <= LookBacks + 1 => rows[k].at = trail[LookBacks + 2 - k]
      BY <1>0, <1>4 DEF LInv, RowsInv
    <2>2. ASSUME n + 1 <= LookBacks
          PROVE  address' = trail[LookBacks - n]
      <3> DEFINE k == LookBacks + 1 - n
      <3>1. k \in 1 .. Len(trail) /\ k > 1 /\ k - 1 = LookBacks - n
        BY <1>0, <1>1, <2>2
      <3>2. Later(trail[k]) = trail[k - 1]
        BY <1>4, <3>1 DEF LInv, BackInv, Linked
      <3>3. address = trail[k]
        BY <1>0, <1>1, <2>1, <2>2
      <3> QED
        BY <1>0, <3>1, <3>2, <3>3
    <2>3. ASSUME NEW k \in 1 .. (n + 1), k <= LookBacks + 1
          PROVE  rows'[k].at = trail[LookBacks + 2 - k]
      <3>1. CASE k = n + 1
        <4>1. n <= LookBacks /\ LookBacks + 2 - k = LookBacks + 1 - n
          BY <1>0, <1>1, <2>3, <3>1
        <4> QED
          BY <1>1, <2>1, <3>1, <4>1
      <3>2. CASE k \in 1 .. n
        BY <1>1, <2>1, <2>3, <3>2
      <3> QED
        BY <1>1, <3>1, <3>2
    <2> QED
      BY <2>2, <2>3
  <1>5. RowsInv'
    <2> SUFFICES ASSUME pc \in Boundary
                 PROVE  /\ Len(rows') <= LookBacks => address' = trail[LookBacks + 1 - Len(rows')]
                        /\ \A k \in 1 .. Len(rows') : k <= LookBacks + 1 =>
                              rows'[k].at = trail[LookBacks + 2 - k]
      BY <1>0, SameMemory DEF RowsInv
    <2>1. LookBacks + 1 - (n + 1) = LookBacks - n
      BY <1>0, <1>1
    <2> QED
      BY <1>1, <1>4, <2>1
  <1> QED
    BY <1>3, <1>5

LEMMA LInvStep == LInv /\ [Next]_vars => LInv'
  <1> SUFFICES ASSUME LInv, [Next]_vars PROVE LInv'
    OBVIOUS
  <1>0. ListingTypeOK'
    BY TypeStep DEF LInv
  <1>1. CASE LookBack
    BY <1>0, <1>1, LookBackStep DEF LInv
  <1>2. CASE DrawRow
    BY <1>0, <1>2, DrawRowStep DEF LInv
  <1>3. CASE UNCHANGED vars
    BY <1>0, <1>3 DEF vars, LInv, BackInv, RowsInv, Linked, Boundary, Later, P0, SlotOf
  <1> QED
    BY <1>1, <1>2, <1>3 DEF Next

LEMMA LInvShows == LInv => PcOnItsRow
  <1> SUFFICES ASSUME LInv, pc \in Boundary, Len(rows) > LookBacks
               PROVE  rows[LookBacks + 1].at = pc
    BY DEF PcOnItsRow
  <1>1. LookBacks \in Nat /\ Len(rows) \in Nat /\ lookback \in Nat /\ trail[1] = pc
    BY ListingAssumption DEF LInv, ListingTypeOK, BackInv
  <1>2. lookback = 0
    BY <1>1 DEF LInv, BackInv
  <1>3. LookBacks + 1 \in 1 .. Len(rows) /\ LookBacks + 2 - (LookBacks + 1) = 1
    BY <1>1
  <1>4. \A k \in 1 .. Len(rows) : k <= LookBacks + 1 => rows[k].at = trail[LookBacks + 2 - k]
    BY <1>2 DEF LInv, RowsInv
  <1>5. rows[LookBacks + 1].at = trail[LookBacks + 2 - (LookBacks + 1)]
    BY <1>1, <1>3, <1>4
  <1> QED
    BY <1>1, <1>3, <1>5

(* Whatever the memory holds, pc is shown, always in the same row. *)
THEOREM PcAlwaysShown == Spec => []PcOnItsRow
  <1> QED
    BY LInvInit, LInvStep, LInvShows, PTL DEF Spec

--------------------------------------------------------------------------------
(* What is drawn after an instruction begins where the next one does. *)

LEMMA LaterOnBoundary ==
    ASSUME top \in [Address -> BOOLEAN], NEW a \in Boundary
    PROVE  Later(a) \in Boundary
  <1>0. a \in Address /\ (a % 4 = 0 \/ ~top[a - 2])
    BY DEF Boundary
  <1>1. /\ a \in Int /\ 0 <= a /\ a < Span /\ a % 4 \in {0, 2}
        /\ Span \in Int /\ Span >= 4 /\ Span % 4 = 0 /\ SlotOf(a) = a - (a % 4)
    BY <1>0, Slots
  <1>2. /\ Wrap(a + 2) \in Address /\ Wrap(a + 4) \in Address
        /\ Wrap(a + 2) = IF a + 2 < Span THEN a + 2 ELSE 0
        /\ Wrap(a + 4) = IF a + 4 < Span THEN a + 4 ELSE a + 4 - Span
    BY <1>0, Steps
  <1>3. CASE a % 4 = 0 /\ top[a]
    <2>1. Later(a) = Wrap(a + 4)
      BY <1>0, <1>1, <1>3, LaterIs DEF P0
    <2>2. Wrap(a + 4) % 4 = 0
      BY <1>1, <1>2, <1>3
    <2> QED
      BY <1>2, <2>1, <2>2 DEF Boundary
  <1>4. CASE a % 4 = 0 /\ ~top[a]
    <2>1. Later(a) = Wrap(a + 2)
      BY <1>0, <1>1, <1>4, LaterIs DEF P0
    <2>2. Wrap(a + 2) - 2 = a
      BY <1>1, <1>2, <1>4
    <2> QED
      BY <1>2, <1>4, <2>1, <2>2, Zenon DEF Boundary
  <1>5. CASE a % 4 = 2
    <2>1. Later(a) = Wrap(a + 2)
      BY <1>0, <1>1, <1>5, LaterIs DEF P0
    <2>2. Wrap(a + 2) % 4 = 0
      BY <1>1, <1>2, <1>5
    <2> QED
      BY <1>2, <2>1, <2>2 DEF Boundary
  <1> QED
    BY <1>1, <1>3, <1>4, <1>5

(* Every row shows where an instruction begins, with its length and mark,  *)
(* and the row after pc's is what follows the instruction at pc.           *)
DrawnInv ==
    pc \in Boundary =>
        /\ address \in Boundary
        /\ \A k \in 1 .. Len(rows) :
              /\ rows[k].at \in Boundary
              /\ rows[k].long = P0(rows[k].at)
              /\ rows[k].mark = Mark(rows[k].at)
        /\ Len(rows) = LookBacks + 1 => address = Later(pc)
        /\ Len(rows) >= LookBacks + 2 => rows[LookBacks + 2].at = Later(pc)

DInv == LInv /\ DrawnInv

LEMMA DInvInit == Init => DInv
  BY LInvInit, ListingAssumption DEF Init, DInv, DrawnInv

LEMMA DrawnStep ==
    ASSUME DInv, DrawRow
    PROVE  DrawnInv'
  <1> DEFINE n == Len(rows)
             row == [at |-> address, long |-> P0(address), mark |-> Mark(address)]
  <1>0. /\ lookback = 0 /\ LookBacks \in Nat /\ rows \in Seq(Row)
        /\ top \in [Address -> BOOLEAN]
        /\ top' = top /\ pc' = pc /\ address' = Later(address)
        /\ rows' = Append(rows, row)
    BY ListingAssumption DEF DInv, LInv, ListingTypeOK, DrawRow, Row, Marks
  <1>1. /\ n \in Nat /\ Len(rows') = n + 1 /\ rows'[n + 1] = row
        /\ \A k \in 1 .. n : rows'[k] = rows[k]
    BY <1>0
  <1>2. /\ Boundary' = Boundary
        /\ \A a : P0(a)' = P0(a) /\ Later(a)' = Later(a) /\ Mark(a)' = Mark(a)
    BY <1>0 DEF Boundary, P0, P1, Later, Mark, SlotOf
  <1> SUFFICES ASSUME pc \in Boundary
               PROVE  /\ address' \in Boundary
                      /\ \A k \in 1 .. Len(rows') :
                            /\ rows'[k].at \in Boundary
                            /\ rows'[k].long = P0(rows'[k].at)
                            /\ rows'[k].mark = Mark(rows'[k].at)
                      /\ Len(rows') = LookBacks + 1 => address' = Later(pc)
                      /\ Len(rows') >= LookBacks + 2 => rows'[LookBacks + 2].at = Later(pc)
    BY <1>0, <1>2 DEF DrawnInv, P0, P1, Later, Mark, SlotOf
  <1>3. /\ address \in Boundary
        /\ \A k \in 1 .. n : /\ rows[k].at \in Boundary
                             /\ rows[k].long = P0(rows[k].at)
                             /\ rows[k].mark = Mark(rows[k].at)
        /\ n = LookBacks + 1 => address = Later(pc)
        /\ n >= LookBacks + 2 => rows[LookBacks + 2].at = Later(pc)
    BY DEF DInv, DrawnInv
  <1>4. address' \in Boundary
    BY <1>0, <1>3, LaterOnBoundary
  <1>5. row.at = address /\ row.long = P0(address) /\ row.mark = Mark(address)
    OBVIOUS
  <1>6. ASSUME NEW k \in 1 .. (n + 1)
        PROVE  /\ rows'[k].at \in Boundary
               /\ rows'[k].long = P0(rows'[k].at)
               /\ rows'[k].mark = Mark(rows'[k].at)
    <2> HIDE DEF row
    <2>1. CASE k = n + 1
      BY <1>1, <1>3, <1>5, <2>1
    <2>2. CASE k \in 1 .. n
      BY <1>1, <1>3, <2>2
    <2> QED
      BY <1>1, <2>1, <2>2
  <1>7. ASSUME n + 1 = LookBacks + 1 PROVE address' = Later(pc)
    <2>1. address = trail[LookBacks + 1 - n] /\ trail[1] = pc /\ LookBacks + 1 - n = 1
      BY <1>0, <1>1, <1>7 DEF DInv, LInv, RowsInv, BackInv
    <2> QED
      BY <1>0, <2>1
  <1>8. ASSUME n + 1 >= LookBacks + 2 PROVE rows'[LookBacks + 2].at = Later(pc)
    <2>1. CASE n = LookBacks + 1
      BY <1>0, <1>1, <1>3, <1>5, <2>1
    <2>2. CASE n >= LookBacks + 2
      <3>1. LookBacks + 2 \in 1 .. n
        BY <1>0, <1>1, <2>2
      <3> QED
        BY <1>1, <1>3, <2>2, <3>1
    <2> QED
      BY <1>0, <1>1, <1>8, <2>1, <2>2
  <1> QED
    BY <1>1, <1>4, <1>6, <1>7, <1>8

LEMMA DInvStep == DInv /\ [Next]_vars => DInv'
  <1> SUFFICES ASSUME DInv, [Next]_vars PROVE DInv'
    OBVIOUS
  <1>0. LInv'
    BY LInvStep DEF DInv
  <1>1. CASE LookBack
    <2>1. /\ top' = top /\ pc' = pc /\ address' = Earlier(address) /\ rows' = rows /\ rows = <<>>
          /\ LookBacks \in Nat /\ top \in [Address -> BOOLEAN]
      BY <1>1, ListingAssumption DEF DInv, LInv, ListingTypeOK, BackInv, LookBack
    <2>2. Boundary' = Boundary
      BY <2>1 DEF Boundary
    <2>3. pc \in Boundary => address' \in Boundary
      BY <2>1, EarlierThenLater DEF DInv, DrawnInv
    <2>4. Len(rows') = 0
      BY <2>1
    <2> QED
      BY <1>0, <2>1, <2>2, <2>3, <2>4 DEF DInv, DrawnInv
  <1>2. CASE DrawRow
    BY <1>0, <1>2, DrawnStep DEF DInv
  <1>3. CASE UNCHANGED vars
    BY <1>0, <1>3 DEF vars, DInv, DrawnInv, Boundary, Later, P0, P1, Mark, SlotOf
  <1> QED
    BY <1>1, <1>2, <1>3 DEF Next

--------------------------------------------------------------------------------
(* What is marked. *)

LEMMA MarkIsNext ==
    ASSUME NEW a
    PROVE  Mark(a) = "next" <=> a = pc \/ (SlotOf(a) = pc /\ P1(a))
  BY DEF Mark

(* The addresses of one slot share their top bits. *)
LEMMA SameSlot ==
    ASSUME NEW a \in Address, NEW b \in Address, SlotOf(a) = SlotOf(b)
    PROVE  /\ P0(a) = P0(b) /\ P1(a) = P1(b)
           /\ a = SlotOf(a) \/ a = SlotOf(a) + 2
  <1>1. a = SlotOf(a) \/ a = SlotOf(a) + 2
    BY Slots
  <1> QED
    BY <1>1, Zenon DEF P0, P1

LEMMA DInvMarks == DInv => MarkedIsExecuted
  <1> SUFFICES ASSUME DInv, pc \in Boundary, Len(rows) >= LookBacks + 2
               PROVE  Marked = Executed
    BY DEF MarkedIsExecuted
  <1>0. /\ LookBacks \in Nat /\ rows \in Seq(Row) /\ Len(rows) \in Nat
        /\ top \in [Address -> BOOLEAN] /\ pc \in Address
    BY ListingAssumption DEF DInv, LInv, ListingTypeOK, Row, Marks
  <1> DEFINE first == LookBacks + 1
             second == LookBacks + 2
  <1>1. \A k \in DOMAIN rows : /\ rows[k].at \in Boundary
                               /\ rows[k].long = P0(rows[k].at)
                               /\ rows[k].mark = Mark(rows[k].at)
    BY <1>0 DEF DInv, DrawnInv
  <1>2. first \in DOMAIN rows /\ second \in DOMAIN rows
    BY <1>0
  <1>3. rows[first].at = pc
    BY <1>0, LInvShows DEF DInv, PcOnItsRow
  <1>4. rows[second].at = Later(pc)
    BY DEF DInv, DrawnInv
  <1>5. /\ pc \in Int /\ 0 <= pc /\ pc < Span /\ pc % 4 \in {0, 2} /\ Span % 4 = 0
        /\ Span \in Int /\ SlotOf(pc) = pc - (pc % 4) /\ SlotOf(pc) % 4 = 0
    BY <1>0, Slots
  <1> DEFINE isNext(a) == a = pc \/ (SlotOf(a) = pc /\ P1(a))
  <1>6. \A x : x \in Marked <=>
            \E k \in DOMAIN rows : isNext(rows[k].at) /\ x = <<rows[k].at, P0(rows[k].at)>>
    <2>1. \A k \in DOMAIN rows : rows[k].mark = "next" <=> isNext(rows[k].at)
      BY <1>1, MarkIsNext
    <2> HIDE DEF isNext
    <2> QED
      BY <1>1, <2>1, Zenon DEF Marked
  <1>7. <<pc, P0(pc)>> \in Marked
    BY <1>2, <1>3, <1>6
  <1>8. ASSUME isNext(Later(pc))
        PROVE  <<Later(pc), P0(Later(pc))>> \in Marked
    BY <1>2, <1>4, <1>6, <1>8
  <1>9. ASSUME NEW x \in Marked
        PROVE  \E a \in Boundary : isNext(a) /\ x = <<a, P0(a)>>
    BY <1>1, <1>6
  <1> HIDE DEF first, second
  <1>10. CASE pc % 4 = 2
    <2>1. ~top[pc - 2] /\ SlotOf(pc) = pc - 2
      BY <1>5, <1>10 DEF Boundary
    <2>2. P0(pc) = FALSE
      <3>1. pc - 2 \in Address
        BY <1>0, <2>1, Slots
      <3> QED
        BY <1>0, <2>1, <3>1 DEF P0
    <2>3. \A a \in Boundary : isNext(a) => a = pc
      BY <1>10, Slots DEF Boundary
    <2>4. Executed = {<<pc, FALSE>>}
      BY <1>10 DEF Executed
    <2> QED
      BY <1>7, <1>9, <2>2, <2>3, <2>4
  <1>11. CASE pc % 4 = 0
    <2>0. pc % 4 # 2
      BY <1>11
    <2>1. SlotOf(pc) = pc /\ P0(pc) = top[pc]
      BY <1>5, <1>11 DEF P0
    <2>2. \A a \in Boundary : isNext(a) => SlotOf(a) = SlotOf(pc) /\ (a = pc \/ a = pc + 2)
                                           /\ P0(a) = P0(pc) /\ P1(a) = P1(pc)
      BY <1>0, <2>1, SameSlot DEF Boundary
    <2>3. CASE P0(pc)
      <3>1. \A a \in Boundary : isNext(a) => a = pc
        <4>1. (pc + 2) - 2 = pc /\ (pc + 2) % 4 # 0
          BY <1>5, <1>11
        <4>2. pc + 2 \notin Boundary
          BY <2>1, <2>3, <4>1, Zenon DEF Boundary
        <4> QED
          BY <2>2, <4>2
      <3>2. P0(pc) = TRUE /\ Executed = {<<pc, TRUE>>}
        <4>1. P0(pc) = TRUE
          BY <1>0, <2>1, <2>3
        <4> QED
          BY <2>0, <4>1, Zenon DEF Executed
      <3> QED
        BY <1>7, <1>9, <3>1, <3>2
    <2>4. CASE ~P0(pc)
      <3>1. P0(pc) = FALSE
        BY <1>0, <2>1, <2>4
      <3>2. Later(pc) = pc + 2
        <4>1. Later(pc) = Wrap(pc + 2)
          BY <1>0, <2>4, LaterIs
        <4>2. pc + 2 < Span
          BY <1>5, <1>11
        <4> QED
          BY <1>0, <4>1, <4>2, Steps
      <3>3. SlotOf(pc + 2) = pc
        BY <1>5, <1>11 DEF SlotOf
      <3>4. CASE P1(pc)
        <4>1. P0(pc + 2) = FALSE /\ P1(pc + 2)
          BY <2>1, <3>1, <3>3, <3>4 DEF P0, P1
        <4>2. <<pc + 2, FALSE>> \in Marked
          BY <1>8, <3>2, <3>3, <4>1
        <4>3. Executed = {<<pc, FALSE>>, <<pc + 2, FALSE>>}
          BY <2>0, <2>4, <3>4, Zenon DEF Executed
        <4>4. \A x \in Marked : x = <<pc, FALSE>> \/ x = <<pc + 2, FALSE>>
          BY <1>9, <2>2, <3>1
        <4>5. <<pc, FALSE>> \in Marked
          BY <1>7, <3>1
        <4> QED
          BY <4>2, <4>3, <4>4, <4>5, Zenon
      <3>5. CASE ~P1(pc)
        <4>1. \A a \in Boundary : isNext(a) => a = pc
          BY <2>2, <3>5
        <4>2. Executed = {<<pc, FALSE>>}
          BY <2>0, <2>4, <3>5, Zenon DEF Executed
        <4> QED
          BY <1>7, <1>9, <3>1, <4>1, <4>2
      <3> QED
        BY <3>4, <3>5
    <2> QED
      BY <2>3, <2>4
  <1> QED
    BY <1>5, <1>10, <1>11

(* Whatever the memory holds and however many lines are drawn, the rows    *)
(* marked as next are what step may execute, with their lengths.           *)
THEOREM MarksAreExecuted == Spec => []MarkedIsExecuted
  <1> QED
    BY DInvInit, DInvStep, DInvMarks, PTL DEF Spec
================================================================================
