--------------------------------- MODULE Listing --------------------------------
(***************************************************************************)
(* The code on the debugger's screen (src/source/hyperscan/debugger.cpp,   *)
(* draw_code): from pc it looks back over a number of instructions, then   *)
(* shows one after another.  All that decides their lengths is the top bit *)
(* of each halfword; memory is no more than that here.  The processor does *)
(* not run meanwhile.  Addresses are even.                                 *)
(***************************************************************************)
EXTENDS Integers, Sequences

CONSTANTS Span,                  \* addresses wrap at this one, 2^32
          Memories,              \* halfword to its top bit
          LookBacks, Lines,
          Breakpoints

Address == {a \in 0 .. (Span - 1) : a % 2 = 0}

ASSUME ListingAssumption ==
    /\ Span \in Nat \ {0} /\ Span % 4 = 0
    /\ Memories \subseteq [Address -> BOOLEAN]
    /\ LookBacks \in Nat /\ Lines \in Nat
    /\ Breakpoints \subseteq Address

(* Addresses wrap. *)
Wrap(x) == x % Span

VARIABLES top, pc,
          address, lookback,
          rows,                  \* what is drawn
          trail                  \* history: the addresses looked back over
vars == <<top, pc, address, lookback, rows, trail>>

Init ==
    /\ top \in Memories
    /\ pc \in Address
    /\ address = pc
    /\ lookback = LookBacks
    /\ rows = <<>>
    /\ trail = <<pc>>

(* Mutation: a halfword in the upper half of a slot can start a long one. *)
EarlierByTop(a) ==
    LET back == Wrap(a - 4) IN IF ~top[back] THEN Wrap(back + 2) ELSE back

(* Four bytes back, or two if the halfword there starts no long instruction. *)
Earlier(a) ==
    LET back == Wrap(a - 4)
    IN  IF ~top[back] \/ back % 4 = 2 THEN Wrap(back + 2) ELSE back

LookBack ==
    /\ lookback > 0
    /\ address' = Earlier(address)
    /\ lookback' = lookback - 1
    /\ trail' = Append(trail, address')
    /\ UNCHANGED <<top, pc, rows>>

SlotOf(a) == a - (a % 4)
P0(a) == top[SlotOf(a)]
P1(a) == top[SlotOf(a) + 2]

(* Mutation: addresses do not wrap. *)
LaterUnwrapped(a) == a + (IF P0(a) THEN 4 ELSE 2)

Later(a) == Wrap(a + (IF P0(a) THEN 4 ELSE 2))

(* Mutation: only the row at pc is marked. *)
MarkAtPc(a) ==
    IF a = pc THEN "next" ELSE IF a \in Breakpoints THEN "breakpoint" ELSE "none"

(* Of a slot whose p1 is set, both halves may be next. *)
Mark(a) ==
    IF a = pc \/ (SlotOf(a) = pc /\ P1(a)) THEN "next"
    ELSE IF a \in Breakpoints THEN "breakpoint"
    ELSE "none"

(* A row: by disasm32 for the whole slot, or by disasm16 for the half.     *)
DrawRow ==
    /\ lookback = 0 /\ Len(rows) < Lines
    /\ rows' = Append(rows, [at |-> address, long |-> P0(address), mark |-> Mark(address)])
    /\ address' = Later(address)
    /\ UNCHANGED <<top, pc, lookback, trail>>

Next == LookBack \/ DrawRow

Spec == Init /\ [][Next]_vars

--------------------------------------------------------------------------------
(* The types of the listing. *)
ListingTypeOK ==
    /\ top \in [Address -> BOOLEAN]
    /\ pc \in Address /\ address \in Address
    /\ lookback \in 0 .. LookBacks
    /\ rows \in Seq([at : Address, long : BOOLEAN, mark : {"next", "breakpoint", "none"}])
    /\ trail \in Seq(Address)

(* Where instructions begin: slots, and the middles of those that are not a *)
(* long instruction.                                                        *)
Boundary == {a \in Address : a % 4 = 0 \/ ~top[a - 2]}

(* However instructions of the two lengths are mixed, the listing that is   *)
(* guessed backwards from their top bits comes to pc again, in the row the  *)
(* screen has for it: pc is always shown, and always in the same place.     *)
PcOnItsRow ==
    pc \in Boundary /\ Len(rows) > LookBacks => rows[LookBacks + 1].at = pc

(* What step would execute at pc, one of two when the slot is a pair.       *)
Executed ==
    IF pc % 4 = 2 THEN {<<pc, FALSE>>}
    ELSE IF P0(pc) THEN {<<pc, TRUE>>}
    ELSE IF P1(pc) THEN {<<pc, FALSE>>, <<pc + 2, FALSE>>}
    ELSE {<<pc, FALSE>>}

Marked == {<<rows[k].at, rows[k].long>> : k \in {k \in DOMAIN rows : rows[k].mark = "next"}}

(* The marked rows show what step may execute next, with its length, and    *)
(* nothing else: both halves of a pair, but not the upper half of the slot  *)
(* when pc is in its middle or when it belongs to a long instruction.       *)
MarkedIsExecuted ==
    pc \in Boundary /\ Len(rows) >= LookBacks + 2 => Marked = Executed
================================================================================
