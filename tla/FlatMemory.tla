------------------------------- MODULE FlatMemory -------------------------------
(***************************************************************************)
(* What the memory of the console promises its users: every address shows  *)
(* one byte, some addresses are backed by a location that stores change,   *)
(* addresses with the same location always show the same byte, and stores  *)
(* to the transmit word send one character each, in order.                 *)
(***************************************************************************)
EXTENDS Integers, Sequences

CONSTANTS Byte, Zero, Words,
          Segment, SegmentSize,  \* an address is a segment and an offset in it
          Targets,               \* the addresses that are stored to
          Location(_),           \* the location behind an address, or Nowhere
          Nowhere,
          IsTransmit(_)          \* the addresses of the transmit word

VARIABLES view,                  \* the byte at each address
          sent,                  \* the characters sent
          last                   \* the last store
vars == <<view, sent, last>>

Address == Segment \X (0 .. (SegmentSize - 1))

Request == [size : {1, 2, 4}, at : Targets, word : Words]

NoRequest == [size |-> 0]

Init ==
    /\ view \in [Address -> Byte]
    /\ \A x, y \in Address :
          Location(x) = Location(y) /\ Location(x) # Nowhere => view[x] = view[y]
    /\ sent = <<>>
    /\ last = NoRequest

(* The addresses whose bytes request r writes: the second byte of a        *)
(* halfword at byte 3 of a word is lost, and nothing wraps at the end of   *)
(* a segment.                                                              *)
Count(r) == IF r.size = 2 /\ r.at[2] % 4 = 3 THEN 1 ELSE r.size

Covered(r) == {<<r.at[1], r.at[2] + i>> : i \in 0 .. (Count(r) - 1)} \cap Address

Change(r) ==
    view' = [x \in Address |->
                LET hit == {y \in Covered(r) : Location(y) = Location(x)}
                IN  IF Location(x) = Nowhere \/ hit = {}
                    THEN view[x]
                    ELSE r.word[(CHOOSE y \in hit : TRUE)[2] - r.at[2]]]

(* A word store elsewhere in the transmit word is not a transmission. *)
Transmission(r) == IsTransmit(r.at) /\ (r.size = 4 => r.at[2] % 4 = 0)

Store(r) ==
    /\ last' = r
    /\ IF Transmission(r)
       THEN /\ sent' = Append(sent, IF r.at[2] % 4 = 0 THEN r.word[0] ELSE Zero)
            /\ UNCHANGED view
       ELSE Change(r) /\ UNCHANGED sent

Next == \E r \in Request : Store(r)

Spec == Init /\ [][Next]_vars
================================================================================
