------------------------------- MODULE RunControl -------------------------------
(***************************************************************************)
(* What the debugger promises its user: the machine is stopped or runs;    *)
(* stopped, it can be stepped, changed and given breakpoints; running, it  *)
(* stops at the first breakpoint that an instruction leads to, at once.    *)
(* A breakpoint that is there for one stop only is gone with that stop.    *)
(***************************************************************************)
EXTENDS Cpu

CONSTANTS StoreSizes, StoreValues   \* the stores a user can make

VARIABLES stopped,
          points                 \* breakpoint address to: for one stop only
rvars == <<vars, stopped, points>>

Without(f, a) == [x \in DOMAIN f \ {a} |-> f[x]]

(* unordered_map::insert: an entry that is there is left as it is. *)
Inserted(f, a, once) ==
    IF a \in DOMAIN f THEN f
    ELSE [x \in DOMAIN f \cup {a} |-> IF x = a THEN once ELSE f[x]]

RInit == Init /\ stopped = TRUE /\ points = <<>>

Go ==
    /\ stopped
    /\ stopped' = FALSE
    /\ \/ UNCHANGED points
       \/ \E a \in Word : points' = Inserted(points, a, TRUE)
    /\ UNCHANGED vars

Toggle ==
    /\ stopped
    /\ \E a \in Word : points' = IF a \in DOMAIN points THEN Without(points, a)
                                 ELSE Inserted(points, a, FALSE)
    /\ UNCHANGED <<vars, stopped>>

StepOnce ==
    /\ stopped
    /\ \E f \in Fetched : Step(f[1], f[2])
    /\ UNCHANGED <<stopped, points>>

Raise == stopped /\ (\E c \in Causes : Interrupt(c)) /\ UNCHANGED <<stopped, points>>

Poke ==
    /\ stopped
    /\ \E size \in StoreSizes, a \in Word, v \in StoreValues : ram' = Stored(size, a, v)
    /\ UNCHANGED <<name, r, flags, cr, sr, ce, pc, status, stopped, points>>

Quit == status = "running" /\ status' \in {"quit", "aborted"}
        /\ UNCHANGED <<name, r, flags, cr, sr, ce, pc, ram, stopped, points>>

Run ==
    /\ ~stopped
    /\ \E f \in Fetched : Step(f[1], f[2])
    /\ IF status' = "running" /\ pc' \in DOMAIN points
       THEN /\ stopped' = TRUE
            /\ points' = IF points[pc'] THEN Without(points, pc') ELSE points
       ELSE UNCHANGED <<stopped, points>>

RNext == Go \/ Toggle \/ StepOnce \/ Raise \/ Poke \/ Quit \/ Run

RSpec == RInit /\ [][RNext]_rvars /\ WF_rvars(Run)
================================================================================
