------------------------------- MODULE Preemption -------------------------------
(***************************************************************************)
(* Programs on Cpu that are interrupted between any two instructions and   *)
(* resumed by their handler's rte, and the calls they make.  exception     *)
(* leaves interrupts enabled, so that a second one overwrites cr5: unless  *)
(* the handler has saved it, the first rte that follows goes to the wrong  *)
(* place.  Nothing in the source calls interrupt yet; its caller is taken  *)
(* to interrupt handlers within a window only.                             *)
(***************************************************************************)
EXTENDS Cpu, SequencesExt

CONSTANTS MaxInterrupts,
          HandlerRam,            \* the part of Ram that handlers use
          Window                 \* where handlers can be interrupted

ASSUME PreemptionAssumption ==
    MaxInterrupts \in Nat /\ HandlerRam \subseteq Ram /\ Window \subseteq Word

VARIABLES frozen,                \* the states that were interrupted, the last one last
          interrupts,            \* interrupts so far
          calls                  \* where the calls under way return to
pvars == <<vars, frozen, interrupts, calls>>

Snapshot == [r |-> r, flags |-> flags, cr |-> cr, sr |-> sr, ce |-> ce, pc |-> pc, ram |-> ram]

PInit ==
    /\ Init
    /\ frozen = <<>>
    /\ interrupts = 0
    /\ calls = <<>>

ReturnsFromInterrupt(i) == i.op = "branch" /\ i.to[1] = "epc"

(* The instruction i of length n, with what it does to the calls under way. *)
PStep(i, n) ==
    /\ Step(i, n)
    /\ frozen' = IF ReturnsFromInterrupt(i) /\ frozen # <<>> THEN Front(frozen) ELSE frozen
    /\ calls' = CallsAfter(calls, i, n)
    /\ UNCHANGED interrupts

PInterrupt(cause) ==
    /\ frozen = <<>> \/ pc \in Window
    /\ interrupts < MaxInterrupts
    /\ Interrupt(cause)
    /\ frozen' = Append(frozen, Snapshot)
    /\ interrupts' = interrupts + 1
    /\ UNCHANGED calls

PNext ==
    \/ \E f \in Fetched : PStep(f[1], f[2])
    \/ \E c \in Causes : PInterrupt(c)

(* main's loop calls step forever. *)
PSpec == PInit /\ [][PNext]_pvars /\ WF_pvars(\E f \in Fetched : PStep(f[1], f[2]))

--------------------------------------------------------------------------------
(* What the interrupted program can see of the state: while a handler runs  *)
(* nothing has changed, and cr2, cr5 and the handlers' memory are not its.  *)
Seen == IF frozen = <<>> THEN Snapshot ELSE Head(frozen)

SeenRam == [a \in Ram \ HandlerRam |-> Seen.ram[a]]

(* The programs without the handlers' memory. *)
OwnPrograms ==
    [p \in DOMAIN Programs |->
        [code |-> Programs[p].code, entry |-> Programs[p].entry,
         ram |-> [a \in Ram \ HandlerRam |-> Programs[p].ram[a]]]]

Undisturbed ==
    INSTANCE Cpu WITH
        r <- Seen.r, flags <- Seen.flags, sr <- Seen.sr, ce <- Seen.ce, pc <- Seen.pc,
        cr <- [Seen.cr EXCEPT ![2] = 0, ![5] = 0],
        ram <- SeenRam,
        Ram <- Ram \ HandlerRam,
        Programs <- OwnPrograms,
        Causes <- {}

(* A handler that saves the flags through cr1, the registers it uses and,   *)
(* before its window, cr5, is invisible: the interrupted program runs as it *)
(* does on a processor that is never interrupted, wherever interrupts come, *)
(* one within the handler of another included.                              *)
InterruptsAreInvisible == Undisturbed!Init /\ [][Undisturbed!Next]_(Undisturbed!vars)

(* What that takes.  The program does not use what is not its: cr2, cr5, the *)
(* handlers' memory, and an exception it is not in.                         *)
WordAround(a) == {a - (a % 4) + k : k \in 0 .. 3}

ReachedBy(i) ==
    CASE i.op \in {"load", "store"} ->
            {(AccessAddress(i) + k) % Modulus : k \in 0 .. (i.size - 1)}
      [] i.op = "push" -> {(r[i.base] - k) % Modulus : k \in 1 .. 4}
      [] i.op = "pop"  -> {(r[i.base] + k) % Modulus : k \in 0 .. 3}
      [] OTHER         -> {}

ProgramsKeepApart ==
    frozen = <<>> /\ status = "running" =>
        /\ WordAround(pc) \cap HandlerRam = {}
        /\ \A f \in Fetched :
              /\ f[1].op \in {"mfcr", "mtcr"} => f[1].s \notin {2, 5}
              /\ ~ReturnsFromInterrupt(f[1])
              /\ ReachedBy(f[1]) \cap HandlerRam = {}

(* A handler does not end the process, and when it is about to return to    *)
(* the program, everything the program can see is as it was, the flags and  *)
(* CNT included, and cr5 is where it was interrupted, even if a second      *)
(* interrupt has used cr5 in between.                                       *)
HandlersGiveBack ==
    frozen # <<>> =>
        /\ status = "running"
        /\ Len(frozen) = 1 =>
              \A f \in Fetched : ReturnsFromInterrupt(f[1]) =>
                  LET was == frozen[1]
                  IN  /\ f[1].cond = 15 /\ ~f[1].link
                      /\ r = was.r /\ flags = was.flags /\ sr = was.sr /\ ce = was.ce
                      /\ cr[5] = was.pc
                      /\ \A k \in RegNum \ {2, 5} : cr[k] = was.cr[k]
                      /\ \A a \in Ram \ HandlerRam : ram[a] = was.ram[a]

(* A br through r3 goes back behind the latest call that has not returned,  *)
(* whatever the calls were encoded as and wherever their links were kept.   *)
ReturnsMatchCalls ==
    [][Len(calls') < Len(calls) => pc' = calls[Len(calls)]]_pvars

(* Every program comes to its end. *)
ProgramsEnd == <>(status # "running")

(* The S+core7 guide in docs/s_core7.pdf, page 113, says of rte that it     *)
(* restores the condition register to the value saved at the exception.     *)
RteRestoresFlags ==
    [][Len(frozen') < Len(frozen) => flags' = Last(frozen).flags]_pvars

(* The guide says of mul, page 87, that its operands are treated as signed. *)
MulIsSigned ==
    [][\A f \in Fetched :
          f[1].op = "mul" /\ ce' # ce =>
              ce'.H * Modulus + ce'.L
                 = (Signed(r[f[1].a]) * Signed(r[f[1].b])) % (Modulus * Modulus)]_pvars
================================================================================
