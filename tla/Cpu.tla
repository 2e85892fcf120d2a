---------------------------------- MODULE Cpu ----------------------------------
(***************************************************************************)
(* The processor (src/source/hyperscan/cpu.cpp): fetching one slot of the  *)
(* program, executing it, and interrupts between instructions.             *)
(*                                                                         *)
(* The program is a table of 4-byte slots.  A slot holds one 32-bit        *)
(* instruction, two 16-bit instructions in sequence, or two 16-bit ones of *)
(* which the T flag selects one.  Instructions are records of what the     *)
(* cases of exec32 and exec16 do (Isa); Decode has the encodings.          *)
(* Firmware does not change and is kept as a table of slots.  Stores reach *)
(* DataMemory; what a program has stored there can be executed, by what    *)
(* its words decode to.                                                    *)
(***************************************************************************)
EXTENDS DataMemory, Isa, Sequences

CONSTANTS Programs,              \* name to [code, entry, ram]
          Decoding,              \* every word, to the slot it decodes to
          DebugControl,          \* what main puts into cr29, 0x20000000
          FarSpan, NearSpan,     \* a j replaces the address bits below these
          CauseUnit,             \* weight of the cause field in cr2, 2^18
          Causes                 \* arguments interrupt is called with

Operand     == OperandOn(Word)
Target      == TargetOn(Word)
Instruction == InstructionOn(Word)
Slot        == SlotOn(Word)

(* What all ones decodes to, where there is no memory: an unknown 32-bit    *)
(* instruction, whose upper half is sbp! r15, 31.                           *)
Unassigned ==
    [kind |-> "long", insn |-> [op |-> "dump"],
     high |-> [op |-> "store", size |-> 1, d |-> 15, base |-> 2, disp |-> 31, mode |-> "offset"]]

SlotAddress == {a \in Word : a % 4 = 0}

ASSUME CpuAssumption ==
    /\ ByteBits \in Nat \ {0} /\ 4 * ByteBits = WordBits
    /\ Pow2[2 * ByteBits] = Pow2[ByteBits] * Pow2[ByteBits]
    /\ Modulus = Pow2[2 * ByteBits] * Pow2[2 * ByteBits]
    /\ Modulus % 32 = 0                          \* the flags are five bits
    /\ Ram \subseteq Word
    /\ \A a \in Ram : {x \in Word : x - (x % 4) = a - (a % 4)} \subseteq Ram
    /\ \A n \in DOMAIN Programs :
          /\ DOMAIN Programs[n].code \subseteq SlotAddress
          /\ \A a \in DOMAIN Programs[n].code : Programs[n].code[a] \in Slot
          /\ Programs[n].entry \in SlotAddress
          /\ Programs[n].ram \in [Ram -> ByteNumber]
    /\ Decoding \in [Word -> Slot] /\ Decoding[Ones] = Unassigned
    /\ DebugControl \in Word
    /\ FarSpan \in Nat \ {0} /\ NearSpan \in Nat \ {0} /\ CauseUnit \in Nat \ {0}
    /\ Causes \subseteq 0 .. 255

VARIABLES name,                  \* the program that runs
          r, flags, cr, sr, ce, pc,
          status                 \* "running", or how the process ended
state == <<r, flags, cr, sr, ce, pc, ram, status>>
vars  == <<name, r, flags, cr, sr, ce, pc, ram, status>>

Init ==
    /\ name \in DOMAIN Programs
    /\ r  = [k \in RegNum |-> 0]
    /\ cr = [k \in RegNum |-> IF k = 29 THEN DebugControl ELSE 0]
    /\ sr = [k \in RegNum |-> 0]
    /\ flags = NoFlags
    /\ ce = [H |-> 0, L |-> 0]
    /\ pc = Programs[name].entry
    /\ ram = Programs[name].ram
    /\ status = "running"

CNT == sr[0]

--------------------------------------------------------------------------------
(* Registers.  cr1 holds the flags in its low five bits: cr[1] is the rest. *)

Value(o) == IF o[1] = "r" THEN r[o[2]] ELSE o[2]

Num(bool) == IF bool THEN 1 ELSE 0

FlagBits(f) == Num(f.V) + 2 * Num(f.C) + 4 * Num(f.Z) + 8 * Num(f.N) + 16 * Num(f.T)

(* Mutation: Z and N are read from each other's bits. *)
FlagsInSwapped(w) ==
    [V |-> w % 2 = 1, C |-> (w \div 2) % 2 = 1, Z |-> (w \div 8) % 2 = 1,
     N |-> (w \div 4) % 2 = 1, T |-> (w \div 16) % 2 = 1]

FlagsIn(w) == [V |-> w % 2 = 1, C |-> (w \div 2) % 2 = 1, Z |-> (w \div 4) % 2 = 1,
               N |-> (w \div 8) % 2 = 1, T |-> (w \div 16) % 2 = 1]

ControlValue(k) == IF k = 1 THEN cr[1] + FlagBits(flags) ELSE cr[k]

Keep(d, v) == IF d = Discard THEN r ELSE [r EXCEPT ![d] = v]

Advance(n) == pc' = (pc + n) % Modulus

--------------------------------------------------------------------------------
(* One action per kind of instruction; n is its length, by which pc moves. *)

(* nop, nop! and cache *)
Nop(i, n) == i.op = "nop" /\ Advance(n) /\ UNCHANGED <<r, flags, cr, sr, ce, ram, status>>

(* debugDump, for what exec32 and exec16 do not know: the process exits. *)
Dump(i) ==
    /\ i.op = "dump"
    /\ status' = "dumped"
    /\ UNCHANGED <<r, flags, cr, sr, ce, pc, ram>>

(* The shift helpers take the amount as a uint8_t. *)
Outcomes(fn, a, b, cu) ==
    CASE fn = "add"   -> {Add(flags, a, b, cu)}
      [] fn = "addc"  -> {Addc(flags, a, b, cu)}
      [] fn = "sub"   -> {Sub(flags, a, b, cu)}
      [] fn = "subc"  -> {Subc(flags, a, b, cu)}
      [] fn = "and"   -> {BitOp(flags, BitAnd(a, b), cu)}
      [] fn = "or"    -> {BitOp(flags, BitOr(a, b), cu)}
      [] fn = "xor"   -> {BitOp(flags, BitXor(a, b), cu)}
      [] fn = "sll"   -> Sll(flags, a, b % 256, cu)
      [] fn = "srl"   -> Srl(flags, a, b % 256, cu)
      [] fn = "sra"   -> Sra(flags, a, b % 256, cu)
      [] fn = "extsb" -> {BitOp(flags, SignExtend(a, ByteBits), cu)}
      [] fn = "extsh" -> {BitOp(flags, SignExtend(a, 2 * ByteBits), cu)}

AluStep(i, n) ==
    /\ i.op = "alu"
    /\ \E o \in Outcomes(i.fn, Value(i.a), Value(i.b), i.cu) :
          r' = Keep(i.d, o.res) /\ flags' = o.flags
    /\ Advance(n)
    /\ UNCHANGED <<cr, sr, ce, ram, status>>

Compare(i, n) ==
    /\ i.op = "cmp"
    /\ flags' = Cmp(flags, Value(i.a), Value(i.b), i.tcs, i.cu)
    /\ Advance(n)
    /\ UNCHANGED <<r, cr, sr, ce, ram, status>>

(* mul and mulu: the operands are uint32_t, so both multiply unsigned.  A   *)
(* product that int64_t cannot hold is undefined in mul.                    *)
Products(op, p) ==
    IF op = "mul" /\ p >= Modulus * SignBit THEN [H : Word, L : Word]
    ELSE {[H |-> p \div Modulus, L |-> p % Modulus]}

Multiply(i, n) ==
    /\ i.op \in {"mul", "mulu"}
    /\ ce' \in Products(i.op, r[i.a] * r[i.b])
    /\ Advance(n)
    /\ UNCHANGED <<r, flags, cr, sr, ram, status>>

(* div and divu: both unsigned; a zero divisor traps and ends the process. *)
Divide(i, n) ==
    /\ i.op \in {"div", "divu"}
    /\ IF r[i.b] = 0
       THEN status' = "trapped" /\ UNCHANGED <<ce, pc>>
       ELSE /\ ce' = [H |-> r[i.a] % r[i.b], L |-> r[i.a] \div r[i.b]]
            /\ Advance(n)
            /\ UNCHANGED status
    /\ UNCHANGED <<r, flags, cr, sr, ram>>

(* mfce{hl}: with both, rA is written after rD. *)
FromEngine(i, n) ==
    /\ i.op = "mfce"
    /\ r' = CASE i.sel = "lo"   -> [r EXCEPT ![i.d] = ce.L]
              [] i.sel = "hi"   -> [r EXCEPT ![i.d] = ce.H]
              [] i.sel = "both" -> [r EXCEPT ![i.d] = ce.H, ![i.a] = ce.L]
              [] i.sel = "none" -> r
    /\ Advance(n)
    /\ UNCHANGED <<flags, cr, sr, ce, ram, status>>

ToEngine(i, n) ==
    /\ i.op = "mtce"
    /\ ce' = CASE i.sel = "lo"   -> [ce EXCEPT !.L = r[i.d]]
               [] i.sel = "hi"   -> [ce EXCEPT !.H = r[i.d]]
               [] i.sel = "both" -> [H |-> r[i.d], L |-> r[i.a]]
               [] i.sel = "none" -> ce
    /\ Advance(n)
    /\ UNCHANGED <<r, flags, cr, sr, ram, status>>

MoveSpecial(i, n) ==
    /\ \/ i.op = "mfsr" /\ r' = [r EXCEPT ![i.d] = sr[i.s]] /\ UNCHANGED sr
       \/ i.op = "mtsr" /\ sr' = [sr EXCEPT ![i.s] = r[i.d]] /\ UNCHANGED r
    /\ Advance(n)
    /\ UNCHANGED <<flags, cr, ce, ram, status>>

FromControl(i, n) ==
    /\ i.op = "mfcr"
    /\ r' = [r EXCEPT ![i.d] = ControlValue(i.s)]
    /\ Advance(n)
    /\ UNCHANGED <<flags, cr, sr, ce, ram, status>>

ToControl(i, n) ==
    /\ i.op = "mtcr"
    /\ IF i.s = 1
       THEN cr' = [cr EXCEPT ![1] = r[i.d] - (r[i.d] % 32)] /\ flags' = FlagsIn(r[i.d])
       ELSE cr' = [cr EXCEPT ![i.s] = r[i.d]] /\ UNCHANGED flags
    /\ Advance(n)
    /\ UNCHANGED <<r, sr, ce, ram, status>>

(* t{cond} and mv{cond} ask for CNT without counting it down. *)
SetT(i, n) ==
    /\ i.op = "t"
    /\ flags' = [flags EXCEPT !.T = Conditional(i.cond, flags, CNT, 0)]
    /\ Advance(n)
    /\ UNCHANGED <<r, cr, sr, ce, ram, status>>

(* mv{cond}; and, with the condition always, ldi, ldis and mv!, mlfh!,     *)
(* mhfl!, ldiu!.                                                           *)
Move(i, n) ==
    /\ i.op = "mv"
    /\ r' = IF Conditional(i.cond, flags, CNT, 0) THEN [r EXCEPT ![i.d] = Value(i.v)] ELSE r
    /\ Advance(n)
    /\ UNCHANGED <<flags, cr, sr, ce, ram, status>>

(* Mutation: the base register does not wrap. *)
MovedFurther(i, regs) == [regs EXCEPT ![i.base] = @ + i.disp]

(* The registers once the base is incremented before, or after, an access. *)
Moved(i, regs) == [regs EXCEPT ![i.base] = (@ + i.disp) % Modulus]

Before(i) == IF i.mode = "pre" THEN Moved(i, r) ELSE r

AccessAddress(i) == IF i.mode = "offset" THEN (r[i.base] + i.disp) % Modulus
                                         ELSE Before(i)[i.base]

Load(i, n) ==
    /\ i.op = "load"
    /\ LET x      == Read(i.size, AccessAddress(i))
           v      == IF i.signed THEN SignExtend(x, i.size * ByteBits) ELSE x
           loaded == [Before(i) EXCEPT ![i.d] = v]
       IN  r' = IF i.mode = "post" THEN Moved(i, loaded) ELSE loaded
    /\ Advance(n)
    /\ UNCHANGED <<flags, cr, sr, ce, ram, status>>

Store(i, n) ==
    /\ i.op = "store"
    /\ ram' = Stored(i.size, AccessAddress(i), Before(i)[i.d])
    /\ r' = IF i.mode = "post" THEN Moved(i, r) ELSE Before(i)
    /\ Advance(n)
    /\ UNCHANGED <<flags, cr, sr, ce, status>>

(* Mutation: the word goes to where the stack pointer was. *)
PushAtOldTop(i, n) ==
    /\ i.op = "push"
    /\ r' = [r EXCEPT ![i.base] = (@ - 4) % Modulus]
    /\ ram' = Stored(4, r[i.base], r[i.d])
    /\ Advance(n)
    /\ UNCHANGED <<flags, cr, sr, ce, status>>

(* writeU32(rA -= 4, rD): C++ leaves open which argument comes first, which *)
(* matters when both are the same register.                                 *)
Push(i, n) ==
    /\ i.op = "push"
    /\ r' = [r EXCEPT ![i.base] = (@ - 4) % Modulus]
    /\ \E v \in {r[i.d], r'[i.d]} : ram' = Stored(4, r'[i.base], v)
    /\ Advance(n)
    /\ UNCHANGED <<flags, cr, sr, ce, status>>

Pop(i, n) ==
    /\ i.op = "pop"
    /\ r' = [[r EXCEPT ![i.d] = ReadU32(r[i.base])] EXCEPT ![i.base] = (@ + 4) % Modulus]
    /\ Advance(n)
    /\ UNCHANGED <<flags, cr, sr, ce, ram, status>>

(* Mutation: displacements count from behind the first halfword. *)
TargetOfBehind(to) ==
    CASE to[1] = "rel"  -> (pc + 2 + to[2]) % Modulus
      [] to[1] = "near" -> (pc - (pc % NearSpan) + to[2]) % Modulus
      [] to[1] = "far"  -> (pc - (pc % FarSpan) + to[2]) % Modulus
      [] to[1] = "reg"  -> r[to[2]]
      [] to[1] = "epc"  -> cr[5]

TargetOf(to) ==
    CASE to[1] = "rel"  -> (pc + to[2]) % Modulus
      [] to[1] = "near" -> (pc - (pc % NearSpan) + to[2]) % Modulus
      [] to[1] = "far"  -> (pc - (pc % FarSpan) + to[2]) % Modulus
      [] to[1] = "reg"  -> r[to[2]]
      [] to[1] = "epc"  -> cr[5]

(* Mutation: every call links as if it were four bytes long. *)
BranchLinkingFour(i, n) ==
    /\ i.op = "branch"
    /\ sr' = [sr EXCEPT ![0] = CntAfter(i.cond, CNT, 1)]
    /\ IF Conditional(i.cond, flags, CNT, 1)
       THEN /\ pc' = TargetOf(i.to)
            /\ r' = IF i.link THEN [r EXCEPT ![3] = (pc + 4) % Modulus] ELSE r
       ELSE Advance(n) /\ UNCHANGED r
    /\ UNCHANGED <<flags, cr, ce, ram, status>>

(* branch and jump: b, br, j and rte, where the unconditional ones have the *)
(* condition always.  CNT is counted down even when the branch is not taken. *)
Branch(i, n) ==
    /\ i.op = "branch"
    /\ sr' = [sr EXCEPT ![0] = CntAfter(i.cond, CNT, 1)]
    /\ IF Conditional(i.cond, flags, CNT, 1)
       THEN /\ pc' = TargetOf(i.to)
            /\ r' = IF i.link THEN [r EXCEPT ![3] = (pc + n) % Modulus] ELSE r
       ELSE Advance(n) /\ UNCHANGED r
    /\ UNCHANGED <<flags, cr, ce, ram, status>>

Exec(i, n) ==
    \/ Nop(i, n)
    \/ Dump(i)
    \/ AluStep(i, n)
    \/ Compare(i, n)
    \/ Multiply(i, n)
    \/ Divide(i, n)
    \/ FromEngine(i, n)
    \/ ToEngine(i, n)
    \/ MoveSpecial(i, n)
    \/ FromControl(i, n)
    \/ ToControl(i, n)
    \/ SetT(i, n)
    \/ Move(i, n)
    \/ Load(i, n)
    \/ Store(i, n)
    \/ Push(i, n)
    \/ Pop(i, n)
    \/ Branch(i, n)

--------------------------------------------------------------------------------
(* Firmware by its table, the rest of memory by the word that is there now. *)
SlotAt(a) ==
    LET code == Programs[name].code
    IN  IF a \in DOMAIN code THEN code[a] ELSE Decoding[ReadU32(a)]

(* The instruction at pc with the length it is executed with: a pair takes  *)
(* the whole slot whichever half is selected.  An odd pc decodes parts of   *)
(* two halves, as anything.                                                 *)
Fetched ==
    LET s == SlotAt(pc - (pc % 4))
    IN  CASE pc % 4 = 2 -> {<<s.high, 2>>}
          [] pc % 4 = 0 /\ s.kind = "long"  -> {<<s.insn, 4>>}
          [] pc % 4 = 0 /\ s.kind = "pair"  -> {<<IF flags.T THEN s.low ELSE s.high, 4>>}
          [] pc % 4 = 0 /\ s.kind = "short" -> {<<s.low, 2>>}
          [] pc % 2 = 1 -> Instruction \X {2, 4}

(* step *)
Step(i, n) == status = "running" /\ UNCHANGED name /\ Exec(i, n)

(* Mutation: pc is saved after the jump. *)
ExceptionSavingLate(cause) ==
    LET field == (cr[2] \div CauseUnit) % 64
    IN  /\ pc' = (cr[3] + cause * 4) % Modulus
        /\ cr' = [cr EXCEPT ![2] = (@ + ((cause % 64) - field) * CauseUnit) % Modulus,
                            ![5] = pc']
        /\ UNCHANGED <<r, flags, sr, ce, ram, status>>

(* exception: the cause is a uint8_t of which cr2 keeps six bits.           *)
Exception(cause) ==
    LET field == (cr[2] \div CauseUnit) % 64
    IN  /\ cr' = [cr EXCEPT ![2] = (@ + ((cause % 64) - field) * CauseUnit) % Modulus,
                            ![5] = pc]
        /\ pc' = (cr[3] + cause * 4) % Modulus
        /\ UNCHANGED <<r, flags, sr, ce, ram, status>>

(* interrupt, between two instructions; ignored while cr0's low bit is 0.   *)
Interrupt(cause) ==
    /\ status = "running"
    /\ cr[0] % 2 = 1
    /\ UNCHANGED name
    /\ Exception((63 - cause + 128) % 256)

(* The calls under way, a history for properties: a link that is taken    *)
(* opens one, a br through r3 closes the latest.                           *)
Taken(i) == i.op = "branch" /\ Conditional(i.cond, flags, CNT, 1)

CallsAfter(calls, i, n) ==
    IF Taken(i) /\ i.link THEN Append(calls, (pc + n) % Modulus)
    ELSE IF Taken(i) /\ i.to = <<"reg", 3>> /\ calls # <<>>
    THEN SubSeq(calls, 1, Len(calls) - 1)
    ELSE calls

--------------------------------------------------------------------------------
Next ==
    \/ \E f \in Fetched : Step(f[1], f[2])
    \/ \E c \in Causes : Interrupt(c)

Spec == Init /\ [][Next]_vars

--------------------------------------------------------------------------------
(* The type of the state; the flags never spill over into the rest of cr1. *)
CpuTypeOK ==
    /\ name \in DOMAIN Programs
    /\ r \in [RegNum -> Word]
    /\ flags \in Flags
    /\ cr \in [RegNum -> Word] /\ cr[1] % 32 = 0
    /\ sr \in [RegNum -> Word]
    /\ ce \in [H : Word, L : Word]
    /\ pc \in Word
    /\ ram \in [Ram -> ByteNumber]
    /\ status \in {"running", "dumped", "trapped"}

(* Where instructions begin: at every slot, and in the middle of those that *)
(* hold two in sequence.                                                    *)
Boundary ==
    SlotAddress \cup {a \in Word : a % 4 = 2 /\ SlotAt(a - 2).kind = "short"}

(* Execution, the links that calls leave in r3 and the place an interrupted *)
(* program resumes at stay on instruction boundaries: no length is advanced *)
(* or linked that differs from the slot's, so that no 32-bit instruction is *)
(* ever entered in its middle nor the second half of a pair executed.       *)
OnBoundary == {pc, r[3], cr[5]} \subseteq Boundary

(* What is the program's own doing: where its branches go by displacement   *)
(* or another register, what it moves to r3 and cr5 (a link it kept on the  *)
(* stack), the vector it gives for exceptions, and stores to the code that  *)
(* is to be executed next or returned to.                                   *)
Disciplined ==
    /\ {pc', r'[3], cr'[5]} \cap Boundary \subseteq Boundary'
    /\ \A f \in Fetched :
          Step(f[1], f[2]) =>
            IF Taken(f[1]) THEN f[1].to \in {<<"reg", 3>>, <<"epc", 0>>} \/ pc' \in Boundary
            ELSE r'[3] \in Boundary \cup {r[3]} /\ cr'[5] \in Boundary \cup {cr[5]}
    /\ (\E c \in Causes : Interrupt(c)) => pc' \in Boundary
StaysDisciplined == [][Disciplined]_vars
================================================================================
