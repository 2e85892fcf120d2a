----------------------------- MODULE EmulatorProofs -----------------------------
(***************************************************************************)
(* Theorems about Emulator: its types, and that each of its steps is a     *)
(* step of RunControl or none.                                             *)
(***************************************************************************)
EXTENDS Emulator, CpuProofs

(* The debugger's state, with that of the processor while it runs.          *)
EInv ==
    /\ status \in {"running", "dumped", "trapped", "quit", "aborted"}
    /\ status = "running" => CpuTypeOK
    /\ ETypeOK

LEMMA RegisterType ==
    ASSUME CpuTypeOK, NEW k \in 0 .. 95
    PROVE  Register(k) \in Word
  <1>1. /\ r \in [RegNum -> Word] /\ sr \in [RegNum -> Word]
        /\ \A n \in RegNum : ControlValue(n) \in Word
    BY ControlValueType DEF CpuTypeOK
  <1>2. CASE k \in 0 .. 31
    BY <1>1, <1>2 DEF Register, RegNum
  <1>3. CASE k \in 32 .. 63
    <2>1. k - 32 \in RegNum /\ k \notin 0 .. 31
      BY <1>3 DEF RegNum
    <2>2. ControlValue(k - 32) \in Word
      BY <1>1, <2>1
    <2> QED
      BY <1>3, <2>1, <2>2 DEF Register
  <1>4. CASE k \in 64 .. 95
    <2>1. k - 64 \in RegNum /\ k \notin 0 .. 31 /\ k \notin 32 .. 63
      BY <1>4 DEF RegNum
    <2>2. sr[k - 64] \in Word
      BY <1>1, <2>1
    <2> QED
      BY <1>4, <2>1, <2>2 DEF Register
  <1> QED
    BY <1>2, <1>3, <1>4

LEMMA ParseType ==
    ASSUME CpuTypeOK, NEW arg \in Arguments
    PROVE  ParseAddress(arg) \in Word
  <1>1. \/ arg \in {"hex"} \X Word
        \/ arg \in {"reg"} \X (0 .. 95)
        \/ arg = <<"word", 0>>
    BY EmulatorAssumption
  <1>2. CASE arg \in {"hex"} \X Word
    BY <1>2 DEF ParseAddress
  <1>3. CASE arg \in {"reg"} \X (0 .. 95)
    <2>1. arg[1] = "reg" /\ arg[2] \in 0 .. 95
      BY <1>3
    <2> QED
      BY <2>1, RegisterType DEF ParseAddress
  <1>4. CASE arg = <<"word", 0>>
    <2>1. arg[1] # "reg" /\ arg[1] # "hex" /\ pc \in Word
      BY <1>4 DEF CpuTypeOK
    <2> QED
      BY <2>1 DEF ParseAddress
  <1> QED
    BY <1>1, <1>2, <1>3, <1>4

(* A table of breakpoints, and that adding and removing leaves one. *)
Table(f) == DOMAIN f \subseteq Word /\ \A a \in DOMAIN f : f[a] \in BOOLEAN

LEMMA TableType ==
    ASSUME NEW f, Table(f), NEW a \in Word, NEW once \in BOOLEAN
    PROVE  Table(Without(f, a)) /\ Table(BreakpointAdd(f, a, once)) /\ Table(BreakpointToggle(f, a))
  <1>1. Table(Without(f, a))
    BY DEF Table, Without
  <1>2. \A o \in BOOLEAN : Table(BreakpointAdd(f, a, o))
    BY DEF Table, BreakpointAdd
  <1> QED
    BY <1>1, <1>2 DEF BreakpointToggle

LEMMA EInitInv == EInit => EInv
  <1> SUFFICES ASSUME EInit PROVE EInv
    OBVIOUS
  <1>1. CpuTypeOK /\ status = "running"
    BY InitType DEF EInit, Init
  <1>2. /\ debugger = TRUE /\ breakpoints = <<>> /\ memory_view_address \in Word
        /\ phase = "loop" /\ cycles = 0 /\ commands = 0 /\ MaxCommands \in Nat
    BY EmulatorAssumption DEF EInit
  <1>3. DOMAIN breakpoints = {}
    BY <1>2
  <1>4. ETypeOK
    BY <1>2, <1>3 DEF ETypeOK
  <1> QED
    BY <1>1, <1>4 DEF EInv

(* One instruction keeps the processor's types. *)
LEMMA CpuStepType ==
    ASSUME EInv, CpuStep
    PROVE  CpuTypeOK' /\ status' \in {"running", "dumped", "trapped"} /\ status = "running"
  <1>1. PICK f \in Fetched : Step(f[1], f[2])
    BY DEF CpuStep
  <1>2. status = "running"
    BY <1>1 DEF Step
  <1>3. CpuTypeOK
    BY <1>2 DEF EInv
  <1>4. CpuTypeOK'
    BY <1>1, <1>3, StepType
  <1> QED
    BY <1>2, <1>4 DEF CpuTypeOK

(* What ETypeOK says, with a table. *)
LEMMA ETypeIs ==
    ETypeOK <=>
    /\ debugger \in BOOLEAN
    /\ Table(breakpoints)
    /\ memory_view_address \in Word
    /\ phase \in {"loop", "prompt", "cycles", "step"}
    /\ phase \in {"prompt", "cycles"} => debugger
    /\ phase = "step" => ~debugger
    /\ cycles \in Nat /\ (phase = "cycles" <=> cycles > 0)
    /\ commands \in 0 .. MaxCommands
  BY DEF ETypeOK, Table

(* A command counts, and is given at the prompt of a running process. *)
LEMMA CommandType ==
    ASSUME EInv, Command
    PROVE  /\ CpuTypeOK /\ status = "running" /\ debugger = TRUE /\ phase = "prompt"
           /\ commands' \in 0 .. MaxCommands
           /\ cycles = 0 /\ Table(breakpoints) /\ memory_view_address \in Word
  <1>1. /\ CpuTypeOK /\ status = "running" /\ debugger \in BOOLEAN /\ phase = "prompt" /\ debugger
        /\ cycles \in Nat /\ ~(cycles > 0)
        /\ Table(breakpoints) /\ memory_view_address \in Word
        /\ commands \in 0 .. MaxCommands
    BY ETypeIs DEF EInv, Command
  <1>2. commands' \in 0 .. MaxCommands
    BY <1>1, EmulatorAssumption DEF Command
  <1> QED
    BY <1>1, <1>2

LEMMA PromptType ==
    ASSUME EInv, Prompt
    PROVE  EInv'
  <1>0. Command
    BY Zenon DEF Prompt, StepCommand, ContinueCommand, CyclesCommand, BreakCommand, RunToCommand,
              StepOverCommand, ViewCommand, OtherCommand, FailingCommand, InterruptCommand,
              StoreCommand, QuitCommand
  <1>1. /\ CpuTypeOK /\ status = "running" /\ debugger = TRUE /\ phase = "prompt"
        /\ commands' \in 0 .. MaxCommands
        /\ cycles = 0 /\ Table(breakpoints) /\ memory_view_address \in Word
    BY <1>0, CommandType
  <1>2. /\ \A a \in Arguments : ParseAddress(a) \in Word
        /\ pc \in Word
    BY <1>1, ParseType DEF CpuTypeOK
  <1>3. vars' = vars => CpuTypeOK' /\ status' = "running"
    BY <1>1 DEF vars, CpuTypeOK
  <1>4. CASE StepCommand
    <2>1. CpuTypeOK' /\ status' \in {"running", "dumped", "trapped"}
      BY <1>4, CpuStepType DEF StepCommand
    <2>2. UNCHANGED <<debugger, breakpoints, memory_view_address, phase, cycles>>
      BY <1>4 DEF StepCommand
    <2>3. ETypeOK'
      BY <1>1, <2>2 DEF ETypeOK, Table
    <2> QED
      BY <2>1, <2>3 DEF EInv
  <1>5. CASE ContinueCommand
    <2>1. /\ UNCHANGED <<vars, breakpoints, memory_view_address, cycles>>
          /\ ~debugger' /\ debugger' \in BOOLEAN /\ phase' = "step"
      BY <1>5 DEF ContinueCommand
    <2>2. ETypeOK'
      BY <1>1, <2>1 DEF ETypeOK, Table
    <2> QED
      BY <1>3, <2>1, <2>2 DEF EInv
  <1>6. CASE \E n \in CycleCounts : CyclesCommand(n)
    <2>1. PICK n \in CycleCounts : CyclesCommand(n)
      BY <1>6
    <2>2. n \in Nat
      BY EmulatorAssumption
    <2>3. ETypeOK'
      BY <1>1, <2>1, <2>2 DEF CyclesCommand, ETypeOK, Table
    <2> QED
      BY <1>3, <2>1, <2>3 DEF CyclesCommand, EInv
  <1>7. CASE \E arg \in Arguments : BreakCommand(ParseAddress(arg))
    <2>1. PICK a \in Word : BreakCommand(a)
      BY <1>2, <1>7
    <2>2. Table(breakpoints')
      BY <1>1, <2>1, TableType DEF BreakCommand
    <2>3. UNCHANGED <<vars, debugger, memory_view_address, phase, cycles>>
      BY <2>1 DEF BreakCommand
    <2>4. ETypeOK'
      BY <1>1, <2>2, <2>3 DEF ETypeOK, Table
    <2> QED
      BY <1>3, <2>3, <2>4 DEF EInv
  <1>8. CASE \E arg \in Arguments : RunToCommand(ParseAddress(arg))
    <2>1. PICK a \in Word : RunToCommand(a)
      BY <1>2, <1>8
    <2>2. Table(breakpoints')
      BY <1>1, <2>1, TableType DEF RunToCommand
    <2>3. /\ UNCHANGED <<vars, memory_view_address, cycles>>
          /\ ~debugger' /\ debugger' \in BOOLEAN /\ phase' = "step"
      BY <2>1 DEF RunToCommand
    <2>4. ETypeOK'
      BY <1>1, <2>2, <2>3 DEF ETypeOK, Table
    <2> QED
      BY <1>3, <2>3, <2>4 DEF EInv
  <1>9. CASE StepOverCommand
    <2>1. StepOverLengths \subseteq {2, 4}
      BY DEF StepOverLengths
    <2>2. PICK n \in {2, 4} : breakpoints' = BreakpointAdd(breakpoints, (pc + n) % Modulus, TRUE)
      BY <1>9, <2>1 DEF StepOverCommand
    <2>3. (pc + n) % Modulus \in Word
      BY <1>2, <2>2, WordInt, Wraps
    <2>4. Table(breakpoints')
      BY <1>1, <2>2, <2>3, TableType
    <2>5. /\ UNCHANGED <<vars, memory_view_address, cycles>>
          /\ ~debugger' /\ debugger' \in BOOLEAN /\ phase' = "step"
      BY <1>9 DEF StepOverCommand
    <2>6. ETypeOK'
      BY <1>1, <2>4, <2>5 DEF ETypeOK, Table
    <2> QED
      BY <1>3, <2>5, <2>6 DEF EInv
  <1>10. CASE \E arg \in Arguments : ViewCommand(ParseAddress(arg))
    <2>1. PICK a \in Word : ViewCommand(a)
      BY <1>2, <1>10
    <2>2. ETypeOK'
      BY <1>1, <2>1 DEF ViewCommand, ETypeOK, Table
    <2> QED
      BY <1>3, <2>1, <2>2 DEF ViewCommand, EInv
  <1>11. CASE OtherCommand
    <2>1. ETypeOK'
      BY <1>1, <1>11 DEF OtherCommand, ETypeOK, Table
    <2> QED
      BY <1>3, <1>11, <2>1 DEF OtherCommand, EInv
  <1>12. CASE FailingCommand \/ QuitCommand
    <2>1. UNCHANGED <<debugger, breakpoints, memory_view_address, phase, cycles>>
          /\ status' \in {"aborted", "quit"}
      BY <1>12, Zenon DEF FailingCommand, QuitCommand
    <2>2. ETypeOK'
      BY <1>1, <2>1 DEF ETypeOK, Table
    <2> QED
      BY <2>1, <2>2 DEF EInv
  <1>13. CASE \E c \in Causes : InterruptCommand(c)
    <2>1. PICK c \in Causes : InterruptCommand(c)
      BY <1>13
    <2>2. UNCHANGED <<debugger, breakpoints, memory_view_address, phase, cycles>>
      BY <2>1 DEF InterruptCommand
    <2>3. ETypeOK'
      BY <1>1, <2>2 DEF ETypeOK, Table
    <2>4. CpuTypeOK' /\ status' = "running"
      <3>1. CASE Interrupt(c)
        <4>1. CpuTypeOK'
          BY <1>1, <3>1, InterruptType
        <4> QED
          BY <3>1, <4>1 DEF Interrupt, Exception
      <3>2. CASE UNCHANGED vars
        BY <1>3, <3>2
      <3> QED
        BY <2>1, <3>1, <3>2 DEF InterruptCommand
    <2> QED
      BY <2>3, <2>4 DEF EInv
  <1>14. CASE \E size \in StoreSizes, arg \in Arguments, v \in StoreValues :
                StoreCommand(size, ParseAddress(arg), v)
    <2>1. PICK size \in StoreSizes, a \in Word, v \in StoreValues : StoreCommand(size, a, v)
      BY <1>2, <1>14
    <2>2. size \in {1, 2, 4} /\ v \in Word
      BY EmulatorAssumption
    <2>3. Stored(size, a, v) \in [Ram -> ByteNumber]
      BY <1>1, <2>2, StoredType DEF CpuTypeOK
    <2>4. CpuTypeOK' /\ status' = "running"
      BY <1>1, <2>1, <2>3 DEF StoreCommand, CpuTypeOK
    <2>5. UNCHANGED <<debugger, breakpoints, memory_view_address, phase, cycles>>
      BY <2>1 DEF StoreCommand
    <2>6. ETypeOK'
      BY <1>1, <2>5 DEF ETypeOK, Table
    <2> QED
      BY <2>4, <2>6 DEF EInv
  <1> QED
    BY <1>4, <1>5, <1>6, <1>7, <1>8, <1>9, <1>10, <1>11, <1>12, <1>13, <1>14, Zenon DEF Prompt

LEMMA EStepType ==
    ASSUME EInv, [ENext]_evars
    PROVE  EInv'
  <1>0. /\ debugger \in BOOLEAN /\ Table(breakpoints) /\ memory_view_address \in Word
        /\ cycles \in Nat /\ (phase = "cycles" <=> cycles > 0)
        /\ commands \in 0 .. MaxCommands
    BY ETypeIs DEF EInv
  <1>1. CASE EnterLoop
    <2>1. CpuTypeOK /\ UNCHANGED <<vars, memory_view_address, cycles, commands>> /\ phase = "loop"
      BY <1>1 DEF EnterLoop, EInv
    <2>2. CpuTypeOK' /\ status' = "running"
      BY <1>1, <2>1 DEF EnterLoop, vars, CpuTypeOK
    <2>3. pc \in Word
      BY <2>1 DEF CpuTypeOK
    <2>4. Table(breakpoints')
      BY <1>0, <1>1, <2>3, TableType DEF EnterLoop
    <2>5. \/ phase' = "step" /\ debugger' = FALSE
          \/ phase' = "prompt" /\ debugger' = TRUE
      BY <1>0, <1>1 DEF EnterLoop
    <2>6. ETypeOK'
      BY <1>0, <2>1, <2>4, <2>5 DEF ETypeOK, Table
    <2> QED
      BY <2>2, <2>6 DEF EInv
  <1>2. CASE MainStep
    <2>1. CpuTypeOK' /\ status' \in {"running", "dumped", "trapped"}
      BY <1>2, CpuStepType DEF MainStep
    <2>2. ETypeOK'
      BY <1>0, <1>2 DEF MainStep, ETypeOK, Table
    <2> QED
      BY <2>1, <2>2 DEF EInv
  <1>3. CASE Cycle
    <2>1. CpuTypeOK' /\ status' \in {"running", "dumped", "trapped"}
      BY <1>3, CpuStepType DEF Cycle
    <2>2. debugger
      BY <1>3 DEF Cycle, EInv, ETypeOK
    <2>3. cycles' \in Nat /\ (phase' = "cycles" <=> cycles' > 0) /\ phase' \in {"prompt", "cycles"}
      BY <1>0, <1>3 DEF Cycle
    <2>4. ETypeOK'
      BY <1>0, <1>3, <2>2, <2>3 DEF Cycle, ETypeOK, Table
    <2> QED
      BY <2>1, <2>4 DEF EInv
  <1>4. CASE Prompt
    BY <1>4, PromptType
  <1>5. CASE Sigint
    BY <1>5 DEF Sigint, EInv, ETypeOK
  <1>6. CASE UNCHANGED evars
    BY <1>6 DEF evars, vars, EInv, CpuTypeOK, ETypeOK
  <1> QED
    BY <1>1, <1>2, <1>3, <1>4, <1>5, <1>6 DEF ENext

(* Whatever is typed, the debugger keeps its types: it has control exactly *)
(* where it asks for commands, and counts the steps of r down to none.      *)
THEOREM EmulatorTypeCorrect == ESpec => []ETypeOK
  <1>1. EInv => ETypeOK
    BY DEF EInv
  <1> QED
    BY <1>1, EInitInv, EStepType, PTL DEF ESpec

--------------------------------------------------------------------------------
(* RunControl has the processor's definitions once more.  Mapped to the     *)
(* emulator's variables they are the same ones.                             *)
LEMMA SameShifts ==
    ASSUME NEW f, NEW a, NEW n, NEW cu
    PROVE  /\ Control!Sll(f, a, n, cu) = Sll(f, a, n, cu)
           /\ Control!Srl(f, a, n, cu) = Srl(f, a, n, cu)
           /\ Control!Sra(f, a, n, cu) = Sra(f, a, n, cu)
  BY DEF Control!Modulus, Modulus, Control!SignBit, SignBit, Control!Word, Word,
         Control!Bit, Bit, Control!Negative, Negative, Control!Signed, Signed,
         Control!BasicFlags, BasicFlags, Control!ShiftOutcomes, ShiftOutcomes,
         Control!RightCarries, RightCarries, Control!Sll, Sll, Control!Srl, Srl,
         Control!Sra, Sra

LEMMA SameOutcomes ==
    ASSUME NEW fn, NEW a, NEW b, NEW cu
    PROVE  Control!Outcomes(fn, a, b, cu) = Outcomes(fn, a, b, cu)
  BY SameShifts, Zenon DEF Control!Outcomes, Outcomes, Control!Modulus, Modulus,
         Control!SignBit, SignBit, Control!Ones, Ones, Control!Negative, Negative,
         Control!Carry, Carry, Control!SignExtend, SignExtend,
         Control!BasicFlags, BasicFlags, Control!Add, Add, Control!Sub, Sub,
         Control!Addc, Addc, Control!Subc, Subc, Control!BitOp, BitOp

LEMMA SameExec ==
    ASSUME NEW i, NEW n
    PROVE  Control!Exec(i, n) <=> Exec(i, n)
  <1>1. Control!Nop(i, n) <=> Nop(i, n)
    BY Zenon DEF Control!Advance, Advance, Control!Nop, Nop,
           Control!Modulus, Modulus
  <1>2. Control!AluStep(i, n) <=> AluStep(i, n)
    BY SameOutcomes, Zenon DEF Control!Value, Value, Control!Keep, Keep,
           Control!Advance, Advance, Control!AluStep, AluStep,
           Control!Modulus, Modulus, Control!Discard, Discard
  <1>3. Control!Compare(i, n) <=> Compare(i, n)
    BY Zenon DEF Control!Value, Value, Control!Advance, Advance,
           Control!Compare, Compare, Control!Modulus, Modulus,
           Control!SignBit, SignBit, Control!Negative, Negative,
           Control!BasicFlags, BasicFlags, Control!Sub, Sub, Control!Cmp, Cmp
  <1>4. Control!Multiply(i, n) <=> Multiply(i, n)
    BY Zenon DEF Control!Advance, Advance, Control!Multiply, Multiply,
           Control!Products, Products, Control!Word, Word,
           Control!Modulus, Modulus, Control!SignBit, SignBit
  <1>5. Control!Divide(i, n) <=> Divide(i, n)
    BY Zenon DEF Control!Advance, Advance, Control!Divide, Divide,
           Control!Modulus, Modulus
  <1>6. Control!FromEngine(i, n) <=> FromEngine(i, n)
    BY Zenon DEF Control!Advance, Advance, Control!FromEngine, FromEngine,
           Control!Modulus, Modulus
  <1>7. Control!ToEngine(i, n) <=> ToEngine(i, n)
    BY Zenon DEF Control!Advance, Advance, Control!ToEngine, ToEngine,
           Control!Modulus, Modulus
  <1>8. Control!MoveSpecial(i, n) <=> MoveSpecial(i, n)
    BY Zenon DEF Control!Advance, Advance, Control!MoveSpecial, MoveSpecial,
           Control!Modulus, Modulus
  <1>9. Control!FromControl(i, n) <=> FromControl(i, n)
    BY Zenon DEF Control!Num, Num, Control!FlagBits, FlagBits,
           Control!ControlValue, ControlValue, Control!Advance, Advance,
           Control!FromControl, FromControl, Control!Modulus, Modulus
  <1>10. Control!ToControl(i, n) <=> ToControl(i, n)
    BY Zenon DEF Control!FlagsIn, FlagsIn, Control!Advance, Advance,
           Control!ToControl, ToControl, Control!Modulus, Modulus
  <1>11. Control!SetT(i, n) <=> SetT(i, n)
    BY Zenon DEF Control!CNT, CNT, Control!Advance, Advance, Control!SetT, SetT,
           Control!Modulus, Modulus, Control!CntPattern, CntPattern,
           Control!CntHolds, CntHolds, Control!FlagsHold, FlagsHold,
           Control!Conditional, Conditional
  <1>12. Control!Move(i, n) <=> Move(i, n)
    BY Zenon DEF Control!CNT, CNT, Control!Value, Value, Control!Advance, Advance,
           Control!Move, Move, Control!Modulus, Modulus,
           Control!CntPattern, CntPattern, Control!CntHolds, CntHolds,
           Control!FlagsHold, FlagsHold, Control!Conditional, Conditional
  <1>13. Control!Load(i, n) <=> Load(i, n)
    BY Zenon DEF Control!ByteAt, ByteAt, Control!ReadU8, ReadU8,
           Control!ReadU16, ReadU16, Control!ReadU32, ReadU32, Control!Read, Read,
           Control!Advance, Advance, Control!Moved, Moved, Control!Before, Before,
           Control!AccessAddress, AccessAddress, Control!Load, Load,
           Control!Modulus, Modulus, Control!SignExtend, SignExtend
  <1>14. Control!Store(i, n) <=> Store(i, n)
    BY Zenon DEF Control!Stored, Stored, Control!Advance, Advance,
           Control!Moved, Moved, Control!Before, Before,
           Control!AccessAddress, AccessAddress, Control!Store, Store,
           Control!Modulus, Modulus
  <1>15. Control!Push(i, n) <=> Push(i, n)
    BY Zenon DEF Control!Stored, Stored, Control!Advance, Advance,
           Control!Push, Push, Control!Modulus, Modulus
  <1>16. Control!Pop(i, n) <=> Pop(i, n)
    BY Zenon DEF Control!ByteAt, ByteAt, Control!ReadU32, ReadU32,
           Control!Advance, Advance, Control!Pop, Pop, Control!Modulus, Modulus
  <1>17. Control!Branch(i, n) <=> Branch(i, n)
    BY Zenon DEF Control!CNT, CNT, Control!Advance, Advance,
           Control!TargetOf, TargetOf, Control!Branch, Branch,
           Control!Modulus, Modulus, Control!CntPattern, CntPattern,
           Control!CntHolds, CntHolds, Control!CntAfter, CntAfter,
           Control!FlagsHold, FlagsHold, Control!Conditional, Conditional
  <1>18. Control!Dump(i) <=> Dump(i)
    BY Zenon DEF Control!Dump, Dump
  <1> QED
    BY <1>1, <1>2, <1>3, <1>4, <1>5, <1>6, <1>7, <1>8, <1>9, <1>10, <1>11, <1>12, <1>13, <1>14, <1>15, <1>16, <1>17, <1>18, Zenon
       DEF Control!Exec, Exec

LEMMA SameFetched ==
    Control!Fetched = Fetched
  BY Zenon DEF Control!ByteAt, ByteAt, Control!ReadU32, ReadU32,
         Control!SlotAt, SlotAt,
         Control!Instruction, Instruction, Control!InstructionOn, InstructionOn,
         Control!OperandOn, OperandOn, Control!TargetOn, TargetOn, Control!RegNum, RegNum,
         Control!AluNames, AluNames, Control!Discard, Discard, Control!Word, Word,
         Control!Fetched, Fetched, Control!Modulus, Modulus

LEMMA SameStored ==
    ASSUME NEW size, NEW a, NEW v
    PROVE  Control!Stored(size, a, v) = Stored(size, a, v)
  BY Zenon DEF Control!Stored, Stored, Control!Modulus, Modulus

LEMMA SameInterrupt ==
    ASSUME NEW c
    PROVE  Control!Interrupt(c) <=> Interrupt(c)
  BY Zenon DEF Control!Exception, Exception, Control!Interrupt, Interrupt,
         Control!Modulus, Modulus

LEMMA SameInit ==
    Control!Init <=> Init
  BY Zenon DEF Control!Init, Init, Control!NoFlags, NoFlags, Control!RegNum, RegNum

LEMMA SameStep ==
    ASSUME NEW i, NEW n
    PROVE  Control!Step(i, n) <=> Step(i, n)
  BY SameExec, Zenon DEF Control!Step, Step

LEMMA SameTables ==
    ASSUME NEW f, NEW a, NEW once
    PROVE  /\ Control!Without(f, a) = Without(f, a)
           /\ Control!Inserted(f, a, once) = BreakpointAdd(f, a, once)
  BY Zenon DEF Control!Without, Without, Control!Inserted, BreakpointAdd

LEMMA SameWord == Control!Word = Word
  BY DEF Control!Word, Word, Control!Modulus, Modulus

(* Away from the loop's test the machine is stopped when the debugger has   *)
(* control, and no breakpoint is about to vanish.                           *)
LEMMA AwayFromTest ==
    ASSUME phase # "loop"
    PROVE  (Stopped <=> debugger) /\ Points = breakpoints
  BY DEF Stopped, Points, Hit

LEMMA AwayFromTestNext ==
    ASSUME phase' # "loop"
    PROVE  (Stopped' <=> debugger') /\ Points' = breakpoints'
  BY DEF Stopped, Points, Hit

(* A command that changes nothing RunControl knows of. *)
LEMMA Stutters ==
    ASSUME UNCHANGED vars, Stopped' <=> Stopped, Points' = Points
    PROVE  UNCHANGED Control!rvars
  <1>1. Stopped \in BOOLEAN /\ Stopped' \in BOOLEAN
    BY DEF Stopped
  <1>2. Stopped' = Stopped
    BY <1>1
  <1> QED
    BY <1>2, Zenon DEF Control!rvars, Control!vars, vars

LEMMA CommandRefines ==
    ASSUME EInv, Prompt
    PROVE  [Control!RNext]_(Control!rvars)
  <1>0. Command
    BY Zenon DEF Prompt, StepCommand, ContinueCommand, CyclesCommand, BreakCommand, RunToCommand,
              StepOverCommand, ViewCommand, OtherCommand, FailingCommand, InterruptCommand,
              StoreCommand, QuitCommand
  <1>1. /\ CpuTypeOK /\ status = "running" /\ debugger = TRUE /\ phase = "prompt"
    BY <1>0, CommandType
  <1>2. Stopped /\ Points = breakpoints
    BY <1>1, AwayFromTest
  <1>3. /\ \A a \in Arguments : ParseAddress(a) \in Word
        /\ pc \in Word
    BY <1>1, ParseType DEF CpuTypeOK
  <1>4. ASSUME phase' \in {"prompt", "cycles"}, debugger' = debugger, breakpoints' = breakpoints
        PROVE  Stopped' = Stopped /\ Points' = Points
    <2>1. (Stopped' <=> debugger') /\ Points' = breakpoints'
      BY <1>4, AwayFromTestNext
    <2>2. Stopped' \in BOOLEAN /\ Stopped \in BOOLEAN
      BY DEF Stopped
    <2> QED
      BY <1>1, <1>2, <1>4, <2>1, <2>2
  <1>5. CASE StepCommand
    <2>1. PICK f \in Fetched : Step(f[1], f[2])
      BY <1>5 DEF StepCommand, CpuStep
    <2>2. \E g \in Control!Fetched : Control!Step(g[1], g[2])
      BY <2>1, SameFetched, SameStep, Zenon
    <2>3. Stopped' = Stopped /\ Points' = Points
      BY <1>1, <1>4, <1>5 DEF StepCommand
    <2> QED
      BY <1>2, <2>2, <2>3, Zenon DEF Control!RNext, Control!StepOnce
  <1>6. CASE ContinueCommand
    <2>1. ~debugger' /\ phase' = "step" /\ breakpoints' = breakpoints /\ UNCHANGED vars
      BY <1>6 DEF ContinueCommand
    <2>2. Stopped' = FALSE /\ Points' = Points
      BY <1>2, <2>1, AwayFromTestNext DEF Stopped
    <2> QED
      BY <1>2, <2>1, <2>2, Zenon DEF Control!RNext, Control!Go, Control!vars, vars
  <1>7. CASE (\E n \in CycleCounts : CyclesCommand(n)) \/ OtherCommand
             \/ (\E arg \in Arguments : ViewCommand(ParseAddress(arg)))
    <2>1. UNCHANGED <<vars, debugger, breakpoints>> /\ phase' \in {"prompt", "cycles"}
      BY <1>1, <1>7 DEF CyclesCommand, OtherCommand, ViewCommand
    <2> QED
      BY <1>4, <2>1, Stutters
  <1>8. CASE \E arg \in Arguments : BreakCommand(ParseAddress(arg))
    <2>1. PICK a \in Word : BreakCommand(a)
      BY <1>3, <1>8
    <2>2. UNCHANGED <<vars, debugger, phase>> /\ breakpoints' = BreakpointToggle(breakpoints, a)
      BY <2>1 DEF BreakCommand
    <2>3. (Stopped' <=> debugger') /\ Points' = breakpoints'
      BY <1>1, <2>2, AwayFromTestNext
    <2>4. Stopped' = Stopped
      BY <1>1, <1>2, <2>2, <2>3 DEF Stopped
    <2>5. Points' = IF a \in DOMAIN Points THEN Control!Without(Points, a)
                    ELSE Control!Inserted(Points, a, FALSE)
      BY <1>2, <2>2, <2>3, SameTables, Zenon DEF BreakpointToggle
    <2>6. a \in Control!Word
      BY SameWord
    <2> QED
      BY <1>2, <2>2, <2>4, <2>5, <2>6, Zenon DEF Control!RNext, Control!Toggle, Control!vars, vars
  <1>9. ASSUME NEW a \in Word, breakpoints' = BreakpointAdd(breakpoints, a, TRUE),
               ~debugger', phase' = "step", UNCHANGED vars
        PROVE  Control!RNext
    <2>1. Stopped' = FALSE /\ Points' = breakpoints'
      BY <1>9, AwayFromTestNext DEF Stopped
    <2>2. Points' = Control!Inserted(Points, a, TRUE)
      BY <1>2, <1>9, <2>1, SameTables, Zenon
    <2>3. a \in Control!Word
      BY SameWord
    <2> QED
      BY <1>2, <1>9, <2>1, <2>2, <2>3, Zenon DEF Control!RNext, Control!Go, Control!vars, vars
  <1>10. CASE \E arg \in Arguments : RunToCommand(ParseAddress(arg))
    <2>1. PICK a \in Word : RunToCommand(a)
      BY <1>3, <1>10
    <2> QED
      BY <1>9, <2>1 DEF RunToCommand
  <1>11. CASE StepOverCommand
    <2>1. StepOverLengths \subseteq {2, 4}
      BY DEF StepOverLengths
    <2>2. PICK n \in {2, 4} : breakpoints' = BreakpointAdd(breakpoints, (pc + n) % Modulus, TRUE)
      BY <1>11, <2>1 DEF StepOverCommand
    <2>3. (pc + n) % Modulus \in Word
      BY <1>3, <2>2, WordInt, Wraps
    <2> QED
      BY <1>9, <1>11, <2>2, <2>3 DEF StepOverCommand
  <1>12. CASE FailingCommand \/ QuitCommand
    <2>1. /\ UNCHANGED <<name, r, flags, cr, sr, ce, pc, ram, debugger, breakpoints, phase>>
          /\ status' \in {"quit", "aborted"}
      BY <1>12, Zenon DEF FailingCommand, QuitCommand
    <2>2. Stopped' = Stopped /\ Points' = Points
      BY <1>1, <1>4, <2>1
    <2> QED
      BY <1>1, <2>1, <2>2, Zenon DEF Control!RNext, Control!Quit
  <1>13. CASE \E c \in Causes : InterruptCommand(c)
    <2>1. PICK c \in Causes : InterruptCommand(c)
      BY <1>13
    <2>2. Stopped' = Stopped /\ Points' = Points
      BY <1>1, <1>4, <2>1 DEF InterruptCommand
    <2>3. CASE Interrupt(c)
      <3>1. Control!Interrupt(c)
        BY <2>3, SameInterrupt, Zenon
      <3> QED
        BY <1>2, <2>2, <3>1, Zenon DEF Control!RNext, Control!Raise
    <2>4. CASE UNCHANGED vars
      BY <2>2, <2>4, Stutters
    <2> QED
      BY <2>1, <2>3, <2>4 DEF InterruptCommand
  <1>14. CASE \E size \in StoreSizes, arg \in Arguments, v \in StoreValues :
                StoreCommand(size, ParseAddress(arg), v)
    <2>1. PICK size \in StoreSizes, a \in Word, v \in StoreValues : StoreCommand(size, a, v)
      BY <1>3, <1>14
    <2>2. Stopped' = Stopped /\ Points' = Points
      BY <1>1, <1>4, <2>1 DEF StoreCommand
    <2>3. ram' = Control!Stored(size, a, v) /\ a \in Control!Word
      BY <2>1, SameStored, SameWord, Zenon DEF StoreCommand
    <2>4. UNCHANGED <<name, r, flags, cr, sr, ce, pc, status>>
      BY <2>1 DEF StoreCommand
    <2>5. Control!Poke
      BY <1>2, <2>2, <2>3, <2>4, Zenon DEF Control!Poke
    <2> QED
      BY <2>5, Zenon DEF Control!RNext
  <1> QED
    BY <1>5, <1>6, <1>7, <1>8, <1>10, <1>11, <1>12, <1>13, <1>14, Zenon DEF Prompt

LEMMA EStepRefines ==
    ASSUME EInv, [ENext]_evars
    PROVE  [Control!RNext]_(Control!rvars)
  <1>0. /\ debugger \in BOOLEAN /\ (phase \in {"prompt", "cycles"} => debugger)
        /\ (phase = "step" => ~debugger)
    BY DEF EInv, ETypeOK
  <1>1. CASE EnterLoop
    <2>1. UNCHANGED vars /\ phase' # "loop" /\ phase = "loop" /\ status = "running"
      BY <1>1 DEF EnterLoop
    <2>2. (Stopped' <=> debugger') /\ Points' = breakpoints'
      BY <2>1, AwayFromTestNext
    <2>3. (debugger' <=> Stopped) /\ breakpoints' = Points
      BY <1>0, <1>1, <2>1 DEF EnterLoop, Stopped, Points, Hit
    <2> QED
      BY <2>1, <2>2, <2>3, Stutters
  <1>2. CASE MainStep
    <2>1. /\ phase = "step" /\ ~debugger /\ CpuStep /\ phase' = "loop"
          /\ debugger' = debugger /\ breakpoints' = breakpoints
      BY <1>0, <1>2 DEF MainStep
    <2>2. PICK f \in Fetched : Step(f[1], f[2])
      BY <2>1 DEF CpuStep
    <2>3. \E g \in Control!Fetched : Control!Step(g[1], g[2])
      BY <2>2, SameFetched, SameStep, Zenon
    <2>4. status' \in {"running", "dumped", "trapped"}
      BY <2>1, CpuStepType
    <2>5. ~Stopped /\ Points = breakpoints
      BY <2>1, AwayFromTest
    <2>6. Hit' <=> pc' \in DOMAIN breakpoints' /\ status' = "running"
      BY <2>1, <2>4 DEF Hit
    <2>7. CASE status' = "running" /\ pc' \in DOMAIN Points
      <3>1. Hit' /\ Stopped' = TRUE
        BY <2>1, <2>5, <2>6, <2>7 DEF Stopped
      <3>2. Points' = IF Points[pc'] THEN Control!Without(Points, pc') ELSE Points
        <4>1. Points' = IF breakpoints'[pc'] THEN Without(breakpoints', pc') ELSE breakpoints'
          BY <3>1 DEF Points, Without
        <4> QED
          BY <2>1, <2>5, <4>1, SameTables, Zenon
      <3> QED
        BY <2>3, <2>5, <2>7, <3>1, <3>2, Zenon DEF Control!RNext, Control!Run
    <2>8. CASE ~(status' = "running" /\ pc' \in DOMAIN Points)
      <3>1. ~Hit'
        BY <2>1, <2>5, <2>6, <2>8
      <3>2. Stopped' = Stopped /\ Points' = Points
        BY <2>1, <2>5, <3>1 DEF Stopped, Points
      <3> QED
        BY <2>3, <2>5, <2>8, <3>2, Zenon DEF Control!RNext, Control!Run
    <2> QED
      BY <2>7, <2>8
  <1>3. CASE Cycle
    <2>1. /\ phase = "cycles" /\ debugger /\ CpuStep /\ phase' # "loop"
          /\ debugger' = debugger /\ breakpoints' = breakpoints
      BY <1>0, <1>3 DEF Cycle
    <2>2. PICK f \in Fetched : Step(f[1], f[2])
      BY <2>1 DEF CpuStep
    <2>3. \E g \in Control!Fetched : Control!Step(g[1], g[2])
      BY <2>2, SameFetched, SameStep, Zenon
    <2>4. Stopped /\ Points = breakpoints
      BY <2>1, AwayFromTest
    <2>5. Stopped' = Stopped /\ Points' = Points
      BY <2>1, <2>4, AwayFromTestNext DEF Stopped
    <2> QED
      BY <2>3, <2>4, <2>5, Zenon DEF Control!RNext, Control!StepOnce
  <1>4. CASE Prompt
    BY <1>4, CommandRefines
  <1>5. CASE Sigint
    <2>1. /\ UNCHANGED <<name, r, flags, cr, sr, ce, pc, ram, debugger, breakpoints, phase>>
          /\ status = "running" /\ status' = "quit"
      BY <1>5 DEF Sigint
    <2>2. Hit' <=> Hit
      BY <2>1 DEF Hit
    <2>3. Stopped' = Stopped /\ Points' = Points
      BY <2>1, <2>2 DEF Stopped, Points, Without
    <2> QED
      BY <2>1, <2>3, Zenon DEF Control!RNext, Control!Quit
  <1>6. CASE UNCHANGED evars
    <2>1. UNCHANGED <<vars, debugger, breakpoints, phase>>
      BY <1>6 DEF evars
    <2>2. Hit' <=> Hit
      BY <2>1 DEF Hit, vars
    <2>3. Stopped' = Stopped /\ Points' = Points
      BY <2>1, <2>2 DEF Stopped, Points, Without, vars
    <2> QED
      BY <2>1, <2>3, Stutters
  <1> QED
    BY <1>1, <1>2, <1>3, <1>4, <1>5, <1>6 DEF ENext

LEMMA EInitRefines == EInit => Control!RInit
  <1> SUFFICES ASSUME EInit PROVE Control!RInit
    OBVIOUS
  <1>1. Init /\ debugger = TRUE /\ breakpoints = <<>>
    BY DEF EInit
  <1>2. Stopped = TRUE /\ Points = <<>>
    BY <1>1 DEF Stopped, Points, Hit
  <1> QED
    BY <1>1, <1>2, SameInit, Zenon DEF Control!RInit

(* The safety part of BehavesAsRunControl: for every program, word width,   *)
(* table of breakpoints and number of commands, each step of the loop with  *)
(* its test before the step is a step of the machine that stops at once.    *)
THEOREM EmulatorStepsAsRunControl ==
    ESpec => Control!RInit /\ [][Control!RNext]_(Control!rvars)
  <1>1. ESpec => []EInv
    BY EInitInv, EStepType, PTL DEF ESpec
  <1> QED
    BY <1>1, EInitRefines, EStepRefines, PTL DEF ESpec

--------------------------------------------------------------------------------
(* Step-over.  Its invariant: it has yet to execute the instruction it is    *)
(* over, with a breakpoint behind it; or that was a call which has not       *)
(* returned, and returns to a breakpoint; or main's loop is about to stop.   *)
Ahead ==
    /\ phase = "step" /\ ~over.stepped /\ Len(calls) = over.depth
    /\ pc \in Boundary /\ SlotAt(pc - (pc % 4)).kind # "pair" /\ ComesBack
    /\ \A n \in StepOverLengths : (pc + n) % Modulus \in DOMAIN breakpoints

Under ==
    /\ over.stepped
    /\ Len(calls) > over.depth
    /\ calls[over.depth + 1] \in DOMAIN breakpoints

Arrived == phase = "loop" /\ (pc \in DOMAIN breakpoints \/ status # "running")

OverInv ==
    /\ calls \in Seq(Word)
    /\ over \in [depth : Nat, stepped : BOOLEAN, on : BOOLEAN]
    /\ over.on => ~debugger /\ phase \in {"step", "loop"} /\ (Ahead \/ Under \/ Arrived)

LEMMA OverInit == EInit => OverInv
  BY DEF EInit, OverInv, NotOver

(* so uses the length that step will. *)
LEMMA StepOverLength ==
    ASSUME CpuTypeOK, pc \in Boundary, SlotAt(pc - (pc % 4)).kind # "pair", NEW f \in Fetched
    PROVE  f[2] \in StepOverLengths
  <1>0. pc \in Word /\ pc \in Int /\ name \in DOMAIN Programs /\ ram \in [Ram -> ByteNumber]
    BY WordInt DEF CpuTypeOK
  <1>1. SlotAt(pc - (pc % 4)).kind \in {"long", "short"}
    BY <1>0, SlotType, SlotFields
  <1>2. CASE pc % 4 = 0
    <2>1. pc % 2 # 1
      BY <1>0, <1>2
    <2>2. f[2] = IF SlotAt(pc - (pc % 4)).kind = "short" THEN 2 ELSE 4
      BY <1>0, <1>2, FetchedLength
    <2> QED
      BY <1>1, <2>1, <2>2 DEF StepOverLengths
  <1>3. CASE pc % 4 = 2 /\ SlotAt(pc - 2).kind = "short"
    <2>1. pc % 2 # 1 /\ pc - (pc % 4) = pc - 2
      BY <1>0, <1>3
    <2>2. f[2] = 2
      BY <1>0, <1>3, FetchedLength
    <2> QED
      BY <1>3, <2>1, <2>2 DEF StepOverLengths
  <1> QED
    BY <1>0, <1>2, <1>3 DEF Boundary, SlotAddress

LEMMA CallsType ==
    ASSUME CpuTypeOK, calls \in Seq(Word), NEW f \in Fetched
    PROVE  CallsAfter(calls, f[1], f[2]) \in Seq(Word)
  <1>0. f[2] \in {2, 4} /\ pc \in Int
    BY FetchedType, WordInt DEF CpuTypeOK
  <1>1. (pc + f[2]) % Modulus \in Word
    <2>1. pc + f[2] \in Int
      BY <1>0
    <2> QED
      BY <2>1, Wraps
  <1>2. calls # <<>> => SubSeq(calls, 1, Len(calls) - 1) \in Seq(Word)
    OBVIOUS
  <1>3. Append(calls, (pc + f[2]) % Modulus) \in Seq(Word)
    BY <1>1
  <1> QED
    BY <1>2, <1>3 DEF CallsAfter

(* A step of main's loop on the way over. *)
LEMMA OverMainStep ==
    ASSUME EInv, OverInv, ReturnsGoBack, MainStep
    PROVE  OverInv'
  <1>0. /\ CpuTypeOK /\ status = "running" /\ phase = "step"
        /\ calls \in Seq(Word) /\ over \in [depth : Nat, stepped : BOOLEAN, on : BOOLEAN]
        /\ phase' = "loop" /\ debugger' = debugger /\ breakpoints' = breakpoints
    BY DEF EInv, OverInv, MainStep
  <1>1. PICK f \in Fetched : Step(f[1], f[2]) /\ calls' = CallsAfter(calls, f[1], f[2])
    BY DEF MainStep, CpuStep
  <1>2. over' = [over EXCEPT !.stepped = TRUE]
    BY DEF MainStep, CpuStep
  <1>3. /\ over'.depth = over.depth /\ over'.on = over.on /\ over'.stepped = TRUE
        /\ over' \in [depth : Nat, stepped : BOOLEAN, on : BOOLEAN]
    BY <1>0, <1>2
  <1>4. calls' \in Seq(Word)
    BY <1>0, <1>1, CallsType
  <1>5. ASSUME over.on PROVE Under' \/ Arrived'
    <2>1. CASE Ahead
      <3>1. (pc + f[2]) % Modulus \in DOMAIN breakpoints
        BY <1>0, <2>1, StepOverLength DEF Ahead
      <3>2. Len(calls) = over.depth
        BY <2>1 DEF Ahead
      <3>3. CASE Taken(f[1])
        <4>1. f[1].link
          BY <2>1, <3>3 DEF Ahead, ComesBack, Taken
        <4>2. calls' = Append(calls, (pc + f[2]) % Modulus)
          BY <1>1, <3>3, <4>1 DEF CallsAfter
        <4>3. Len(calls') = over.depth + 1 /\ calls'[over.depth + 1] = (pc + f[2]) % Modulus
          BY <1>0, <3>2, <4>2
        <4> QED
          BY <1>0, <1>3, <3>1, <4>3 DEF Under
      <3>4. CASE ~Taken(f[1])
        <4>1. pc' = (pc + f[2]) % Modulus \/ status' # "running"
          BY <1>1, <3>4, StepGoes
        <4> QED
          BY <1>0, <3>1, <4>1 DEF Arrived
      <3> QED
        BY <3>3, <3>4
    <2>2. CASE Under
      <3>1. CASE Taken(f[1]) /\ f[1].link
        <4>1. calls' = Append(calls, (pc + f[2]) % Modulus)
          BY <1>1, <3>1 DEF CallsAfter
        <4>2. Len(calls') > over.depth /\ calls'[over.depth + 1] = calls[over.depth + 1]
          BY <1>0, <2>2, <4>1 DEF Under
        <4> QED
          BY <1>0, <1>3, <2>2, <4>2 DEF Under
      <3>2. CASE Taken(f[1]) /\ ~f[1].link /\ f[1].to = <<"reg", 3>>
        <4>1. calls # <<>> /\ Len(calls) \in Nat /\ over.depth \in Nat /\ Len(calls) > over.depth
          BY <1>0, <2>2 DEF Under
        <4>2. calls' = SubSeq(calls, 1, Len(calls) - 1)
          BY <1>1, <3>2, <4>1 DEF CallsAfter
        <4>3. pc' = calls[Len(calls)]
          <5>1. pc' = TargetOf(f[1].to)
            BY <1>1, <3>2, StepGoes
          <5>2. r[3] = calls[Len(calls)]
            BY <1>0, <3>2, <4>1 DEF ReturnsGoBack
          <5> QED
            BY <3>2, <5>1, <5>2 DEF TargetOf
        <4>4. CASE Len(calls) = over.depth + 1
          BY <1>0, <2>2, <4>3, <4>4 DEF Under, Arrived
        <4>5. CASE Len(calls) > over.depth + 1
          <5>1. Len(calls') > over.depth /\ calls'[over.depth + 1] = calls[over.depth + 1]
            BY <1>0, <4>1, <4>2, <4>5
          <5> QED
            BY <1>0, <1>3, <2>2, <5>1 DEF Under
        <4> QED
          BY <4>1, <4>4, <4>5
      <3>3. CASE ~(Taken(f[1]) /\ (f[1].link \/ f[1].to = <<"reg", 3>>))
        <4>1. calls' = calls
          BY <1>1, <3>3 DEF CallsAfter
        <4> QED
          BY <1>0, <1>3, <2>2, <4>1 DEF Under
      <3> QED
        BY <3>1, <3>2, <3>3
    <2>3. CASE Arrived
      BY <1>0, <2>3 DEF Arrived
    <2> QED
      BY <1>5, <2>1, <2>2, <2>3 DEF OverInv
  <1> QED
    BY <1>0, <1>3, <1>4, <1>5 DEF OverInv

(* A step while the debugger has control: none is being stepped over.        *)
LEMMA OverStepped ==
    ASSUME EInv, OverInv, CpuStep, ~over.on
    PROVE  calls' \in Seq(Word) /\ over' \in [depth : Nat, stepped : BOOLEAN, on : BOOLEAN] /\ ~over'.on
  <1>1. CpuTypeOK
    BY DEF EInv, CpuStep, Step
  <1>2. PICK f \in Fetched : calls' = CallsAfter(calls, f[1], f[2])
    BY DEF CpuStep
  <1>3. over' = [over EXCEPT !.stepped = TRUE]
    BY DEF CpuStep
  <1> QED
    BY <1>1, <1>2, <1>3, CallsType DEF OverInv

LEMMA OverStep ==
    ASSUME EInv, OverInv, ReturnsGoBack, [ENext]_evars
    PROVE  OverInv'
  <1>0. /\ calls \in Seq(Word) /\ over \in [depth : Nat, stepped : BOOLEAN, on : BOOLEAN]
        /\ phase \in {"prompt", "cycles"} => ~over.on
        /\ over.on => ~debugger /\ phase \in {"step", "loop"} /\ (Ahead \/ Under \/ Arrived)
    BY DEF OverInv
  <1>1. CASE EnterLoop
    <2>1. CASE ~debugger /\ pc \notin DOMAIN breakpoints
      <3>1. /\ phase = "loop" /\ phase' = "step" /\ status = "running"
            /\ UNCHANGED <<pc, calls, over, breakpoints, debugger>>
        BY <1>1, <2>1 DEF EnterLoop, vars
      <3>2. over.on => Under
        BY <1>0, <2>1, <3>1 DEF Ahead, Arrived
      <3> QED
        BY <1>0, <3>1, <3>2 DEF OverInv, Under
    <2>2. CASE ~(~debugger /\ pc \notin DOMAIN breakpoints)
      <3>1. over' = NotOver /\ calls' = calls
        BY <1>1, <2>2 DEF EnterLoop
      <3> QED
        BY <1>0, <3>1 DEF OverInv, NotOver
    <2> QED
      BY <2>1, <2>2
  <1>2. CASE MainStep
    BY <1>2, OverMainStep
  <1>3. CASE Cycle
    <2>1. ~over.on /\ CpuStep
      BY <1>0, <1>3 DEF Cycle
    <2> QED
      BY <2>1, OverStepped DEF OverInv
  <1>4. CASE StepCommand
    <2>1. ~over.on /\ CpuStep
      BY <1>0, <1>4 DEF StepCommand, Command
    <2> QED
      BY <2>1, OverStepped DEF OverInv
  <1>5. CASE StepOverCommand
    <2>1. /\ phase = "prompt" /\ status = "running" /\ phase' = "step" /\ ~debugger'
          /\ UNCHANGED vars /\ calls' = calls
      BY <1>5 DEF StepOverCommand, Command
    <2>2. over' = [depth |-> Len(calls), stepped |-> FALSE,
                   on |-> SlotAt(pc - (pc % 4)).kind # "pair" /\ pc \in Boundary /\ ComesBack]
      BY <1>5 DEF StepOverCommand
    <2>3. /\ over'.depth = Len(calls) /\ over'.stepped = FALSE
          /\ over'.on <=> SlotAt(pc - (pc % 4)).kind # "pair" /\ pc \in Boundary /\ ComesBack
          /\ over' \in [depth : Nat, stepped : BOOLEAN, on : BOOLEAN]
      <3> DEFINE on == SlotAt(pc - (pc % 4)).kind # "pair" /\ pc \in Boundary /\ ComesBack
      <3>1. on \in BOOLEAN
        BY Zenon
      <3>2. over' = [depth |-> Len(calls), stepped |-> FALSE, on |-> on]
        BY <2>2, Zenon
      <3> HIDE DEF on
      <3>3. /\ over'.depth = Len(calls) /\ over'.stepped = FALSE /\ (over'.on <=> on)
            /\ over' \in [depth : Nat, stepped : BOOLEAN, on : BOOLEAN]
        BY <1>0, <3>1, <3>2
      <3> QED
        BY <3>3 DEF on
    <2>4. CpuTypeOK
      BY <2>1 DEF EInv
    <2>5. ASSUME over'.on PROVE \A n \in StepOverLengths : (pc + n) % Modulus \in DOMAIN breakpoints'
      <3>1. PICK n \in StepOverLengths : breakpoints' = BreakpointAdd(breakpoints, (pc + n) % Modulus, TRUE)
        BY <1>5 DEF StepOverCommand
      <3>2. pc % 4 \in {0, 2} /\ pc \in Int
        BY <2>3, <2>5, WordInt DEF Boundary, SlotAddress
      <3>3. pc % 2 # 1
        BY <3>2
      <3>4. \A m \in StepOverLengths : m = n
        BY <3>3 DEF StepOverLengths
      <3>5. (pc + n) % Modulus \in DOMAIN breakpoints'
        BY <3>1 DEF BreakpointAdd
      <3> QED
        BY <3>4, <3>5
    <2>6. ASSUME over'.on PROVE Ahead'
      <3>1. StepOverLengths' = StepOverLengths /\ ComesBack' = ComesBack /\ pc' = pc /\ Boundary' = Boundary
            /\ SlotAt(pc - (pc % 4))' = SlotAt(pc - (pc % 4))
        BY <2>1 DEF vars, StepOverLengths, ComesBack, Boundary, SlotAt, ReadU32, ByteAt, Fetched
      <3> QED
        BY <2>1, <2>3, <2>5, <2>6, <3>1 DEF Ahead
    <2> QED
      BY <1>0, <2>1, <2>3, <2>6 DEF OverInv
  <1>6. CASE Prompt /\ ~StepCommand /\ ~StepOverCommand
    <2>1. phase = "prompt" /\ UNCHANGED <<calls, over>>
      BY <1>6 DEF Prompt, ContinueCommand, CyclesCommand, BreakCommand, RunToCommand, ViewCommand,
         OtherCommand, FailingCommand, InterruptCommand, StoreCommand, QuitCommand, Command
    <2> QED
      BY <1>0, <2>1 DEF OverInv
  <1>7. CASE Sigint
    <2>1. /\ UNCHANGED <<name, r, flags, pc, ram, debugger, breakpoints, phase, calls, over>>
          /\ status' # "running"
      BY <1>7 DEF Sigint
    <2>2. (Ahead' <=> Ahead) /\ (Under' <=> Under) /\ (Arrived => Arrived')
      BY <2>1 DEF Ahead, Under, Arrived, StepOverLengths, ComesBack, Boundary, SlotAt, ReadU32,
         ByteAt, Fetched
    <2> QED
      BY <1>0, <2>1, <2>2 DEF OverInv
  <1>8. CASE UNCHANGED evars
    <2>1. UNCHANGED <<name, r, flags, pc, ram, debugger, breakpoints, phase, calls, over, status>>
      BY <1>8 DEF evars, vars
    <2>2. (Ahead' <=> Ahead) /\ (Under' <=> Under) /\ (Arrived => Arrived')
      BY <2>1 DEF Ahead, Under, Arrived, StepOverLengths, ComesBack, Boundary, SlotAt, ReadU32,
         ByteAt, Fetched
    <2> QED
      BY <1>0, <2>1, <2>2 DEF OverInv
  <1> QED
    BY <1>1, <1>2, <1>3, <1>4, <1>5, <1>6, <1>7, <1>8 DEF ENext

(* For every program whose returns go back to their calls, whatever is      *)
(* typed: so on a call, or on an instruction that goes on to the next, has  *)
(* stopped by the time that anything behind it would be executed.           *)
THEOREM StepOverReturns == ESpec /\ []ReturnsGoBack => []StepOverStopsBehindCall
  <1>1. OverInv => StepOverStopsBehindCall
    BY DEF OverInv, StepOverStopsBehindCall, Ahead, Under, Arrived
  <1> QED
    BY <1>1, EInitInv, EStepType, OverInit, OverStep, PTL DEF ESpec
================================================================================
