-------------------------------- MODULE Emulator --------------------------------
(***************************************************************************)
(* main's loop: debugger_loop, then one step of the processor, forever,    *)
(* with the debugger's commands (src/source/main.cpp,                      *)
(* src/source/hyperscan/debugger.cpp).  What the debugger draws reads the  *)
(* machine without changing it; Listing has its code pane.                 *)
(***************************************************************************)
EXTENDS Cpu

CONSTANTS Arguments,             \* addresses as a user types them
          StoreValues, StoreSizes,
          CycleCounts,           \* arguments of r
          ViewStart,             \* where the memory pane begins, 0xa0000000
          MaxCommands

ASSUME EmulatorAssumption ==
    /\ Arguments \subseteq ({"hex"} \X Word) \cup ({"reg"} \X (0 .. 95)) \cup {<<"word", 0>>}
    /\ StoreValues \subseteq Word
    /\ StoreSizes \subseteq {1, 2, 4}
    /\ CycleCounts \subseteq Nat
    /\ ViewStart \in Word
    /\ MaxCommands \in Nat

VARIABLES debugger,              \* the debugger has control
          breakpoints,           \* address to: for one stop only
          memory_view_address,
          phase,                 \* where main's loop is
          cycles,                \* steps the command r has still to make
          commands,              \* commands so far
          calls,                 \* history: where the calls under way return to
          over                   \* history: the step-over under way
evars == <<vars, debugger, breakpoints, memory_view_address, phase, cycles, commands, calls, over>>

NotOver == [depth |-> 0, stepped |-> FALSE, on |-> FALSE]

EInit ==
    /\ Init
    /\ debugger = TRUE
    /\ breakpoints = <<>>
    /\ memory_view_address = ViewStart
    /\ phase = "loop"
    /\ cycles = 0
    /\ commands = 0
    /\ calls = <<>>
    /\ over = NotOver

Without(f, a) == [x \in DOMAIN f \ {a} |-> f[x]]

(* debugger_breakpoint_add: insert leaves an entry that is there as it is. *)
BreakpointAdd(f, a, once) ==
    IF a \in DOMAIN f THEN f
    ELSE [x \in DOMAIN f \cup {a} |-> IF x = a THEN once ELSE f[x]]

(* debugger_breakpoint_toggle *)
BreakpointToggle(f, a) ==
    IF a \in DOMAIN f THEN Without(f, a) ELSE BreakpointAdd(f, a, FALSE)

(* Behind r in CPU lie cr and sr: the index is not checked. *)
Register(k) ==
    CASE k \in 0 .. 31 -> r[k] [] k \in 32 .. 63 -> ControlValue(k - 32) [] k \in 64 .. 95 -> sr[k - 64]

(* parse_address: a register's value, a number, or pc for any other word. *)
ParseAddress(arg) ==
    CASE arg[1] = "reg" -> Register(arg[2]) [] arg[1] = "hex" -> arg[2] [] OTHER -> pc

--------------------------------------------------------------------------------
(* One instruction, by whatever part of the emulator. *)
CpuStep ==
    /\ \E f \in Fetched : Step(f[1], f[2]) /\ calls' = CallsAfter(calls, f[1], f[2])
    /\ over' = [over EXCEPT !.stepped = TRUE]

(* Mutation: one-shot breakpoints stay. *)
EnterLoopKeeping ==
    /\ phase = "loop" /\ status = "running"
    /\ IF ~debugger /\ pc \notin DOMAIN breakpoints
       THEN phase' = "step" /\ UNCHANGED <<debugger, over>>
       ELSE phase' = "prompt" /\ debugger' = TRUE /\ over' = NotOver
    /\ UNCHANGED <<vars, breakpoints, memory_view_address, cycles, commands, calls>>

(* debugger_loop up to the first prompt. *)
EnterLoop ==
    /\ phase = "loop" /\ status = "running"
    /\ IF ~debugger /\ pc \notin DOMAIN breakpoints
       THEN phase' = "step" /\ UNCHANGED <<debugger, breakpoints, over>>
       ELSE /\ phase' = "prompt"
            /\ debugger' = TRUE
            /\ breakpoints' = IF ~debugger /\ breakpoints[pc]
                              THEN Without(breakpoints, pc) ELSE breakpoints
            /\ over' = NotOver
    /\ UNCHANGED <<vars, memory_view_address, cycles, commands, calls>>

(* cpu.step() in main *)
MainStep ==
    /\ phase = "step" /\ status = "running"
    /\ CpuStep
    /\ phase' = "loop"
    /\ UNCHANGED <<debugger, breakpoints, memory_view_address, cycles, commands>>

Command ==
    /\ phase = "prompt" /\ status = "running"
    /\ commands < MaxCommands
    /\ commands' = commands + 1

(* "": an empty line, and any read after the end of the input. *)
StepCommand ==
    /\ Command
    /\ CpuStep
    /\ UNCHANGED <<debugger, breakpoints, memory_view_address, phase, cycles>>

(* c *)
ContinueCommand ==
    /\ Command
    /\ debugger' = FALSE
    /\ phase' = "step"
    /\ UNCHANGED <<vars, breakpoints, memory_view_address, cycles, calls, over>>

(* Mutation: the count is tested after the first step. *)
CyclesCommandOnce(n) ==
    /\ Command
    /\ cycles' = n
    /\ phase' = "cycles"
    /\ UNCHANGED <<vars, debugger, breakpoints, memory_view_address, calls, over>>

(* r n *)
CyclesCommand(n) ==
    /\ Command
    /\ cycles' = n
    /\ phase' = IF n = 0 THEN "prompt" ELSE "cycles"
    /\ UNCHANGED <<vars, debugger, breakpoints, memory_view_address, calls, over>>

Cycle ==
    /\ phase = "cycles" /\ status = "running"
    /\ CpuStep
    /\ cycles' = cycles - 1
    /\ phase' = IF cycles = 1 THEN "prompt" ELSE "cycles"
    /\ UNCHANGED <<debugger, breakpoints, memory_view_address, commands>>

(* b [address]; for several addresses, as many of these.                   *)
BreakCommand(a) ==
    /\ Command
    /\ breakpoints' = BreakpointToggle(breakpoints, a)
    /\ UNCHANGED <<vars, debugger, memory_view_address, phase, cycles, calls, over>>

(* j address *)
RunToCommand(a) ==
    /\ Command
    /\ breakpoints' = BreakpointAdd(breakpoints, a, TRUE)
    /\ debugger' = FALSE
    /\ phase' = "step"
    /\ UNCHANGED <<vars, memory_view_address, cycles, calls, over>>

(* A call, or an instruction that goes on to the next. *)
ComesBack == \A f \in Fetched : f[1].op = "branch" => f[1].link

(* Mutation: every instruction is taken to be two bytes long. *)
StepOverTwo == {2}

(* The length p0 tells of the slot at pc; at an odd pc, another bit's.      *)
StepOverLengths ==
    IF pc % 2 = 1 THEN {2, 4}
    ELSE {IF SlotAt(pc - (pc % 4)).kind = "long" THEN 4 ELSE 2}

(* so: run to the instruction behind this one, 4 bytes on if p0 is set in  *)
(* its slot, 2 bytes on otherwise (for a pair, too).                       *)
StepOverCommand ==
    /\ Command
    /\ \E n \in StepOverLengths :
          breakpoints' = BreakpointAdd(breakpoints, (pc + n) % Modulus, TRUE)
    /\ debugger' = FALSE
    /\ phase' = "step"
    /\ over' = [depth |-> Len(calls), stepped |-> FALSE,
                on |-> SlotAt(pc - (pc % 4)).kind # "pair" /\ pc \in Boundary /\ ComesBack]
    /\ UNCHANGED <<vars, memory_view_address, cycles, calls>>

(* m address *)
ViewCommand(a) ==
    /\ Command
    /\ memory_view_address' = a
    /\ UNCHANGED <<vars, debugger, breakpoints, phase, cycles, calls, over>>

(* dump, and words that are no command. *)
OtherCommand ==
    /\ Command
    /\ UNCHANGED <<vars, debugger, breakpoints, memory_view_address, phase, cycles, calls, over>>

(* i cause *)
InterruptCommand(cause) ==
    /\ Command
    /\ Interrupt(cause) \/ (cr[0] % 2 = 0 /\ UNCHANGED vars)
    /\ UNCHANGED <<debugger, breakpoints, memory_view_address, phase, cycles, calls, over>>

(* sb, sh, sw *)
StoreCommand(size, a, v) ==
    /\ Command
    /\ ram' = Stored(size, a, v)
    /\ UNCHANGED <<name, r, flags, cr, sr, ce, pc, status>>
    /\ UNCHANGED <<debugger, breakpoints, memory_view_address, phase, cycles, calls, over>>

(* q *)
QuitCommand ==
    /\ Command
    /\ status' = "quit"
    /\ UNCHANGED <<name, r, flags, cr, sr, ce, pc, ram>>
    /\ UNCHANGED <<debugger, breakpoints, memory_view_address, phase, cycles, calls, over>>

(* Without its argument, with a number that stol does not take, or with a   *)
(* file that does not open, a command ends the process.                     *)
FailingCommand ==
    /\ Command
    /\ status' = "aborted"
    /\ UNCHANGED <<name, r, flags, cr, sr, ce, pc, ram>>
    /\ UNCHANGED <<debugger, breakpoints, memory_view_address, phase, cycles, calls, over>>

(* SIGINT, at any time: debugger_loop has it exit, before that it kills. *)
Sigint ==
    /\ status = "running"
    /\ status' = "quit"
    /\ UNCHANGED <<name, r, flags, cr, sr, ce, pc, ram>>
    /\ UNCHANGED <<debugger, breakpoints, memory_view_address, phase, cycles, commands, calls, over>>

Prompt ==
    \/ StepCommand
    \/ ContinueCommand
    \/ \E n \in CycleCounts : CyclesCommand(n)
    \/ \E arg \in Arguments : BreakCommand(ParseAddress(arg))
    \/ \E arg \in Arguments : RunToCommand(ParseAddress(arg))
    \/ StepOverCommand
    \/ \E arg \in Arguments : ViewCommand(ParseAddress(arg))
    \/ OtherCommand
    \/ FailingCommand
    \/ \E c \in Causes : InterruptCommand(c)
    \/ \E size \in StoreSizes, arg \in Arguments, v \in StoreValues :
          StoreCommand(size, ParseAddress(arg), v)
    \/ QuitCommand

ENext == EnterLoop \/ MainStep \/ Cycle \/ Prompt \/ Sigint

(* The loop goes on; nobody has to type a command. *)
ESpec == EInit /\ [][ENext]_evars /\ WF_evars(EnterLoop) /\ WF_evars(MainStep) /\ WF_evars(Cycle)

--------------------------------------------------------------------------------
(* The debugger's state. *)
ETypeOK ==
    /\ debugger \in BOOLEAN
    /\ DOMAIN breakpoints \subseteq Word
    /\ \A a \in DOMAIN breakpoints : breakpoints[a] \in BOOLEAN
    /\ memory_view_address \in Word
    /\ phase \in {"loop", "prompt", "cycles", "step"}
    /\ phase \in {"prompt", "cycles"} => debugger
    /\ phase = "step" => ~debugger
    /\ cycles \in Nat /\ (phase = "cycles" <=> cycles > 0)
    /\ commands \in 0 .. MaxCommands

(* About to stop: main's loop has not noticed the breakpoint yet. *)
Hit == /\ phase = "loop" /\ ~debugger /\ pc \in DOMAIN breakpoints
       /\ status \in {"running", "quit"}

Stopped == debugger \/ Hit
Points  == IF Hit /\ breakpoints[pc] THEN Without(breakpoints, pc) ELSE breakpoints

Control == INSTANCE RunControl WITH stopped <- Stopped, points <- Points

(* The loop, which checks for breakpoints before each step, stops as if     *)
(* the check were part of the step before: no breakpoint is ever run over,  *)
(* the instruction resumed at is not a hit, one-shot breakpoints vanish     *)
(* with their stop, and a machine that runs keeps running.                  *)
BehavesAsRunControl == Control!RSpec

(* A program that returns where it was called from: r3 holds the link of    *)
(* the latest call when a br goes through it, whatever the debugger did to  *)
(* registers and memory in between.                                         *)
ReturnsGoBack ==
    status = "running" =>
        \A f \in Fetched :
            Taken(f[1]) /\ ~f[1].link /\ f[1].to = <<"reg", 3>> /\ calls # <<>> =>
                r[3] = calls[Len(calls)]

(* so on a call, in any slot but a pair, stops before the caller executes   *)
(* anything behind the call: while it still runs, the call has not returned. *)
StepOverStopsBehindCall ==
    phase = "step" /\ over.on /\ over.stepped => Len(calls) > over.depth
================================================================================
