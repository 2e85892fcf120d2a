----------------------------------- MODULE Boot ----------------------------------
(***************************************************************************)
(* Loading the firmware (src/source/main.cpp, createFileMemoryRegion): the *)
(* size of the file is asked for first, then as many bytes are read.  The  *)
(* file is others' too and may be replaced meanwhile.                      *)
(***************************************************************************)
EXTENDS Integers, Sequences

CONSTANTS Size,                  \* bytes of the region, 2^24
          Behind,                \* bytes behind it that an overrun may reach
          Offset,                \* where in the region the file goes
          Bytes,
          Files,                 \* contents the file may have
          MaxChanges

Unknown == -1                    \* ftell of what cannot be sought, as size_t the largest

ASSUME BootAssumption ==
    /\ Size \in Nat /\ Behind \in Nat /\ Offset \in 0 .. Size
    /\ 0 \in Bytes
    /\ Files \subseteq Seq(Bytes)
    /\ \A f \in Files : Offset + Len(f) <= Size + Behind
    /\ MaxChanges \in Nat

VARIABLES file, seekable,
          fileSize,              \* what ftell said
          position,              \* bytes read
          memory,
          at,                    \* where the function is
          warned,
          changes                \* history: how often the file was replaced
bootvars == <<file, seekable, fileSize, position, memory, at, warned, changes>>

BootInit ==
    /\ file \in Files
    /\ seekable \in BOOLEAN
    /\ fileSize = 0 /\ position = 0
    /\ memory = [a \in 0 .. (Size + Behind - 1) |-> 0]
    /\ at = "open"
    /\ warned = FALSE
    /\ changes = 0

(* fopen; if it fails the process exits. *)
Open ==
    /\ at = "open"
    /\ at' \in {"exited", "measure"}
    /\ UNCHANGED <<file, seekable, fileSize, position, memory, warned, changes>>

(* fseek, ftell, fseek *)
Measure ==
    /\ at = "measure"
    /\ fileSize' = IF seekable THEN Len(file) ELSE Unknown
    /\ at' = "read"
    /\ UNCHANGED <<file, seekable, position, memory, warned, changes>>

(* Mutation: the bytes go one place further. *)
PlaceFurther(n) == Offset + n + 1

Place(n) == Offset + n

(* Mutation: the file is read to its end. *)
MoreToEnd == position < Len(file)

More == position # fileSize /\ position < Len(file)

(* A byte of fread: as many as were asked for, or as there are. *)
ReadByte ==
    /\ at = "read" /\ More
    /\ memory' = [memory EXCEPT ![Place(position)] = file[position + 1]]
    /\ position' = position + 1
    /\ UNCHANGED <<file, seekable, fileSize, at, warned, changes>>

(* Mutation: the result of fread is not looked at. *)
FinishSilently ==
    /\ at = "read" /\ ~More
    /\ at' = "running"
    /\ UNCHANGED <<file, seekable, fileSize, position, memory, warned, changes>>

(* Mutation: fread is called until it has the whole size. *)
FinishWhole ==
    /\ at = "read" /\ position = fileSize
    /\ at' = "running"
    /\ UNCHANGED <<file, seekable, fileSize, position, memory, warned, changes>>

(* fread returns; another number of bytes than asked for only warns. *)
Finish ==
    /\ at = "read" /\ ~More
    /\ warned' = (position # fileSize)
    /\ at' = "running"
    /\ UNCHANGED <<file, seekable, fileSize, position, memory, changes>>

(* Somebody replaces the contents of the open file. *)
Change ==
    /\ at \in {"measure", "read"} /\ changes < MaxChanges
    /\ file' \in Files \ {file}
    /\ changes' = changes + 1
    /\ UNCHANGED <<seekable, fileSize, position, memory, at, warned>>

Load == Open \/ Measure \/ ReadByte \/ Finish

BootNext == Load \/ Change

BootSpec == BootInit /\ [][BootNext]_bootvars /\ WF_bootvars(Load)

--------------------------------------------------------------------------------
(* The types of the loader's state. *)
BootTypeOK ==
    /\ file \in Files /\ seekable \in BOOLEAN
    /\ fileSize \in Nat \cup {Unknown}
    /\ position \in 0 .. (IF fileSize = Unknown THEN Size + Behind ELSE fileSize)
    /\ memory \in [0 .. (Size + Behind - 1) -> Bytes]
    /\ at \in {"open", "measure", "read", "running", "exited"}
    /\ warned \in BOOLEAN /\ changes \in 0 .. MaxChanges


(* When the emulator runs and nothing was warned of, the firmware is the    *)
(* whole file if nobody touched it, and its size whatever else happened;    *)
(* the rest of the region is clear.                                         *)
SilentMeansWhole ==
    at = "running" /\ ~warned =>
        /\ position = fileSize
        /\ changes = 0 =>
              \A a \in 0 .. (Size - 1) :
                  memory[a] = IF a - Offset \in 0 .. (Len(file) - 1)
                              THEN file[a - Offset + 1] ELSE 0

(* Only a file that was too large when it was measured, or that could not   *)
(* be, is read past the end of the region; one that grows meanwhile is not. *)
OverrunWasMeasured ==
    (\E a \in Size .. (Size + Behind - 1) : memory[a] # 0) =>
        Offset + fileSize > Size \/ fileSize = Unknown

(* Loading ends, in a running emulator or without a file, although the file *)
(* may become shorter than it was when measured.                            *)
Boots == <>(at \in {"running", "exited"})
================================================================================
