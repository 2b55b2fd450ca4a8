------------------------------ MODULE OutputFile ------------------------------
(***************************************************************************)
(* One generated file over successive runs of the tool (utils.c,           *)
(* output.c).  A run writes a temporary file beside the target, then       *)
(* compares the two: the target is only touched when the output differs,   *)
(* so that make does not rebuild what has not changed.  A run may be       *)
(* killed at any step, and a write, a read, a removal or a renaming may    *)
(* fail, which nothing in the tool notices; a target that cannot be opened *)
(* is taken to be missing.                                                 *)
(*                                                                         *)
(* The temporary name is the same in every run: the buffer for             *)
(* "%s/%s.%d" has no room for the digits, so the name ends at the dot and  *)
(* a file left by a killed run is truncated by the next.                   *)
(***************************************************************************)
EXTENDS Integers, SequencesExt

CONSTANTS
  Outputs,     \* what the tool may have to write into the file
  Absent,      \* the file does not exist
  Chunk,       \* bytes compared at a time, 1024 in the code
  MaxRuns,     \* bound on the runs of the tool
  MaxFaults    \* bound on kills and on failed operations, together

Byte == UNION {ToSet(s) : s \in Outputs}

ASSUME OutputsAssumption == Outputs \subseteq Seq(Byte)
ASSUME AbsentAssumption == Absent \notin Seq(Byte)
ASSUME ChunkAssumption == Chunk \in Nat \ {0}
ASSUME BoundsAssumption == MaxRuns \in Nat /\ MaxFaults \in Nat

VARIABLES
  target, tmp,  \* contents of the two files, or Absent
  dryrun,       \* options->dryrun of this run
  new,          \* output of this run
  pos,          \* position in both files during the comparison
  failed,       \* operations on the files that failed in this run, unnoticed
  pc,           \* step of this run; "idle" before, "done" after
  runs, faults  \* used up of MaxRuns and MaxFaults

vars == <<target, tmp, dryrun, new, pos, failed, pc, runs, faults>>

FileOperation == {"write", "open", "read", "remove", "rename"}

-----------------------------------------------------------------------------
(* what fread returns of n bytes asked from position p on *)
Take(s, p, n) == SubSeq(s, p + 1, IF p + n < Len(s) THEN p + n ELSE Len(s))
Block(s, p) == Take(s, p, Chunk)

Init == /\ target \in Outputs \cup {Absent}
        /\ tmp = Absent
        /\ dryrun = FALSE
        /\ new \in Outputs
        /\ pos = 0
        /\ failed = {}
        /\ pc = "idle"
        /\ runs = 0 /\ faults = 0

(* mistake: a temporary file that is there already is not truncated *)
OpenAppending ==
  /\ pc \in {"idle", "done"} /\ runs < MaxRuns
  /\ runs' = runs + 1
  /\ new' \in Outputs
  /\ dryrun' \in BOOLEAN
  /\ tmp' = IF dryrun' \/ tmp # Absent THEN tmp ELSE <<>>
  /\ failed' = {}
  /\ pc' = "write"
  /\ UNCHANGED <<target, pos, faults>>

(* genb_fopen_tmp: mode "w+", on /dev/null in a dry run *)
Open == /\ pc \in {"idle", "done"} /\ runs < MaxRuns
        /\ runs' = runs + 1
        /\ new' \in Outputs
        /\ dryrun' \in BOOLEAN
        /\ tmp' = IF dryrun' THEN tmp ELSE <<>>
        /\ failed' = {}
        /\ pc' = "write"
        /\ UNCHANGED <<target, pos, faults>>

Fails(op) == /\ faults < MaxFaults /\ faults' = faults + 1
             /\ failed' = failed \cup {op}
Succeeds == UNCHANGED <<failed, faults>>

(* outputf and the like, a byte at a time: a kill may leave any prefix *)
Write == /\ pc = "write" /\ ~dryrun
         /\ Len(tmp) < Len(new) /\ "write" \notin failed
         /\ tmp' = Append(tmp, new[Len(tmp) + 1])
         /\ UNCHANGED <<target, dryrun, new, pos, failed, pc, runs, faults>>

(* a full disk, say: nothing more is written *)
WriteFails == /\ pc = "write" /\ ~dryrun
              /\ Len(tmp) < Len(new) /\ "write" \notin failed
              /\ Fails("write")
              /\ UNCHANGED <<target, tmp, dryrun, new, pos, pc, runs>>

(* genb_fclose_tmp in a dry run: nothing but the fclose *)
CloseDry == /\ pc = "write" /\ dryrun
            /\ pc' = "done"
            /\ UNCHANGED <<target, tmp, dryrun, new, pos, failed, runs, faults>>

(* genb_fclose_tmp opens the target to compare it; where fopen gives NULL,
   for whatever reason, it is replaced *)
Close == /\ pc = "write" /\ ~dryrun
         /\ Len(tmp) = Len(new) \/ "write" \in failed
         /\ pos' = 0
         /\ \/ target = Absent /\ pc' = "remove" /\ Succeeds
            \/ target # Absent /\ pc' = "compare" /\ Succeeds
            \/ target # Absent /\ pc' = "remove" /\ Fails("open")
         /\ UNCHANGED <<target, tmp, dryrun, new, runs>>

(* mistake: a whole block is asked of the temporary file *)
DiffersFull(p) == SubSeq(tmp \o [k \in 1 .. Chunk |-> Absent], p + 1, p + Chunk)
                    # Block(target, p)

(* mistake: only the first block is compared *)
DiffersFirst(p) == p = 0 /\ Take(tmp, p, Len(Block(target, p))) # Block(target, p)

(* the blocks at p differ: as many bytes are asked of the temporary file as
   the target gave, fewer or others are a difference *)
Differs(p) == Take(tmp, p, Len(Block(target, p))) # Block(target, p)

Compare == /\ pc = "compare" /\ Block(target, pos) # <<>>
           /\ IF Differs(pos)
              THEN pc' = "remove" /\ UNCHANGED pos
              ELSE pos' = pos + Len(Block(target, pos)) /\ UNCHANGED pc
           /\ UNCHANGED <<target, tmp, dryrun, new, failed, runs, faults>>

(* a failed read gives no bytes: of the temporary file this is a difference,
   of the target its end *)
ReadFails == /\ pc = "compare" /\ Block(target, pos) # <<>>
             /\ Fails("read")
             /\ pc' \in {"remove", "same"}
             /\ UNCHANGED <<target, tmp, dryrun, new, pos, runs>>

(* the end of the target is reached with no difference *)
CompareEnd == /\ pc = "compare" /\ Block(target, pos) = <<>>
              /\ pc' = "same"
              /\ UNCHANGED <<target, tmp, dryrun, new, pos, failed, runs, faults>>

(* "was the same kill temporary file" *)
Discard == /\ pc = "same"
           /\ \/ tmp' = Absent /\ Succeeds
              \/ UNCHANGED tmp /\ Fails("remove")
           /\ pc' = "done"
           /\ UNCHANGED <<target, dryrun, new, pos, runs>>

RemoveTarget == /\ pc = "remove"
                /\ \/ target' = Absent /\ Succeeds
                   \/ target # Absent /\ UNCHANGED target /\ Fails("remove")
                /\ pc' = "rename"
                /\ UNCHANGED <<tmp, dryrun, new, pos, runs>>

(* a target that could not be removed is replaced by rename itself *)
Rename == /\ pc = "rename"
          /\ \/ target' = tmp /\ tmp' = Absent /\ Succeeds
             \/ UNCHANGED <<target, tmp>> /\ Fails("rename")
          /\ pc' = "done"
          /\ UNCHANGED <<dryrun, new, pos, runs>>

(* the run is killed: the files stay as they are *)
Kill == /\ pc \notin {"idle", "done"}
        /\ faults < MaxFaults
        /\ faults' = faults + 1
        /\ pc' = "idle"
        /\ UNCHANGED <<target, tmp, dryrun, new, pos, failed, runs>>

Next == \/ Open \/ Write \/ WriteFails \/ CloseDry \/ Close
        \/ Compare \/ ReadFails \/ CompareEnd \/ Discard \/ RemoveTarget \/ Rename
        \/ Kill

Spec == Init /\ [][Next]_vars

-----------------------------------------------------------------------------
(* The files hold bytes of outputs and the comparison stays in the target. *)
TypeOK == /\ target \in Seq(Byte) \cup {Absent}
          /\ tmp \in Seq(Byte) \cup {Absent}
          /\ dryrun \in BOOLEAN /\ failed \subseteq FileOperation
          /\ new \in Outputs
          /\ pc \in {"idle", "write", "compare", "same", "remove", "rename", "done"}
          /\ pc = "compare" => pos \in 0 .. Len(target)
          /\ runs \in 0 .. MaxRuns /\ faults \in 0 .. MaxFaults

(* A target that already holds the output of the run is never touched, at
   any block size and whatever a killed run left in the temporary file,
   unless it cannot be told that it does. *)
UntouchedWhenSame ==
  [][target = new /\ failed \cap {"write", "open", "read"} = {} => target' = target]_vars

(* The target goes only when its successor is complete beside it, and what
   comes into its place is the whole output of the run, whatever kills came
   before; the code notices no failed write, so these are excepted. *)
ReplacedWhole ==
  [][target' # target =>
       /\ target' = Absent => tmp = new \/ "write" \in failed
       /\ target' # Absent => /\ target = Absent \/ "remove" \in failed
                              /\ target' = new \/ "write" \in failed]_vars

(* what keeps the output of a run from the target *)
Delivered == failed \cap {"write", "read", "rename"} = {}

(* "file is opened for reading/writing with a temporary suffix allowing for
   the matching close call to check the output is different before touching
   the target file" (utils.h:28-30): after a run, the target is its output. *)
UpToDate == pc = "done" /\ ~dryrun /\ Delivered => target = new

(* What the comparison does give: the loop runs to the end of the old target
   and never asks whether the temporary file goes on, so that the target of
   a finished run is its output or else a proper prefix of it, whatever an
   earlier run left behind, truncated or not in its place. *)
UpToDateUnlessPrefix ==
  pc = "done" /\ ~dryrun /\ Delivered => target = new \/ IsStrictPrefix(target, new)

(* A finished run leaves no temporary file, not even one it found. *)
NoTmpLeft == pc = "done" /\ ~dryrun /\ failed \cap {"remove", "rename"} = {} => tmp = Absent

=============================================================================
