---------------------------- MODULE ConcurrentOutput ----------------------------
(***************************************************************************)
(* Several runs of the tool over one output directory at the same time, as *)
(* a parallel make starts them, each generating the file of one name.      *)
(*                                                                         *)
(* genb_fpath_tmp means to put the process number at the end of the        *)
(* temporary name, but its buffer has no room for a digit: all runs open   *)
(* the same temporary file.  What they then share is not only a name.      *)
(* Opening it again truncates the file another run is writing, while each  *)
(* run goes on at its own position; a rename moves the file from under a   *)
(* run that still writes it, and the next open makes a new one.  So files  *)
(* are kept apart from the names that lead to them here.  OutputFile has   *)
(* the steps of a single run, its kills and failed writes.                 *)
(***************************************************************************)
EXTENDS Integers, SequencesExt

CONSTANTS
  Runs,     \* the runs of the tool
  Outputs,  \* what a run may have to write into the file
  Absent,   \* no file
  Chunk     \* bytes compared at a time, 1024 in the code

(* The files there may be: the target and the temporary file of earlier
   runs, and one that each run creates when it finds no temporary file. *)
Old == "old"
Left == "left"
File == Runs \cup {Old, Left}
Hole == 0   \* what a gap before written bytes reads as

Byte == UNION {ToSet(s) : s \in Outputs}

ASSUME ChunkAssumption == Chunk \in Nat \ {0}
ASSUME RunsAssumption == Runs # {}
ASSUME FilesAssumption == {Old, Left, Absent} \cap Runs = {} /\ Absent \notin {Old, Left}
ASSUME OutputsAssumption == Outputs \subseteq Seq(Byte)
(* the output is text: outputf writes what vsnprintf has formatted *)
ASSUME TextAssumption == Hole \notin Byte

VARIABLES
  data,         \* contents of each file
  target, tmp,  \* the file each of the two names leads to, or Absent
  out,          \* the output of each run
  own,          \* the temporary file a run has open
  other,        \* the target a run has open to compare with, or Absent
  wrote,        \* bytes a run has written
  pos,          \* bytes a run has compared
  fbuf,         \* block it has read of the target
  pc

vars == <<data, target, tmp, out, own, other, wrote, pos, fbuf, pc>>

-----------------------------------------------------------------------------
Take(s, p, n) == SubSeq(s, p + 1, IF p + n < Len(s) THEN p + n ELSE Len(s))

(* s with byte b written at position p *)
Put(s, p, b) == [k \in 1 .. (IF p < Len(s) THEN Len(s) ELSE p + 1) |->
                   IF k = p + 1 THEN b ELSE IF k <= Len(s) THEN s[k] ELSE Hole]

Transition(p, from, to) == pc[p] = from /\ pc' = [pc EXCEPT ![p] = to]

Init == /\ \E old, left \in Outputs :
             data = [f \in File |-> IF f = Old THEN old ELSE IF f = Left THEN left ELSE <<>>]
        /\ target \in {Old, Absent}
        /\ tmp \in {Left, Absent}
        /\ out \in [Runs -> Outputs]
        /\ own = [p \in Runs |-> Absent]
        /\ other = [p \in Runs |-> Absent]
        /\ wrote = [p \in Runs |-> 0]
        /\ pos = [p \in Runs |-> 0]
        /\ fbuf = [p \in Runs |-> <<>>]
        /\ pc = [p \in Runs |-> "idle"]

(* mistake: a file that is there is opened without being truncated *)
OpenUpdating(p) ==
  /\ Transition(p, "idle", "write")
  /\ own' = [own EXCEPT ![p] = IF tmp = Absent THEN p ELSE tmp]
  /\ tmp' = own'[p]
  /\ UNCHANGED <<data, target, out, other, wrote, pos, fbuf>>

(* genb_fopen_tmp: mode "w+" creates the file or truncates the one there *)
Open(p) ==
  /\ Transition(p, "idle", "write")
  /\ own' = [own EXCEPT ![p] = IF tmp = Absent THEN p ELSE tmp]
  /\ tmp' = own'[p]
  /\ data' = [data EXCEPT ![own'[p]] = <<>>]
  /\ UNCHANGED <<target, out, other, wrote, pos, fbuf>>

(* output reaches the file when the stream's buffer is flushed, at the latest
   by the rewind or fclose after the target has been opened *)
Write(p) ==
  /\ pc[p] \in {"write", "flush"} /\ wrote[p] < Len(out[p])
  /\ data' = [data EXCEPT ![own[p]] = Put(@, wrote[p], out[p][wrote[p] + 1])]
  /\ wrote' = [wrote EXCEPT ![p] = @ + 1]
  /\ UNCHANGED <<target, tmp, out, own, other, pos, fbuf, pc>>

(* genb_fclose_tmp opens the target for comparison *)
OpenTarget(p) ==
  /\ Transition(p, "write", "flush")
  /\ other' = [other EXCEPT ![p] = target]
  /\ UNCHANGED <<data, target, tmp, out, own, wrote, pos, fbuf>>

(* there was none: what is left is to move the temporary file *)
CloseNew(p) ==
  /\ wrote[p] = Len(out[p]) /\ other[p] = Absent
  /\ Transition(p, "flush", "remove")
  /\ UNCHANGED <<data, target, tmp, out, own, other, wrote, pos, fbuf>>

Rewind(p) ==
  /\ wrote[p] = Len(out[p]) /\ other[p] # Absent
  /\ Transition(p, "flush", "read")
  /\ UNCHANGED <<data, target, tmp, out, own, other, wrote, pos, fbuf>>

(* a block of the target is read; at its end there is nothing more to compare *)
ReadTarget(p) ==
  /\ pc[p] = "read"
  /\ LET block == Take(data[other[p]], pos[p], Chunk)
     IN  /\ Transition(p, "read", IF block = <<>> THEN "discard" ELSE "compare")
         /\ fbuf' = [fbuf EXCEPT ![p] = block]
  /\ UNCHANGED <<data, target, tmp, out, own, other, wrote, pos>>

(* as many bytes of the temporary file are read and compared *)
Compare(p) ==
  /\ pc[p] = "compare"
  /\ IF Take(data[own[p]], pos[p], Len(fbuf[p])) = fbuf[p]
     THEN Transition(p, "compare", "read") /\ pos' = [pos EXCEPT ![p] = @ + Len(fbuf[p])]
     ELSE Transition(p, "compare", "remove") /\ UNCHANGED pos
  /\ UNCHANGED <<data, target, tmp, out, own, other, wrote, fbuf>>

(* mistake: the temporary file is left where it is *)
DiscardNot(p) == /\ Transition(p, "discard", "done")
                 /\ UNCHANGED <<data, target, tmp, out, own, other, wrote, pos, fbuf>>

Discard(p) == /\ Transition(p, "discard", "done")
              /\ tmp' = Absent
              /\ UNCHANGED <<data, target, out, own, other, wrote, pos, fbuf>>

RemoveTarget(p) == /\ Transition(p, "remove", "rename")
                   /\ target' = Absent
                   /\ UNCHANGED <<data, tmp, out, own, other, wrote, pos, fbuf>>

(* with no temporary file the rename fails, and nothing looks at that *)
Rename(p) == /\ Transition(p, "rename", "done")
             /\ target' = IF tmp = Absent THEN target ELSE tmp
             /\ tmp' = Absent
             /\ UNCHANGED <<data, out, own, other, wrote, pos, fbuf>>

Next == \E p \in Runs : \/ Open(p) \/ Write(p) \/ OpenTarget(p)
                        \/ CloseNew(p) \/ Rewind(p) \/ ReadTarget(p) \/ Compare(p)
                        \/ Discard(p) \/ RemoveTarget(p) \/ Rename(p)

Spec == Init /\ [][Next]_vars

-----------------------------------------------------------------------------
AllDone == \A p \in Runs : pc[p] = "done"
Same(v) == \A p \in Runs : out[p] = v

(* However runs that generate the same file interleave, what is under its
   name when the last one ends is never a part of the output or a mixture of
   it with something older: it is the whole output, or nothing at all, or an
   old file that was taken for the same as it is one that the output goes on
   from (OutputFile). *)
NeverTorn ==
  \A v \in Outputs : AllDone /\ Same(v) =>
    \/ target = Absent
    \/ data[target] = v
    \/ target = Old /\ IsPrefix(data[Old], v)

(* No run leaves the temporary file to the next, whichever of them created,
   moved or removed it. *)
NoTmpLeft == AllDone => tmp = Absent

(* "file is opened for reading/writing with a temporary suffix allowing for
   the matching close call to check the output is different before touching
   the target file" (utils.h:28-30): if no run has different output, none
   touches the target. *)
UntouchedWhenSame ==
  [][target = Old /\ Same(data[Old]) => target' = Old]_vars

(* When the runs are over there is a target. *)
TargetThere == AllDone => target # Absent
=============================================================================
