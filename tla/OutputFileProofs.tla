--------------------------- MODULE OutputFileProofs ---------------------------
(***************************************************************************)
(* What utils.c does to a target holds for every set of outputs, every     *)
(* block size, and any number of runs, kills and failed operations.        *)
(*                                                                         *)
(* The argument follows a run: while it writes, the temporary file is the  *)
(* output as far as written; while it compares, the two files agree up to  *)
(* the position reached; and a target is only removed because it is not    *)
(* there, because it differs or because it could not be read.  Between     *)
(* runs nothing is claimed of either file: a killed run may leave any      *)
(* prefix.                                                                 *)
(***************************************************************************)
EXTENDS OutputFile, SequenceTheorems, TLAPS

(* the files agree in the first n bytes, and the temporary file has them *)
Agree(n) == n <= Len(tmp) /\ \A k \in 1 .. n : tmp[k] = target[k]

WriteInv ==
  pc = "write" /\ ~dryrun =>
    /\ tmp \in Seq(Byte)
    /\ Len(tmp) <= Len(new)
    /\ \A k \in 1 .. Len(tmp) : tmp[k] = new[k]

CloseInv ==
  pc \in {"compare", "same", "remove", "rename"} =>
    /\ ~dryrun
    /\ tmp \in Seq(Byte)
    /\ tmp = new \/ "write" \in failed

CompareInv ==
  /\ pc = "compare" => target \in Seq(Byte) /\ pos \in 0 .. Len(target) /\ Agree(pos)
  /\ pc = "same" => \/ target = tmp \/ IsStrictPrefix(target, tmp)
                    \/ "read" \in failed
  /\ pc = "remove" => \/ target = Absent \/ target # tmp
                      \/ failed \cap {"open", "read"} # {}
  /\ pc = "rename" => \/ target = Absent
                      \/ "remove" \in failed /\ target # tmp
                      \/ "remove" \in failed /\ failed \cap {"open", "read"} # {}

DoneInv ==
  pc = "done" /\ ~dryrun =>
    /\ tmp = Absent \/ failed \cap {"remove", "rename"} # {}
    /\ Delivered => target = new \/ IsStrictPrefix(target, new)

IInv == TypeOK /\ WriteInv /\ CloseInv /\ CompareInv /\ DoneInv

-----------------------------------------------------------------------------
(* A block holds the bytes of a file from a position on, and is empty only
   at the end of the file. *)
LEMMA TakeFacts ==
  ASSUME NEW s \in Seq(Byte), NEW p \in 0 .. Len(s), NEW n \in Nat
  PROVE  /\ Take(s, p, n) \in Seq(Byte)
         /\ Len(Take(s, p, n)) = IF p + n < Len(s) THEN n ELSE Len(s) - p
         /\ \A k \in 1 .. Len(Take(s, p, n)) : Take(s, p, n)[k] = s[p + k]
<1> DEFINE m == IF p + n < Len(s) THEN p + n ELSE Len(s)
<1>1. Len(s) \in Nat /\ p \in Nat /\ p <= Len(s)
  OBVIOUS
<1>2. m \in Int /\ p + 1 \in Int /\ p <= m /\ m <= Len(s)
  BY <1>1
<1>3. \A k \in p + 1 .. m : s[k] \in Byte
  BY <1>1, <1>2, ElementOfSeq
<1>4. /\ SubSeq(s, p + 1, m) \in Seq(Byte)
      /\ Len(SubSeq(s, p + 1, m)) = IF p + 1 <= m THEN m - (p + 1) + 1 ELSE 0
      /\ \A k \in 1 .. m - (p + 1) + 1 : SubSeq(s, p + 1, m)[k] = s[p + 1 + k - 1]
  BY <1>2, <1>3, SubSeqProperties
<1>5. Len(SubSeq(s, p + 1, m)) = m - p
  BY <1>2, <1>4
<1>6. QED
  BY <1>1, <1>2, <1>4, <1>5 DEF Take

(* Agreement extends over a block found equal. *)
LEMMA SameBlockAgrees ==
  ASSUME target \in Seq(Byte), tmp \in Seq(Byte), pos \in 0 .. Len(target),
         Agree(pos), Block(target, pos) # <<>>, ~Differs(pos)
  PROVE  /\ pos + Len(Block(target, pos)) \in 0 .. Len(target)
         /\ Agree(pos + Len(Block(target, pos)))
<1> DEFINE b == Block(target, pos)
           n == Len(b)
<1>1. /\ Chunk \in Nat /\ Len(target) \in Nat /\ Len(tmp) \in Nat
      /\ pos \in Nat /\ pos <= Len(target) /\ pos <= Len(tmp)
  BY ChunkAssumption DEF Agree
<1>2. /\ b \in Seq(Byte)
      /\ n = IF pos + Chunk < Len(target) THEN Chunk ELSE Len(target) - pos
      /\ \A k \in 1 .. n : b[k] = target[pos + k]
  BY <1>1, TakeFacts DEF Block
<1>3. n \in Nat /\ pos + n <= Len(target)
  BY <1>1, <1>2
<1>4. Take(tmp, pos, n) = b
  BY DEF Differs
<1>5. /\ n = IF pos + n < Len(tmp) THEN n ELSE Len(tmp) - pos
      /\ \A k \in 1 .. n : b[k] = tmp[pos + k]
  <2>1. pos \in 0 .. Len(tmp)
    BY <1>1
  <2> HIDE DEF b, n
  <2>2. /\ Len(Take(tmp, pos, n)) = IF pos + n < Len(tmp) THEN n ELSE Len(tmp) - pos
        /\ \A k \in 1 .. Len(Take(tmp, pos, n)) : Take(tmp, pos, n)[k] = tmp[pos + k]
    BY <1>3, <2>1, TakeFacts
  <2>3. QED
    BY <1>4, <2>2 DEF n
<1>6. pos + n <= Len(tmp)
  BY <1>1, <1>3, <1>5
<1>7. ASSUME NEW k \in 1 .. pos + n PROVE tmp[k] = target[k]
  <2>1. CASE k <= pos
    BY <1>1, <2>1 DEF Agree
  <2>2. CASE k > pos
    <3>1. k - pos \in 1 .. n /\ pos + (k - pos) = k
      BY <1>1, <1>3, <2>2
    <3>2. QED
      BY <1>2, <1>5, <3>1
  <2>3. QED
    BY <1>1, <1>3, <2>1, <2>2
<1>8. QED
  BY <1>1, <1>3, <1>6, <1>7 DEF Agree

(* Blocks that differ belong to files that differ. *)
LEMMA DiffersUnequal ==
  ASSUME target \in Seq(Byte), pos \in 0 .. Len(target), Differs(pos)
  PROVE  target # tmp
<1> SUFFICES ASSUME target = tmp PROVE FALSE
  OBVIOUS
<1> DEFINE b == Block(target, pos)
<1>1. Chunk \in Nat /\ Len(target) \in Nat /\ pos \in Nat /\ pos <= Len(target)
  BY ChunkAssumption
<1>2. /\ b \in Seq(Byte)
      /\ Len(b) = IF pos + Chunk < Len(target) THEN Chunk ELSE Len(target) - pos
      /\ \A k \in 1 .. Len(b) : b[k] = target[pos + k]
  BY <1>1, TakeFacts DEF Block
<1>3. Len(b) \in Nat
  BY <1>1, <1>2
<1> DEFINE c == Take(target, pos, Len(b))
<1>4. /\ c \in Seq(Byte)
      /\ Len(c) = IF pos + Len(b) < Len(target) THEN Len(b) ELSE Len(target) - pos
      /\ \A k \in 1 .. Len(c) : c[k] = target[pos + k]
  BY <1>3, TakeFacts
<1>5. Len(c) = Len(b)
  BY <1>1, <1>2, <1>4
<1> HIDE DEF b, c
<1>6. c = b
  BY <1>2, <1>4, <1>5, SeqEqual
<1>7. QED
  BY <1>6 DEF Differs, b, c

(* At the end of the target, with agreement up to it, the target is the
   temporary file or the beginning of it. *)
LEMMA AgreeToTheEnd ==
  ASSUME target \in Seq(Byte), tmp \in Seq(Byte), pos \in 0 .. Len(target),
         Agree(pos), Block(target, pos) = <<>>
  PROVE  target = tmp \/ IsStrictPrefix(target, tmp)
<1>1. /\ Chunk \in Nat \ {0} /\ Len(target) \in Nat /\ Len(tmp) \in Nat
      /\ pos \in Nat /\ pos <= Len(target)
  BY ChunkAssumption
<1>2. Len(Block(target, pos)) =
        IF pos + Chunk < Len(target) THEN Chunk ELSE Len(target) - pos
  BY <1>1, TakeFacts DEF Block
<1>3. pos = Len(target)
  <2>1. Len(Block(target, pos)) = 0
    OBVIOUS
  <2>2. QED
    BY <1>1, <1>2, <2>1
<1>4. Len(target) <= Len(tmp) /\ \A k \in 1 .. Len(target) : tmp[k] = target[k]
  BY <1>3 DEF Agree
<1>5. SubSeq(target, 1, Len(target)) = SubSeq(tmp, 1, Len(target))
  <2> DEFINE u == SubSeq(target, 1, Len(target))
             v == SubSeq(tmp, 1, Len(target))
  <2>1. \A k \in 1 .. Len(target) : target[k] \in Byte /\ tmp[k] \in Byte
    BY <1>1, <1>4, ElementOfSeq
  <2>2. /\ u \in Seq(Byte)
        /\ Len(u) = IF 1 <= Len(target) THEN Len(target) - 1 + 1 ELSE 0
        /\ \A k \in 1 .. Len(target) - 1 + 1 : u[k] = target[1 + k - 1]
    BY <1>1, <2>1, SubSeqProperties
  <2>3. /\ v \in Seq(Byte)
        /\ Len(v) = IF 1 <= Len(target) THEN Len(target) - 1 + 1 ELSE 0
        /\ \A k \in 1 .. Len(target) - 1 + 1 : v[k] = tmp[1 + k - 1]
    BY <1>1, <2>1, SubSeqProperties
  <2>4. Len(u) = Len(target) /\ Len(v) = Len(target)
    BY <1>1, <2>2, <2>3
  <2>5. ASSUME NEW k \in 1 .. Len(target) PROVE u[k] = v[k]
    BY <1>1, <1>4, <2>2, <2>3
  <2> HIDE DEF u, v
  <2>6. QED
    BY <2>2, <2>3, <2>4, <2>5, SeqEqual DEF u, v
<1>6. QED
  BY <1>4, <1>5 DEF IsStrictPrefix, IsPrefix

-----------------------------------------------------------------------------
(* The steps, one lemma each.                                              *)

(* Contents of files are sequences of bytes, Absent is not. *)
LEMMA OutputType == ASSUME NEW s \in Outputs PROVE s \in Seq(Byte) /\ s # Absent
BY OutputsAssumption, AbsentAssumption

LEMMA InitInv == Init => IInv
<1> SUFFICES ASSUME Init PROVE IInv
  OBVIOUS
<1>1. TypeOK
  <2>1. target \in Seq(Byte) \cup {Absent}
    BY OutputType DEF Init
  <2>2. 0 \in 0 .. MaxRuns /\ 0 \in 0 .. MaxFaults
    BY BoundsAssumption
  <2>3. QED
    BY <2>1, <2>2 DEF Init, TypeOK
<1>2. QED
  BY <1>1 DEF Init, IInv, WriteInv, CloseInv, CompareInv, DoneInv

(* A run begins with an empty temporary file, unless it is a dry run. *)
LEMMA OpenKeepsInv == IInv /\ Open => IInv'
<1> SUFFICES ASSUME IInv, Open PROVE IInv'
  OBVIOUS
<1>1. /\ runs < MaxRuns /\ runs' = runs + 1
      /\ new' \in Outputs /\ dryrun' \in BOOLEAN
      /\ tmp' = IF dryrun' THEN tmp ELSE <<>>
      /\ failed' = {} /\ pc' = "write"
      /\ UNCHANGED <<target, pos, faults>>
  BY DEF Open
<1>2. TypeOK'
  <2>1. tmp' \in Seq(Byte) \cup {Absent}
    BY <1>1, EmptySeq DEF IInv, TypeOK
  <2>2. runs' \in 0 .. MaxRuns
    BY <1>1, BoundsAssumption DEF IInv, TypeOK
  <2>3. QED
    BY <1>1, <2>1, <2>2 DEF IInv, TypeOK
<1>3. WriteInv'
  <2> SUFFICES ASSUME ~dryrun'
               PROVE  /\ tmp' \in Seq(Byte)
                      /\ Len(tmp') <= Len(new')
                      /\ \A k \in 1 .. Len(tmp') : tmp'[k] = new'[k]
    BY DEF WriteInv
  <2>1. tmp' = <<>> /\ tmp' \in Seq(Byte) /\ Len(tmp') = 0
    BY <1>1, EmptySeq
  <2>2. Len(new') \in Nat
    BY <1>1, OutputType, LenProperties
  <2>3. QED
    BY <2>1, <2>2
<1>4. QED
  BY <1>1, <1>2, <1>3 DEF IInv, CloseInv, CompareInv, DoneInv

(* One byte more of the output. *)
LEMMA WriteKeepsInv == IInv /\ Write => IInv'
<1> SUFFICES ASSUME IInv, Write PROVE IInv'
  OBVIOUS
<1>1. /\ pc = "write" /\ ~dryrun /\ Len(tmp) < Len(new)
      /\ tmp' = Append(tmp, new[Len(tmp) + 1])
      /\ UNCHANGED <<target, dryrun, new, pos, failed, pc, runs, faults>>
  BY DEF Write
<1>2. /\ tmp \in Seq(Byte) /\ new \in Seq(Byte)
      /\ \A k \in 1 .. Len(tmp) : tmp[k] = new[k]
  BY <1>1, OutputType DEF IInv, WriteInv, TypeOK
<1>3. Len(tmp) \in Nat /\ Len(new) \in Nat
  BY <1>2
<1>4. new[Len(tmp) + 1] \in Byte
  BY <1>1, <1>2, <1>3, ElementOfSeq
<1>5. /\ tmp' \in Seq(Byte)
      /\ Len(tmp') = Len(tmp) + 1
      /\ \A k \in 1 .. Len(tmp') : tmp'[k] = new[k]
  BY <1>1, <1>2, <1>3, <1>4
<1>6. TypeOK' /\ WriteInv'
  BY <1>1, <1>3, <1>5 DEF IInv, TypeOK, WriteInv
<1>7. QED
  BY <1>1, <1>6 DEF IInv, CloseInv, CompareInv, DoneInv

(* A failure is counted and remembered, by the model and not by the code. *)
LEMMA FailsCounted ==
  ASSUME TypeOK, NEW op \in FileOperation, Fails(op)
  PROVE  /\ failed' = failed \cup {op} /\ failed' \subseteq FileOperation
         /\ faults' \in 0 .. MaxFaults
BY BoundsAssumption DEF TypeOK, Fails

(* After a failed write the temporary file is what was written before. *)
LEMMA WriteFailsKeepsInv == IInv /\ WriteFails => IInv'
<1> SUFFICES ASSUME IInv, WriteFails PROVE IInv'
  OBVIOUS
<1>1. /\ pc = "write" /\ failed' = failed \cup {"write"} /\ faults' \in 0 .. MaxFaults
      /\ UNCHANGED <<target, tmp, dryrun, new, pos, pc, runs>>
  <2>1. "write" \in FileOperation
    BY DEF FileOperation
  <2>2. QED
    BY <2>1, FailsCounted DEF WriteFails, IInv
<1>2. TypeOK'
  BY <1>1 DEF IInv, TypeOK, FileOperation
<1>3. QED
  BY <1>1, <1>2 DEF IInv, WriteInv, CloseInv, CompareInv, DoneInv

LEMMA CloseDryKeepsInv == IInv /\ CloseDry => IInv'
BY DEF IInv, TypeOK, WriteInv, CloseInv, CompareInv, DoneInv, CloseDry

(* What was written is the whole output unless a write failed; the
   comparison starts with nothing compared. *)
LEMMA CloseKeepsInv == IInv /\ Close => IInv'
<1> SUFFICES ASSUME IInv, Close PROVE IInv'
  OBVIOUS
<1>1. /\ pc = "write" /\ ~dryrun /\ (Len(tmp) = Len(new) \/ "write" \in failed) /\ pos' = 0
      /\ UNCHANGED <<target, tmp, dryrun, new, runs>>
  BY DEF Close
<1>a. /\ failed' \subseteq FileOperation /\ faults' \in 0 .. MaxFaults
      /\ failed \subseteq failed'
      /\ \/ target = Absent /\ pc' = "remove"
         \/ target # Absent /\ pc' = "compare"
         \/ target # Absent /\ pc' = "remove" /\ "open" \in failed'
  <2>1. CASE target = Absent /\ pc' = "remove" /\ Succeeds
    BY <2>1 DEF IInv, TypeOK, Succeeds
  <2>2. CASE target # Absent /\ pc' = "compare" /\ Succeeds
    BY <2>2 DEF IInv, TypeOK, Succeeds
  <2>3. CASE target # Absent /\ pc' = "remove" /\ Fails("open")
    <3>1. "open" \in FileOperation
      BY DEF FileOperation
    <3>2. QED
      BY <2>3, <3>1, FailsCounted DEF IInv
  <2>4. QED
    BY <2>1, <2>2, <2>3 DEF Close
<1>2. /\ tmp \in Seq(Byte) /\ new \in Seq(Byte)
      /\ \A k \in 1 .. Len(tmp) : tmp[k] = new[k]
  BY <1>1, OutputType DEF IInv, WriteInv, TypeOK
<1>3. tmp = new \/ "write" \in failed
  BY <1>1, <1>2, SeqEqual
<1>4. target # Absent => target \in Seq(Byte) /\ Len(target) \in Nat
  BY DEF IInv, TypeOK
<1>5. Len(tmp) \in Nat
  BY <1>2
<1>6. TypeOK'
  BY <1>1, <1>a, <1>4 DEF IInv, TypeOK
<1>7. CompareInv'
  BY <1>1, <1>a, <1>4, <1>5 DEF CompareInv, Agree
<1>8. QED
  BY <1>1, <1>a, <1>2, <1>3, <1>6, <1>7 DEF IInv, WriteInv, CloseInv, DoneInv

(* A block found equal extends the agreement, another shows a difference. *)
LEMMA CompareKeepsInv == IInv /\ Compare => IInv'
<1> SUFFICES ASSUME IInv, Compare PROVE IInv'
  OBVIOUS
<1>1. /\ pc = "compare" /\ Block(target, pos) # <<>>
      /\ IF Differs(pos)
         THEN pc' = "remove" /\ UNCHANGED pos
         ELSE pos' = pos + Len(Block(target, pos)) /\ UNCHANGED pc
      /\ UNCHANGED <<target, tmp, dryrun, new, failed, runs, faults>>
  BY DEF Compare
<1>2. /\ target \in Seq(Byte) /\ tmp \in Seq(Byte)
      /\ pos \in 0 .. Len(target) /\ Agree(pos)
  BY <1>1 DEF IInv, CompareInv, CloseInv
<1>3. CASE Differs(pos)
  <2>1. target # tmp
    BY <1>2, <1>3, DiffersUnequal
  <2>2. QED
    BY <1>1, <1>3, <2>1 DEF IInv, TypeOK, WriteInv, CloseInv, CompareInv, DoneInv
<1>4. CASE ~Differs(pos)
  <2>1. /\ pos + Len(Block(target, pos)) \in 0 .. Len(target)
        /\ Agree(pos + Len(Block(target, pos)))
    BY <1>1, <1>2, <1>4, SameBlockAgrees
  <2>2. pos' \in 0 .. Len(target') /\ Agree(pos)'
    BY <1>1, <1>4, <2>1 DEF Agree
  <2>3. QED
    BY <1>1, <1>2, <1>4, <2>2 DEF IInv, TypeOK, WriteInv, CloseInv, CompareInv, DoneInv
<1>5. QED
  BY <1>3, <1>4

(* A read that fails takes the files to be equal or to differ. *)
LEMMA ReadFailsKeepsInv == IInv /\ ReadFails => IInv'
<1> SUFFICES ASSUME IInv, ReadFails PROVE IInv'
  OBVIOUS
<1>1. "read" \in FileOperation
  BY DEF FileOperation
<1>2. /\ pc = "compare" /\ pc' \in {"remove", "same"}
      /\ failed' = failed \cup {"read"} /\ failed' \subseteq FileOperation
      /\ faults' \in 0 .. MaxFaults
      /\ UNCHANGED <<target, tmp, dryrun, new, pos, runs>>
  BY <1>1, FailsCounted DEF ReadFails, IInv
<1>3. QED
  BY <1>2 DEF IInv, TypeOK, WriteInv, CloseInv, CompareInv, DoneInv

(* The end of the target without a difference. *)
LEMMA CompareEndKeepsInv == IInv /\ CompareEnd => IInv'
<1> SUFFICES ASSUME IInv, CompareEnd PROVE IInv'
  OBVIOUS
<1>1. /\ pc = "compare" /\ Block(target, pos) = <<>> /\ pc' = "same"
      /\ UNCHANGED <<target, tmp, dryrun, new, pos, failed, runs, faults>>
  BY DEF CompareEnd
<1>2. /\ target \in Seq(Byte) /\ tmp \in Seq(Byte)
      /\ pos \in 0 .. Len(target) /\ Agree(pos)
  BY <1>1 DEF IInv, CompareInv, CloseInv
<1>3. target = tmp \/ IsStrictPrefix(target, tmp)
  BY <1>1, <1>2, AgreeToTheEnd
<1>4. CompareInv'
  BY <1>1, <1>3 DEF CompareInv, IsStrictPrefix, IsPrefix
<1>5. QED
  BY <1>1, <1>4 DEF IInv, TypeOK, WriteInv, CloseInv, DoneInv

(* The temporary file goes, unless that fails. *)
LEMMA DiscardKeepsInv == IInv /\ Discard => IInv'
<1> SUFFICES ASSUME IInv, Discard PROVE IInv'
  OBVIOUS
<1>1. /\ pc = "same" /\ pc' = "done"
      /\ UNCHANGED <<target, dryrun, new, pos, runs>>
  BY DEF Discard
<1>2. /\ tmp' = Absent \/ (tmp' = tmp /\ "remove" \in failed')
      /\ failed \subseteq failed' /\ failed' \subseteq FileOperation
      /\ faults' \in 0 .. MaxFaults
  <2>1. CASE tmp' = Absent /\ Succeeds
    BY <2>1 DEF IInv, TypeOK, Succeeds
  <2>2. CASE UNCHANGED tmp /\ Fails("remove")
    <3>1. "remove" \in FileOperation
      BY DEF FileOperation
    <3>2. QED
      BY <2>2, <3>1, FailsCounted DEF IInv
  <2>3. QED
    BY <2>1, <2>2 DEF Discard
<1>3. /\ tmp = new \/ "write" \in failed
      /\ \/ target = tmp \/ IsStrictPrefix(target, tmp)
         \/ "read" \in failed
  BY <1>1 DEF IInv, CompareInv, CloseInv
<1>4. Delivered' => target = new \/ IsStrictPrefix(target, new)
  <2>1. Delivered' => "write" \notin failed /\ "read" \notin failed
    BY <1>2 DEF Delivered
  <2>2. QED
    BY <1>3, <2>1
<1>5. DoneInv'
  BY <1>1, <1>2, <1>4 DEF DoneInv, IsStrictPrefix, IsPrefix
<1>6. TypeOK'
  BY <1>1, <1>2 DEF IInv, TypeOK
<1>7. QED
  BY <1>1, <1>5, <1>6 DEF IInv, WriteInv, CloseInv, CompareInv

(* The target goes, unless that fails. *)
LEMMA RemoveTargetKeepsInv == IInv /\ RemoveTarget => IInv'
<1> SUFFICES ASSUME IInv, RemoveTarget PROVE IInv'
  OBVIOUS
<1>1. /\ pc = "remove" /\ pc' = "rename"
      /\ UNCHANGED <<tmp, dryrun, new, pos, runs>>
  BY DEF RemoveTarget
<1>2. /\ target' = Absent \/ (target' = target /\ target # Absent /\ "remove" \in failed')
      /\ failed \subseteq failed' /\ failed' \subseteq FileOperation
      /\ faults' \in 0 .. MaxFaults
  <2>1. CASE target' = Absent /\ Succeeds
    BY <2>1 DEF IInv, TypeOK, Succeeds
  <2>2. CASE target # Absent /\ UNCHANGED target /\ Fails("remove")
    <3>1. "remove" \in FileOperation
      BY DEF FileOperation
    <3>2. QED
      BY <2>2, <3>1, FailsCounted DEF IInv
  <2>3. QED
    BY <2>1, <2>2 DEF RemoveTarget
<1>3. TypeOK'
  BY <1>1, <1>2 DEF IInv, TypeOK
<1>4. CompareInv'
  BY <1>1, <1>2 DEF IInv, CompareInv
<1>5. CloseInv'
  BY <1>1, <1>2 DEF IInv, CloseInv
<1>6. QED
  BY <1>1, <1>3, <1>4, <1>5 DEF IInv, WriteInv, DoneInv

(* The output takes the place of the target, unless that fails. *)
LEMMA RenameKeepsInv == IInv /\ Rename => IInv'
<1> SUFFICES ASSUME IInv, Rename PROVE IInv'
  OBVIOUS
<1>1. /\ pc = "rename" /\ pc' = "done"
      /\ UNCHANGED <<dryrun, new, pos, runs>>
  BY DEF Rename
<1>2. tmp \in Seq(Byte) /\ (tmp = new \/ "write" \in failed)
  BY <1>1 DEF IInv, CloseInv
<1>3. /\ \/ target' = tmp /\ tmp' = Absent
         \/ UNCHANGED <<target, tmp>> /\ "rename" \in failed'
      /\ failed \subseteq failed' /\ failed' \subseteq FileOperation
      /\ faults' \in 0 .. MaxFaults
  <2>1. CASE target' = tmp /\ tmp' = Absent /\ Succeeds
    BY <2>1 DEF IInv, TypeOK, Succeeds
  <2>2. CASE UNCHANGED <<target, tmp>> /\ Fails("rename")
    <3>1. "rename" \in FileOperation
      BY DEF FileOperation
    <3>2. QED
      BY <2>2, <3>1, FailsCounted DEF IInv
  <2>3. QED
    BY <2>1, <2>2 DEF Rename
<1>4. TypeOK'
  BY <1>1, <1>2, <1>3 DEF IInv, TypeOK
<1>5. DoneInv'
  BY <1>1, <1>2, <1>3 DEF DoneInv, Delivered
<1>6. QED
  BY <1>1, <1>4, <1>5 DEF IInv, WriteInv, CloseInv, CompareInv

(* A kill leaves both files as they are, of which nothing is claimed. *)
LEMMA KillKeepsInv == IInv /\ Kill => IInv'
<1> SUFFICES ASSUME IInv, Kill PROVE IInv'
  OBVIOUS
<1>1. /\ faults < MaxFaults /\ faults' = faults + 1 /\ pc' = "idle"
      /\ UNCHANGED <<target, tmp, dryrun, new, pos, failed, runs>>
  BY DEF Kill
<1>2. TypeOK'
  BY <1>1, BoundsAssumption DEF IInv, TypeOK
<1>3. QED
  BY <1>1, <1>2 DEF IInv, WriteInv, CloseInv, CompareInv, DoneInv

-----------------------------------------------------------------------------
(* The inductive invariant: what the temporary file holds, how far the two
   files are known to agree, and what a finished run leaves. *)
THEOREM Invariant == Spec => []IInv
<1>1. IInv /\ [Next]_vars => IInv'
  <2> SUFFICES ASSUME IInv, [Next]_vars PROVE IInv'
    OBVIOUS
  <2>1. CASE UNCHANGED vars
    BY <2>1 DEF vars, IInv, TypeOK, WriteInv, CloseInv, CompareInv, Agree, DoneInv,
                Delivered, IsStrictPrefix, IsPrefix
  <2>2. CASE Next
    BY <2>2, OpenKeepsInv, WriteKeepsInv, WriteFailsKeepsInv, CloseDryKeepsInv,
       CloseKeepsInv, CompareKeepsInv, ReadFailsKeepsInv, CompareEndKeepsInv,
       DiscardKeepsInv, RemoveTargetKeepsInv, RenameKeepsInv, KillKeepsInv DEF Next
  <2>3. QED
    BY <2>1, <2>2
<1>2. QED
  BY InitInv, <1>1, PTL DEF Spec

(* The files hold bytes of outputs, and the comparison stays in the target. *)
THEOREM TypeCorrect == Spec => []TypeOK
BY Invariant, PTL DEF IInv

(* A finished run leaves a target that is its output or a proper prefix of
   it, at any block size and whatever happened before. *)
THEOREM TargetUpToDate == Spec => []UpToDateUnlessPrefix
<1>1. IInv => UpToDateUnlessPrefix
  BY DEF IInv, DoneInv, UpToDateUnlessPrefix
<1>2. QED
  BY <1>1, Invariant, PTL

(* A finished run leaves no temporary file that could be removed. *)
THEOREM TmpRemoved == Spec => []NoTmpLeft
<1>1. IInv => NoTmpLeft
  BY DEF IInv, DoneInv, NoTmpLeft
<1>2. QED
  BY <1>1, Invariant, PTL

(* A target that holds the output already is never touched, unless it cannot
   be told that it does. *)
THEOREM SameUntouched == Spec => UntouchedWhenSame
<1>1. IInv /\ [Next]_vars =>
        [target = new /\ failed \cap {"write", "open", "read"} = {} => target' = target]_vars
  <2> SUFFICES ASSUME IInv, Next, target = new, failed \cap {"write", "open", "read"} = {}
               PROVE  target' = target
    OBVIOUS
  <2>1. target # Absent /\ "write" \notin failed /\ failed \cap {"open", "read"} = {}
    BY OutputType DEF IInv, TypeOK
  <2>2. ~RemoveTarget
    BY <2>1 DEF IInv, CloseInv, CompareInv, RemoveTarget
  <2>3. ~Rename
    BY <2>1 DEF IInv, CloseInv, CompareInv, Rename
  <2>4. QED
    BY <2>2, <2>3 DEF Next, Open, Write, WriteFails, CloseDry, Close, Compare, ReadFails,
                      CompareEnd, Discard, Kill
<1>2. QED
  BY <1>1, Invariant, PTL DEF Spec, UntouchedWhenSame

(* A target only goes when its successor is complete, and only a complete
   output takes its place, failed writes excepted. *)
THEOREM WholeReplacement == Spec => ReplacedWhole
<1> DEFINE gone == target' = Absent => tmp = new \/ "write" \in failed
           come == target' # Absent => /\ target = Absent \/ "remove" \in failed
                                       /\ target' = new \/ "write" \in failed
<1>1. IInv /\ [Next]_vars => [target' # target => gone /\ come]_vars
  <2> SUFFICES ASSUME IInv, Next, target' # target PROVE gone /\ come
    OBVIOUS
  <2>1. RemoveTarget \/ Rename
    BY DEF Next, Open, Write, WriteFails, CloseDry, Close, Compare, ReadFails, CompareEnd,
           Discard, Kill
  <2>2. CASE RemoveTarget
    BY <2>2 DEF IInv, CloseInv, RemoveTarget
  <2>3. CASE Rename
    BY <2>3 DEF IInv, CloseInv, CompareInv, Rename
  <2>4. QED
    BY <2>1, <2>2, <2>3
<1>2. QED
  BY <1>1, Invariant, PTL DEF Spec, ReplacedWhole
=============================================================================
