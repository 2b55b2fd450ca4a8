------------------------ MODULE ConcurrentOutputProofs ------------------------
(***************************************************************************)
(* What is under a generated file's name when several runs over one        *)
(* directory have ended, for any number of runs, any outputs and any block *)
(* size.                                                                   *)
(*                                                                         *)
(* The argument is about the last run to open a file.  Opening truncates,  *)
(* so that from then on the file holds bytes of runs that were under way,  *)
(* each at its place, and all the bytes of the run that opened it last up  *)
(* to where that run is.  A file that has got the target's name is never   *)
(* opened for writing again.  The old target keeps its name only as long   *)
(* as every run that has compared itself with it has found no difference.  *)
(***************************************************************************)
EXTENDS ConcurrentOutput, SequenceTheorems, TLAPS

Cell == Byte \cup {Hole}
Scratch == Runs \cup {Left}
Steps == {"idle", "write", "flush", "read", "compare", "discard", "remove",
          "rename", "done"}
Opened(f) == \E q \in Runs : own[q] = f

TypeOK == /\ data \in [File -> Seq(Cell)]
          /\ data[Old] \in Seq(Byte)
          /\ target \in File \cup {Absent}
          /\ tmp \in Scratch \cup {Absent}
          /\ out \in [Runs -> Outputs]
          /\ own \in [Runs -> Scratch \cup {Absent}]
          /\ other \in [Runs -> File \cup {Absent}]
          /\ wrote \in [Runs -> Nat]
          /\ pos \in [Runs -> Nat]
          /\ fbuf \in [Runs -> Seq(Cell)]
          /\ pc \in [Runs -> Steps]

(* what a run has opened and written at each of its steps *)
RunOK(p) == /\ pc[p] = "idle" <=> own[p] = Absent
            /\ pc[p] = "idle" => wrote[p] = 0
            /\ wrote[p] <= Len(out[p])
            /\ pc[p] \notin {"idle", "write", "flush"} => wrote[p] = Len(out[p])
            /\ pc[p] \in {"idle", "write", "flush"} => pos[p] = 0
            /\ pc[p] \in {"read", "compare"} => other[p] # Absent

(* the names lead to files that a run has opened, or to what was there *)
NamesOK == /\ tmp = Absent \/ Opened(tmp) \/ \A p \in Runs : pc[p] = "idle"
           /\ target \in {Absent, Old} \/ Opened(target)
           /\ target = Old => \A p \in Runs : pc[p] # "rename"
           /\ tmp # Absent => \E p \in Runs : pc[p] # "done"

(* file f has the bytes of v in their places, and of its last opener q all
   that q has written *)
Holds(f, q, v) == /\ own[q] = f
                  /\ wrote[q] <= Len(data[f])
                  /\ \A k \in 1 .. wrote[q] : data[f][k] = v[k]

FileOK(f, v) == /\ Len(data[f]) <= Len(v)
                /\ \A k \in 1 .. Len(data[f]) : data[f][k] \in {v[k], Hole}
                /\ \E q \in Runs : Holds(f, q, v)

FilesOK(v) == \A f \in File : Opened(f) => FileOK(f, v)

(* the old target goes on like v for n bytes *)
Agree(n, v) == /\ n <= Len(data[Old]) /\ n <= Len(v)
               /\ \A k \in 1 .. n : data[Old][k] = v[k]

(* a run that compares itself with the old target has found them the same so
   far; as long as nobody has found a difference that target stays *)
OldOK(p, v) ==
  /\ other[p] = Old =>
       /\ Agree(pos[p], v)
       /\ pc[p] = "compare" => fbuf[p] = Take(data[Old], pos[p], Chunk)
       /\ pc[p] = "discard" => Agree(Len(data[Old]), v)
  /\ target = Old =>
       /\ pc[p] \notin {"idle", "write"} => other[p] = Old
       /\ pc[p] = "done" => Agree(Len(data[Old]), v)

SameOK(v) == Same(v) => FilesOK(v) /\ \A p \in Runs : OldOK(p, v)

IInv == /\ TypeOK
        /\ \A p \in Runs : RunOK(p)
        /\ NamesOK
        /\ \A v \in Outputs : SameOK(v)
-----------------------------------------------------------------------------
(* A block holds the bytes of a file from a position on, and is empty only
   at the end of the file. *)
LEMMA BlockFacts ==
  ASSUME NEW S, NEW s \in Seq(S), NEW p \in Nat, p <= Len(s), NEW n \in Nat
  PROVE  /\ Take(s, p, n) \in Seq(S)
         /\ Len(Take(s, p, n)) = IF p + n < Len(s) THEN n ELSE Len(s) - p
         /\ \A k \in 1 .. Len(Take(s, p, n)) : Take(s, p, n)[k] = s[p + k]
<1> DEFINE m == IF p + n < Len(s) THEN p + n ELSE Len(s)
<1>1. m \in Int /\ p + 1 \in Int /\ p <= m /\ m <= Len(s) /\ Len(s) \in Nat
  OBVIOUS
<1>2. \A k \in p + 1 .. m : s[k] \in S
  BY <1>1, ElementOfSeq
<1>3. /\ SubSeq(s, p + 1, m) \in Seq(S)
      /\ Len(SubSeq(s, p + 1, m)) = IF p + 1 <= m THEN m - (p + 1) + 1 ELSE 0
      /\ \A k \in 1 .. m - (p + 1) + 1 : SubSeq(s, p + 1, m)[k] = s[p + 1 + k - 1]
  BY <1>1, <1>2, SubSeqProperties
<1>4. Len(SubSeq(s, p + 1, m)) = m - p
  BY <1>1, <1>3
<1>5. Take(s, p, n) = SubSeq(s, p + 1, m)
  BY DEF Take
<1>6. QED
  BY <1>1, <1>3, <1>4, <1>5

(* What is read at or beyond the end, or from a file cut short under the
   reader, is as long as the file allows. *)
LEMMA BlockOfAny ==
  ASSUME NEW S, NEW s \in Seq(S), NEW p \in Nat, NEW n \in Nat
  PROVE  /\ Take(s, p, n) \in Seq(S)
         /\ Take(s, p, n) # <<>> => p + Len(Take(s, p, n)) <= Len(s)
<1>1. CASE p <= Len(s)
  <2>1. PICK t : t = Take(s, p, n)
    OBVIOUS
  <2>2. t \in Seq(S) /\ Len(t) = IF p + n < Len(s) THEN n ELSE Len(s) - p
    BY <1>1, <2>1, BlockFacts
  <2>3. p + Len(t) <= Len(s)
    BY <1>1, <2>2
  <2>4. QED
    BY <2>1, <2>2, <2>3
<1>2. CASE ~ (p <= Len(s))
  <2>1. p + 1 > Len(s) /\ Len(s) \in Nat
    BY <1>2
  <2>2. Take(s, p, n) = SubSeq(s, p + 1, Len(s))
    BY <2>1 DEF Take
  <2>3. SubSeq(s, p + 1, Len(s)) \in Seq(S) /\ Len(SubSeq(s, p + 1, Len(s))) = 0
    BY <2>1, SubSeqProperties
  <2>4. QED
    BY <2>2, <2>3, EmptySeq
<1>3. QED
  BY <1>1, <1>2

(* A write changes one byte, and a file that was shorter gets a gap. *)
LEMMA PutFacts ==
  ASSUME NEW s \in Seq(Cell), NEW p \in Nat, NEW b \in Cell
  PROVE  /\ Put(s, p, b) \in Seq(Cell)
         /\ Len(Put(s, p, b)) = IF p < Len(s) THEN Len(s) ELSE p + 1
         /\ Put(s, p, b)[p + 1] = b
         /\ \A k \in 1 .. Len(s) : k # p + 1 => Put(s, p, b)[k] = s[k]
         /\ \A k \in 1 .. p : k > Len(s) => Put(s, p, b)[k] = Hole
<1> DEFINE n == IF p < Len(s) THEN Len(s) ELSE p + 1
           B(k) == IF k = p + 1 THEN b ELSE IF k <= Len(s) THEN s[k] ELSE Hole
<1>1. n \in Nat /\ Len(s) \in Nat /\ Len(s) <= n /\ p + 1 <= n
  OBVIOUS
<1>2. \A k \in 1 .. n : B(k) \in Cell
  <2>1. \A k \in 1 .. Len(s) : s[k] \in Cell
    BY ElementOfSeq
  <2>2. Hole \in Cell
    BY DEF Cell
  <2>3. QED
    BY <1>1, <2>1, <2>2
<1>3. Put(s, p, b) = [k \in 1 .. n |-> B(k)]
  BY DEF Put
<1>4. [k \in 1 .. n |-> B(k)] \in Seq(Cell) /\ Len([k \in 1 .. n |-> B(k)]) = n
  BY <1>1, <1>2
<1>5. \A k \in 1 .. n : Put(s, p, b)[k] = B(k)
  BY <1>3
<1>6. QED
  BY <1>1, <1>3, <1>4, <1>5

(* A file that agrees with v to its end is a prefix of v. *)
LEMMA AgreeIsPrefix ==
  ASSUME NEW v \in Seq(Byte), data[Old] \in Seq(Byte), Agree(Len(data[Old]), v)
  PROVE  IsPrefix(data[Old], v)
<1>1. PICK s \in Seq(Byte) : s = data[Old]
  OBVIOUS
<1>2. PICK n \in Nat : n = Len(s)
  OBVIOUS
<1>3. n <= Len(v) /\ \A k \in 1 .. n : s[k] = v[k]
  BY <1>1, <1>2 DEF Agree
<1>4. (\A k \in 1 .. n : s[k] \in Byte) /\ (\A k \in 1 .. n : v[k] \in Byte)
  BY <1>2, <1>3, ElementOfSeq
<1>5. /\ SubSeq(s, 1, n) \in Seq(Byte)
      /\ Len(SubSeq(s, 1, n)) = IF 1 <= n THEN n - 1 + 1 ELSE 0
      /\ \A k \in 1 .. n - 1 + 1 : SubSeq(s, 1, n)[k] = s[1 + k - 1]
  BY <1>4, SubSeqProperties
<1>6. /\ SubSeq(v, 1, n) \in Seq(Byte)
      /\ Len(SubSeq(v, 1, n)) = IF 1 <= n THEN n - 1 + 1 ELSE 0
      /\ \A k \in 1 .. n - 1 + 1 : SubSeq(v, 1, n)[k] = v[1 + k - 1]
  BY <1>4, SubSeqProperties
<1>7. SubSeq(s, 1, n) = SubSeq(v, 1, n)
  <2>1. PICK x \in Seq(Byte) : x = SubSeq(s, 1, n)
    BY <1>5
  <2>2. PICK y \in Seq(Byte) : y = SubSeq(v, 1, n)
    BY <1>6
  <2>3. Len(x) = n /\ Len(y) = n
    BY <1>5, <1>6, <2>1, <2>2
  <2>4. \A k \in 1 .. n : x[k] = y[k]
    BY <1>3, <1>5, <1>6, <2>1, <2>2
  <2>5. x = y
    BY <2>3, <2>4, SeqEqual
  <2>6. QED
    BY <2>1, <2>2, <2>5
<1>8. QED
  BY <1>1, <1>2, <1>3, <1>7 DEF IsPrefix
-----------------------------------------------------------------------------
LEMMA NamesDiffer ==
  /\ Old \notin Scratch /\ Absent \notin File /\ Left \notin Runs
  /\ Scratch \subseteq File /\ Old \in File /\ Absent # Old /\ Absent \notin Scratch
  /\ Byte \subseteq Cell /\ Hole \in Cell
BY FilesAssumption, Zenon DEF File, Scratch, Cell, Old, Left

LEMMA InitInv == Init => IInv
<1> SUFFICES ASSUME Init PROVE IInv
  OBVIOUS
<1>1. PICK old \in Outputs, left \in Outputs :
        data = [f \in File |-> IF f = Old THEN old ELSE IF f = Left THEN left ELSE <<>>]
  BY DEF Init
<1>2. \A s \in Outputs : s \in Seq(Byte) /\ s \in Seq(Cell)
  <2>1. \A s \in Seq(Byte) : s \in Seq(Cell)
    BY SeqDef DEF Cell
  <2>2. QED
    BY <2>1, OutputsAssumption
<1>3. TypeOK
  <2>1. <<>> \in Seq(Cell)
    BY EmptySeq
  <2>2. data \in [File -> Seq(Cell)]
    BY <1>1, <1>2, <2>1
  <2>3. data[Old] \in Seq(Byte)
    BY <1>1, <1>2, NamesDiffer
  <2>4. /\ target \in File \cup {Absent} /\ tmp \in Scratch \cup {Absent}
        /\ out \in [Runs -> Outputs]
    BY NamesDiffer, Zenon DEF Init, Scratch
  <2>5. /\ own \in [Runs -> Scratch \cup {Absent}]
        /\ other \in [Runs -> File \cup {Absent}]
        /\ wrote \in [Runs -> Nat]
        /\ pos \in [Runs -> Nat]
        /\ fbuf \in [Runs -> Seq(Cell)]
        /\ pc \in [Runs -> Steps]
    BY <2>1 DEF Init, Steps
  <2>6. QED
    BY <2>2, <2>3, <2>4, <2>5 DEF TypeOK
<1>4. ASSUME NEW p \in Runs PROVE RunOK(p)
  <2>1. Len(out[p]) \in Nat
    BY <1>2, LenProperties DEF Init
  <2>2. QED
    BY <2>1 DEF Init, RunOK
<1>5. NamesOK
  <2>1. target \in {Absent, Old} /\ \A p \in Runs : pc[p] = "idle"
    BY DEF Init
  <2>2. \E p \in Runs : pc[p] # "done"
    BY <2>1, RunsAssumption
  <2>3. QED
    BY <2>1, <2>2 DEF NamesOK
<1>6. ASSUME NEW v \in Outputs PROVE SameOK(v)
  <2>1. \A p \in Runs : own[p] = Absent /\ other[p] = Absent /\ pc[p] = "idle"
    BY DEF Init
  <2>2. FilesOK(v)
    BY <2>1, NamesDiffer DEF FilesOK, Opened
  <2>3. \A p \in Runs : OldOK(p, v)
    BY <2>1, NamesDiffer DEF OldOK
  <2>4. QED
    BY <2>2, <2>3 DEF SameOK
<1>7. QED
  BY <1>3, <1>4, <1>5, <1>6 DEF IInv

(* the parts of the invariant, for the steps *)
LEMMA Parts ==
  ASSUME IInv
  PROVE  /\ TypeOK /\ NamesOK
         /\ \A p \in Runs : RunOK(p)
         /\ \A v \in Outputs : v \in Seq(Byte) /\ Len(v) \in Nat
         /\ \A v \in Outputs : Same(v) => FilesOK(v) /\ \A p \in Runs : OldOK(p, v)
<1>1. \A v \in Outputs : v \in Seq(Byte) /\ Len(v) \in Nat
  BY OutputsAssumption, LenProperties
<1>2. QED
  BY <1>1 DEF IInv, SameOK

LEMMA OpenKeepsInv ==
  ASSUME IInv, NEW p \in Runs, Open(p)
  PROVE  IInv'
<1> USE Parts, NamesDiffer
<1>1. PICK f \in Scratch : f = (IF tmp = Absent THEN p ELSE tmp)
  BY DEF TypeOK, Scratch
<1>2. /\ own' = [own EXCEPT ![p] = f]
      /\ tmp' = f
      /\ data' = [data EXCEPT ![f] = <<>>]
      /\ pc[p] = "idle" /\ pc' = [pc EXCEPT ![p] = "write"]
  <2>1. own' = [own EXCEPT ![p] = f] /\ p \in DOMAIN own
    BY <1>1 DEF Open, TypeOK
  <2>2. own'[p] = f
    BY <2>1
  <2>3. QED
    BY <2>1, <2>2 DEF Open, Transition
<1>3. UNCHANGED <<target, out, other, wrote, pos, fbuf>>
  BY DEF Open
<1>4. f # Old /\ f \in File
  BY <1>1
<1>5. TypeOK'
  <2>1. <<>> \in Seq(Cell)
    BY EmptySeq
  <2>2. data' \in [File -> Seq(Cell)] /\ data'[Old] = data[Old]
    BY <1>2, <1>4, <2>1 DEF TypeOK
  <2>3. own' \in [Runs -> Scratch \cup {Absent}] /\ pc' \in [Runs -> Steps]
    BY <1>2 DEF TypeOK, Steps
  <2>4. QED
    BY <1>2, <1>3, <2>2, <2>3 DEF TypeOK
<1>6. \A q \in Runs : RunOK(q)'
  BY <1>1, <1>2, <1>3 DEF RunOK, TypeOK
<1>7. Opened(f)' /\ \A g \in File : Opened(g) => Opened(g)'
  <2>1. own'[p] = f
    BY <1>2 DEF TypeOK
  <2>2. ASSUME NEW q \in Runs, own[q] # Absent PROVE own'[q] = own[q]
    BY <1>2, <2>2 DEF RunOK, TypeOK
  <2>3. \A g \in File : Opened(g) => Opened(g)'
    BY <2>2 DEF Opened
  <2>4. QED
    BY <2>1, <2>3 DEF Opened
<1>8. NamesOK'
  BY <1>2, <1>3, <1>7 DEF NamesOK, TypeOK
<1>9. ASSUME NEW v \in Outputs, Same(v)' PROVE FilesOK(v)' /\ \A q \in Runs : OldOK(q, v)'
  <2>1. FilesOK(v) /\ \A q \in Runs : OldOK(q, v)
    BY <1>3, <1>9 DEF Same
  <2>2. FileOK(f, v)'
    BY <1>2, <1>3, <1>4 DEF FileOK, Holds, TypeOK, RunOK
  <2>3. ASSUME NEW g \in File, g # f, Opened(g)' PROVE FileOK(g, v)'
    <3>1. data'[g] = data[g]
      BY <1>2, <2>3 DEF TypeOK
    <3>2. \A q \in Runs : own'[q] = g => own[q] = g
      BY <1>2, <2>3 DEF TypeOK
    <3>3. \A q \in Runs : own[q] = g => own'[q] = g
      BY <1>2, <2>3 DEF TypeOK, RunOK
    <3>4. QED
      BY <1>3, <2>1, <2>3, <3>1, <3>2, <3>3 DEF FilesOK, FileOK, Holds, Opened
  <2>4. data'[Old] = data[Old]
    BY <1>2, <1>4 DEF TypeOK
  <2>5. ASSUME NEW q \in Runs PROVE OldOK(q, v)'
    <3>1. pc'[q] = pc[q] \/ pc'[q] = "write"
      BY <1>2 DEF TypeOK
    <3>2. QED
      BY <1>3, <2>1, <2>4, <3>1 DEF OldOK, Agree
  <2>6. QED
    BY <2>2, <2>3, <2>5 DEF FilesOK
<1>10. QED
  BY <1>5, <1>6, <1>8, <1>9 DEF IInv, SameOK

LEMMA WriteKeepsInv ==
  ASSUME IInv, NEW p \in Runs, Write(p)
  PROVE  IInv'
<1> USE Parts, NamesDiffer
<1>1. PICK f \in Scratch : f = own[p]
  BY DEF TypeOK, RunOK, Write
<1>2. PICK n \in Nat : n = wrote[p]
  BY DEF TypeOK
<1>3. PICK b \in Byte : b = out[p][n + 1]
  <2>1. out[p] \in Seq(Byte) /\ n + 1 \in 1 .. Len(out[p])
    BY <1>2 DEF Write, TypeOK
  <2>2. QED
    BY <2>1, ElementOfSeq
<1>4. PICK s \in Seq(Cell) : s = data[f]
  BY DEF TypeOK
<1>5. PICK t : t = Put(s, n, b)
  OBVIOUS
<1>6. /\ t \in Seq(Cell)
      /\ Len(t) = IF n < Len(s) THEN Len(s) ELSE n + 1
      /\ t[n + 1] = b
      /\ \A k \in 1 .. Len(s) : k # n + 1 => t[k] = s[k]
      /\ \A k \in 1 .. n : k > Len(s) => t[k] = Hole
  <2>1. b \in Cell /\ n \in Nat /\ s \in Seq(Cell)
    BY DEF Cell
  <2>2. /\ Put(s, n, b) \in Seq(Cell)
        /\ Len(Put(s, n, b)) = IF n < Len(s) THEN Len(s) ELSE n + 1
        /\ Put(s, n, b)[n + 1] = b
        /\ \A k \in 1 .. Len(s) : k # n + 1 => Put(s, n, b)[k] = s[k]
        /\ \A k \in 1 .. n : k > Len(s) => Put(s, n, b)[k] = Hole
    BY ONLY <2>1, PutFacts
  <2>3. QED
    BY ONLY <1>5, <2>2
<1>7. /\ data' = [data EXCEPT ![f] = t]
      /\ wrote' = [wrote EXCEPT ![p] = n + 1]
      /\ pc[p] \in {"write", "flush"} /\ n < Len(out[p])
  BY <1>1, <1>2, <1>3, <1>4, <1>5 DEF Write, TypeOK
<1>8. UNCHANGED <<target, tmp, out, own, other, pos, fbuf, pc>>
  BY DEF Write
<1>9. f # Old /\ f \in File
  BY <1>1
<1>10. TypeOK'
  <2>1. data' \in [File -> Seq(Cell)] /\ data'[Old] = data[Old]
    BY <1>6, <1>7, <1>9 DEF TypeOK
  <2>2. wrote' \in [Runs -> Nat]
    BY <1>7 DEF TypeOK
  <2>3. QED
    BY <1>8, <2>1, <2>2 DEF TypeOK
<1>11. ASSUME NEW q \in Runs PROVE RunOK(q)'
  <2>1. wrote'[q] = IF q = p THEN n + 1 ELSE wrote[q]
    BY <1>7 DEF TypeOK
  <2>2. Len(out[p]) \in Nat
    BY DEF TypeOK
  <2>3. QED
    BY <1>7, <1>8, <2>1, <2>2 DEF RunOK
<1>12. NamesOK'
  BY <1>8 DEF NamesOK, Opened
<1>13. ASSUME NEW v \in Outputs, Same(v)' PROVE FilesOK(v)' /\ \A q \in Runs : OldOK(q, v)'
  <2>1. FilesOK(v) /\ (\A q \in Runs : OldOK(q, v)) /\ out[p] = v
    BY <1>8, <1>13 DEF Same
  <2>2. b = v[n + 1] /\ n < Len(v) /\ Len(v) \in Nat /\ Len(s) \in Nat
    BY <1>3, <1>7, <2>1
  <2>3. /\ Len(s) <= Len(v)
        /\ \A k \in 1 .. Len(s) : s[k] \in {v[k], Hole}
    BY <1>1, <1>4, <1>9, <2>1 DEF FilesOK, FileOK, Opened
  <2>4. /\ Len(t) <= Len(v)
        /\ \A k \in 1 .. Len(t) : t[k] \in {v[k], Hole}
    <3>1. Len(t) <= Len(v)
      BY <1>6, <2>2, <2>3
    <3>2. ASSUME NEW k \in 1 .. Len(t) PROVE t[k] \in {v[k], Hole}
      <4>1. k = n + 1 \/ (k \in 1 .. Len(s) /\ k # n + 1) \/ (k \in 1 .. n /\ k > Len(s))
        BY <1>6, <2>2
      <4>2. QED
        BY <1>6, <2>2, <2>3, <4>1
    <3>3. QED
      BY <3>1, <3>2
  <2>5. PICK q \in Runs : Holds(f, q, v)
    BY <1>1, <1>9, <2>1 DEF FilesOK, FileOK, Opened
  <2>6. /\ own[q] = f
        /\ wrote[q] \in Nat /\ wrote[q] <= Len(s)
        /\ \A k \in 1 .. wrote[q] : s[k] = v[k]
    BY <1>4, <2>5 DEF Holds, TypeOK
  <2>7. PICK w \in Nat : w = wrote'[q] /\ w = (IF q = p THEN n + 1 ELSE wrote[q])
    BY <1>7 DEF TypeOK
  <2>8. w <= Len(t) /\ \A k \in 1 .. w : t[k] = v[k]
    <3>1. w <= Len(t)
      BY <1>2, <1>6, <2>2, <2>6, <2>7
    <3>2. ASSUME NEW k \in 1 .. w PROVE t[k] = v[k]
      <4>1. k = n + 1 \/ (k # n + 1 /\ k \in 1 .. wrote[q] /\ k \in 1 .. Len(s))
        BY <1>2, <2>2, <2>6, <2>7
      <4>2. QED
        BY <1>6, <2>2, <2>6, <4>1
    <3>3. QED
      BY <3>1, <3>2
  <2>9. data'[f] = t /\ data'[Old] = data[Old] /\ \A g \in File : g # f => data'[g] = data[g]
    BY <1>7, <1>9 DEF TypeOK
  <2>10. Holds(f, q, v)'
    BY <1>8, <2>6, <2>7, <2>8, <2>9 DEF Holds
  <2>11. FileOK(f, v)'
    BY <2>4, <2>9, <2>10 DEF FileOK
  <2>12. ASSUME NEW g \in File, g # f, Opened(g)' PROVE FileOK(g, v)'
    <3>1. FileOK(g, v)
      BY <1>8, <2>1, <2>12 DEF FilesOK, Opened
    <3>2. data'[g] = data[g] /\ \A r \in Runs : own[r] = g => wrote'[r] = wrote[r]
      BY <1>1, <1>7, <2>9, <2>12 DEF TypeOK
    <3>3. QED
      BY <1>8, <3>1, <3>2 DEF FileOK, Holds
  <2>13. \A r \in Runs : OldOK(r, v)'
    BY <1>8, <2>1, <2>9 DEF OldOK, Agree
  <2>14. QED
    BY <2>11, <2>12, <2>13 DEF FilesOK
<1>14. QED
  BY <1>10, <1>11, <1>12, <1>13 DEF IInv, SameOK

(* the steps that leave the contents alone keep what files have *)
LEMMA FilesUnchanged ==
  ASSUME UNCHANGED <<data, out, own, wrote>>
  PROVE  /\ \A f : Opened(f)' <=> Opened(f)
         /\ \A v : Same(v)' <=> Same(v)
         /\ \A v : FilesOK(v)' <=> FilesOK(v)
         /\ \A n, v : Agree(n, v)' <=> Agree(n, v)
BY DEF Opened, Same, FilesOK, FileOK, Holds, Agree

LEMMA OpenTargetKeepsInv ==
  ASSUME IInv, NEW p \in Runs, OpenTarget(p)
  PROVE  IInv'
<1> USE Parts, NamesDiffer
<1>1. /\ pc[p] = "write" /\ pc' = [pc EXCEPT ![p] = "flush"]
      /\ other' = [other EXCEPT ![p] = target]
      /\ UNCHANGED <<data, target, tmp, out, own, wrote, pos, fbuf>>
  BY DEF OpenTarget, Transition
<1>2. /\ \A q \in Runs : q # p => pc'[q] = pc[q] /\ other'[q] = other[q]
      /\ pc'[p] = "flush" /\ other'[p] = target
  BY <1>1 DEF TypeOK
<1>3. TypeOK'
  BY <1>1 DEF TypeOK, Steps
<1>4. ASSUME NEW q \in Runs PROVE RunOK(q)'
  <2>1. CASE q = p
    BY <1>1, <1>2, <2>1 DEF RunOK
  <2>2. CASE q # p
    BY <1>1, <1>2, <2>2 DEF RunOK
  <2>3. QED
    BY <2>1, <2>2
<1>5. NamesOK'
  BY <1>1, <1>2, FilesUnchanged DEF NamesOK
<1>6. ASSUME NEW v \in Outputs, Same(v)' PROVE FilesOK(v)' /\ \A q \in Runs : OldOK(q, v)'
  <2>1. FilesOK(v)' /\ \A q \in Runs : OldOK(q, v)
    BY <1>1, <1>6, FilesUnchanged
  <2>2. ASSUME NEW q \in Runs PROVE OldOK(q, v)'
    <3>1. CASE q = p
      <4>1. pos[p] = 0 /\ pc'[p] = "flush" /\ other'[p] = target
        BY <1>1, <1>2 DEF RunOK
      <4>2. Agree(0, v)'
        <5>1. Len(data'[Old]) \in Nat
          BY <1>1 DEF TypeOK
        <5>2. QED
          BY <5>1 DEF Agree
      <4>3. QED
        BY <1>1, <3>1, <4>1, <4>2 DEF OldOK
    <3>2. CASE q # p
      <4>1. pc'[q] = pc[q] /\ other'[q] = other[q]
        BY <1>2, <3>2
      <4>2. QED
        BY <1>1, <2>1, <4>1, FilesUnchanged DEF OldOK
    <3>3. QED
      BY <3>1, <3>2
  <2>3. QED
    BY <2>1, <2>2
<1>7. QED
  BY <1>3, <1>4, <1>5, <1>6 DEF IInv, SameOK


LEMMA CloseNewKeepsInv ==
  ASSUME IInv, NEW p \in Runs, CloseNew(p)
  PROVE  IInv'
<1> USE Parts, NamesDiffer
<1>1. /\ pc[p] = "flush" /\ pc' = [pc EXCEPT ![p] = "remove"]
      /\ wrote[p] = Len(out[p]) /\ other[p] = Absent
      /\ UNCHANGED <<data, target, tmp, out, own, other, wrote, pos, fbuf>>
  BY DEF CloseNew, Transition
<1>2. (\A q \in Runs : q # p => pc'[q] = pc[q]) /\ pc'[p] = "remove"
  BY <1>1 DEF TypeOK
<1>3. TypeOK'
  BY <1>1 DEF TypeOK, Steps
<1>4. ASSUME NEW q \in Runs PROVE RunOK(q)'
  <2>1. CASE q = p
    BY <1>1, <1>2, <2>1 DEF RunOK
  <2>2. CASE q # p
    BY <1>1, <1>2, <2>2 DEF RunOK
  <2>3. QED
    BY <2>1, <2>2
<1>5. NamesOK'
  BY <1>1, <1>2, FilesUnchanged DEF NamesOK
<1>6. ASSUME NEW v \in Outputs, Same(v)' PROVE FilesOK(v)' /\ \A q \in Runs : OldOK(q, v)'
  <2>1. FilesOK(v)' /\ \A q \in Runs : OldOK(q, v)
    BY <1>1, <1>6, FilesUnchanged
  <2>2. ASSUME NEW q \in Runs PROVE OldOK(q, v)'
    <3>1. CASE q = p
      BY <1>1, <1>2, <2>1, <3>1, FilesUnchanged DEF OldOK
    <3>2. CASE q # p
      BY <1>1, <1>2, <2>1, <3>2, FilesUnchanged DEF OldOK
    <3>3. QED
      BY <3>1, <3>2
  <2>3. QED
    BY <2>1, <2>2
<1>7. QED
  BY <1>3, <1>4, <1>5, <1>6 DEF IInv, SameOK

LEMMA RewindKeepsInv ==
  ASSUME IInv, NEW p \in Runs, Rewind(p)
  PROVE  IInv'
<1> USE Parts, NamesDiffer
<1>1. /\ pc[p] = "flush" /\ pc' = [pc EXCEPT ![p] = "read"]
      /\ wrote[p] = Len(out[p]) /\ other[p] # Absent
      /\ UNCHANGED <<data, target, tmp, out, own, other, wrote, pos, fbuf>>
  BY DEF Rewind, Transition
<1>2. (\A q \in Runs : q # p => pc'[q] = pc[q]) /\ pc'[p] = "read"
  BY <1>1 DEF TypeOK
<1>3. TypeOK'
  BY <1>1 DEF TypeOK, Steps
<1>4. ASSUME NEW q \in Runs PROVE RunOK(q)'
  <2>1. CASE q = p
    BY <1>1, <1>2, <2>1 DEF RunOK
  <2>2. CASE q # p
    BY <1>1, <1>2, <2>2 DEF RunOK
  <2>3. QED
    BY <2>1, <2>2
<1>5. NamesOK'
  BY <1>1, <1>2, FilesUnchanged DEF NamesOK
<1>6. ASSUME NEW v \in Outputs, Same(v)' PROVE FilesOK(v)' /\ \A q \in Runs : OldOK(q, v)'
  <2>1. FilesOK(v)' /\ \A q \in Runs : OldOK(q, v)
    BY <1>1, <1>6, FilesUnchanged
  <2>2. ASSUME NEW q \in Runs PROVE OldOK(q, v)'
    <3>1. CASE q = p
      BY <1>1, <1>2, <2>1, <3>1, FilesUnchanged DEF OldOK
    <3>2. CASE q # p
      BY <1>1, <1>2, <2>1, <3>2, FilesUnchanged DEF OldOK
    <3>3. QED
      BY <3>1, <3>2
  <2>3. QED
    BY <2>1, <2>2
<1>7. QED
  BY <1>3, <1>4, <1>5, <1>6 DEF IInv, SameOK

LEMMA ReadTargetKeepsInv ==
  ASSUME IInv, NEW p \in Runs, ReadTarget(p)
  PROVE  IInv'
<1> USE Parts, NamesDiffer
<1>1. PICK block : block = Take(data[other[p]], pos[p], Chunk)
  OBVIOUS
<1>2. PICK to : to = (IF block = <<>> THEN "discard" ELSE "compare")
  OBVIOUS
<1>3. /\ pc[p] = "read" /\ pc' = [pc EXCEPT ![p] = to]
      /\ fbuf' = [fbuf EXCEPT ![p] = block]
      /\ UNCHANGED <<data, target, tmp, out, own, other, wrote, pos>>
  BY <1>1, <1>2 DEF ReadTarget, Transition
<1>4. /\ \A q \in Runs : q # p => pc'[q] = pc[q] /\ fbuf'[q] = fbuf[q]
      /\ pc'[p] = to /\ fbuf'[p] = block
  BY <1>3 DEF TypeOK
<1>5. block \in Seq(Cell)
  <2>1. other[p] \in File /\ pos[p] \in Nat /\ data[other[p]] \in Seq(Cell)
    BY <1>3 DEF RunOK, TypeOK
  <2>2. Chunk \in Nat
    BY ChunkAssumption
  <2>3. QED
    BY ONLY <1>1, <2>1, <2>2, BlockOfAny
<1>6. TypeOK'
  BY <1>2, <1>3, <1>5 DEF TypeOK, Steps
<1>7. ASSUME NEW q \in Runs PROVE RunOK(q)'
  <2>1. CASE q = p
    BY <1>2, <1>3, <1>4, <2>1 DEF RunOK
  <2>2. CASE q # p
    BY <1>3, <1>4, <2>2 DEF RunOK
  <2>3. QED
    BY <2>1, <2>2
<1>8. NamesOK'
  BY <1>2, <1>3, <1>4, FilesUnchanged DEF NamesOK
<1>9. ASSUME NEW v \in Outputs, Same(v)' PROVE FilesOK(v)' /\ \A q \in Runs : OldOK(q, v)'
  <2>1. FilesOK(v)' /\ \A q \in Runs : OldOK(q, v)
    BY <1>3, <1>9, FilesUnchanged
  <2>2. ASSUME NEW q \in Runs PROVE OldOK(q, v)'
    <3>1. CASE q = p
      <4>1. ASSUME other[p] = Old, block = <<>> PROVE Agree(Len(data[Old]), v)
        <5>1. PICK s \in Seq(Byte) : s = data[Old]
          BY DEF TypeOK
        <5>2. PICK n \in Nat : n = pos[p]
          BY DEF TypeOK
        <5>3. Agree(n, v) /\ n <= Len(s)
          BY <2>1, <4>1, <5>1, <5>2 DEF OldOK, Agree
        <5>4. Len(Take(s, n, Chunk)) = IF n + Chunk < Len(s) THEN Chunk ELSE Len(s) - n
          <6>1. s \in Seq(Byte) /\ n \in Nat /\ n <= Len(s) /\ Chunk \in Nat
            BY <5>3, ChunkAssumption
          <6>2. QED
            BY ONLY <6>1, BlockFacts
        <5>5. Len(Take(s, n, Chunk)) = 0
          BY <1>1, <4>1, <5>1, <5>2, EmptySeq
        <5>6. n = Len(s)
          BY <5>1, <5>3, <5>4, <5>5, ChunkAssumption
        <5>7. QED
          BY <5>1, <5>3, <5>6
      <4>2. other[p] = Old => block = Take(data[Old], pos[p], Chunk)
        BY <1>1
      <4>3. QED
        BY <1>2, <1>3, <1>4, <2>1, <3>1, <4>1, <4>2, FilesUnchanged DEF OldOK
    <3>2. CASE q # p
      BY <1>3, <1>4, <2>1, <3>2, FilesUnchanged DEF OldOK
    <3>3. QED
      BY <3>1, <3>2
  <2>3. QED
    BY <2>1, <2>2
<1>10. QED
  BY <1>6, <1>7, <1>8, <1>9 DEF IInv, SameOK

(* A block of the old target that is equal to what is read of the temporary
   file at the same place: the two have the same bytes, and as the old target
   has no gaps they are those of v. *)
LEMMA SameBlock ==
  ASSUME IInv, NEW p \in Runs, pc[p] = "compare", other[p] = Old,
         NEW v \in Outputs, Same(v),
         Take(data[own[p]], pos[p], Len(fbuf[p])) = fbuf[p]
  PROVE  Agree(pos[p] + Len(fbuf[p]), v)
<1> USE Parts, NamesDiffer
<1>1. PICK s \in Seq(Byte) : s = data[Old]
  BY DEF TypeOK
<1>2. PICK n \in Nat : n = pos[p]
  BY DEF TypeOK
<1>3. PICK f \in Scratch : f = own[p]
  BY DEF TypeOK, RunOK
<1>4. PICK t \in Seq(Cell) : t = data[f]
  BY DEF TypeOK
<1>5. PICK block : block = fbuf[p] /\ block = Take(s, n, Chunk)
  BY <1>1, <1>2 DEF OldOK
<1>6. n <= Len(s) /\ n <= Len(v) /\ \A k \in 1 .. n : s[k] = v[k]
  BY <1>1, <1>2 DEF OldOK, Agree
<1>7. /\ block \in Seq(Byte)
      /\ Len(block) = IF n + Chunk < Len(s) THEN Chunk ELSE Len(s) - n
      /\ \A k \in 1 .. Len(block) : block[k] = s[n + k]
  <2>1. s \in Seq(Byte) /\ n \in Nat /\ n <= Len(s) /\ Chunk \in Nat
    BY <1>6, ChunkAssumption
  <2>2. /\ Take(s, n, Chunk) \in Seq(Byte)
        /\ Len(Take(s, n, Chunk)) = IF n + Chunk < Len(s) THEN Chunk ELSE Len(s) - n
        /\ \A k \in 1 .. Len(Take(s, n, Chunk)) : Take(s, n, Chunk)[k] = s[n + k]
    BY ONLY <2>1, BlockFacts
  <2>3. block = Take(s, n, Chunk)
    BY <1>5
  <2>4. QED
    BY ONLY <2>2, <2>3
<1>8. PICK m \in Nat : m = Len(block)
  BY <1>7, LenProperties
<1>9. n + m <= Len(s)
  BY <1>6, <1>7, <1>8, ChunkAssumption
<1>10. CASE m = 0
  <2>1. pos[p] + Len(fbuf[p]) = n
    BY <1>2, <1>5, <1>8, <1>10
  <2>2. QED
    BY <1>1, <1>6, <2>1 DEF Agree
<1>11. CASE m # 0
  <2>1. block = Take(t, n, m)
    BY <1>2, <1>3, <1>4, <1>5, <1>8
  <2>2. n + m <= Len(t)
    <3>1. block # <<>>
      BY <1>8, <1>11, EmptySeq
    <3>2. t \in Seq(Cell) /\ n \in Nat /\ m \in Nat
      OBVIOUS
    <3>3. QED
      BY ONLY <2>1, <3>1, <3>2, <1>8, BlockOfAny
  <2>3. \A k \in 1 .. m : block[k] = t[n + k]
    <3>1. t \in Seq(Cell) /\ n \in Nat /\ m \in Nat /\ n <= Len(t)
      BY <2>2
    <3>2. \A k \in 1 .. Len(Take(t, n, m)) : Take(t, n, m)[k] = t[n + k]
      BY ONLY <3>1, BlockFacts
    <3>3. QED
      BY ONLY <2>1, <3>2, <1>8
  <2>4. /\ Len(t) <= Len(v)
        /\ \A k \in 1 .. Len(t) : t[k] \in {v[k], Hole}
    BY <1>3, <1>4 DEF FilesOK, FileOK, Opened
  <2>5. n + m <= Len(v)
    BY <2>2, <2>4
  <2>6. ASSUME NEW k \in 1 .. n + m PROVE s[k] = v[k]
    <3>1. CASE k \in 1 .. n
      BY <1>6, <3>1
    <3>2. CASE ~ (k \in 1 .. n)
      <4>1. PICK i \in 1 .. m : k = n + i
        <5>1. k - n \in 1 .. m /\ k = n + (k - n)
          BY <3>2
        <5>2. QED
          BY <5>1
      <4>2. s[k] = t[k]
        BY <1>7, <1>8, <2>3, <4>1
      <4>3. k \in 1 .. Len(t) /\ k \in 1 .. Len(s)
        BY <1>9, <2>2
      <4>4. s[k] \in Byte
        BY <4>3, ElementOfSeq
      <4>5. QED
        BY <2>4, <4>2, <4>3, <4>4, TextAssumption
    <3>3. QED
      BY <3>1, <3>2
  <2>7. pos[p] + Len(fbuf[p]) = n + m
    BY <1>2, <1>5, <1>8
  <2>8. QED
    BY <1>1, <1>9, <2>5, <2>6, <2>7 DEF Agree
<1>12. QED
  BY <1>10, <1>11

LEMMA CompareKeepsInv ==
  ASSUME IInv, NEW p \in Runs, Compare(p)
  PROVE  IInv'
<1> USE Parts, NamesDiffer
<1>1. pc[p] = "compare" /\ UNCHANGED <<data, target, tmp, out, own, other, wrote, fbuf>>
  BY DEF Compare
<1>2. PICK same \in BOOLEAN :
        same = (Take(data[own[p]], pos[p], Len(fbuf[p])) = fbuf[p])
  OBVIOUS
<1>3. PICK to : to = (IF same THEN "read" ELSE "remove")
  OBVIOUS
<1>4. PICK m \in Nat : m = Len(fbuf[p])
  BY DEF TypeOK
<1>5. /\ pc' = [pc EXCEPT ![p] = to]
      /\ pos' = [pos EXCEPT ![p] = IF same THEN @ + m ELSE @]
  <2>1. CASE same
    BY <1>2, <1>3, <1>4, <2>1 DEF Compare, Transition
  <2>2. CASE ~ same
    BY <1>2, <1>3, <2>2 DEF Compare, Transition, TypeOK
  <2>3. QED
    BY <2>1, <2>2
<1>6. /\ \A q \in Runs : q # p => pc'[q] = pc[q] /\ pos'[q] = pos[q]
      /\ pc'[p] = to /\ pos'[p] = (IF same THEN pos[p] + m ELSE pos[p])
  BY <1>5 DEF TypeOK
<1>7. TypeOK'
  BY <1>1, <1>3, <1>5 DEF TypeOK, Steps
<1>8. ASSUME NEW q \in Runs PROVE RunOK(q)'
  <2>1. CASE q = p
    BY <1>1, <1>3, <1>6, <2>1 DEF RunOK
  <2>2. CASE q # p
    BY <1>1, <1>6, <2>2 DEF RunOK
  <2>3. QED
    BY <2>1, <2>2
<1>9. NamesOK'
  BY <1>1, <1>3, <1>6, FilesUnchanged DEF NamesOK
<1>10. ASSUME NEW v \in Outputs, Same(v)' PROVE FilesOK(v)' /\ \A q \in Runs : OldOK(q, v)'
  <2>1. Same(v) /\ FilesOK(v)' /\ \A q \in Runs : OldOK(q, v)
    BY <1>1, <1>10, FilesUnchanged
  <2>2. ASSUME NEW q \in Runs PROVE OldOK(q, v)'
    <3>1. CASE q = p
      <4>1. ASSUME other[p] = Old PROVE Agree(pos'[p], v)
        <5>1. CASE same
          BY <1>1, <1>2, <1>4, <1>6, <2>1, <4>1, <5>1, SameBlock
        <5>2. CASE ~ same
          BY <1>6, <2>1, <4>1, <5>2 DEF OldOK
        <5>3. QED
          BY <5>1, <5>2
      <4>2. Agree(pos[p], v)' <=> Agree(pos'[p], v)
        BY <1>1 DEF Agree
      <4>3. QED
        BY <1>1, <1>3, <1>6, <2>1, <3>1, <4>1, <4>2, FilesUnchanged DEF OldOK
    <3>2. CASE q # p
      <4>1. Agree(pos[q], v)' <=> Agree(pos[q], v)
        BY <1>1, <1>6, <3>2 DEF Agree
      <4>2. Agree(Len(data[Old]), v)' <=> Agree(Len(data[Old]), v)
        BY <1>1 DEF Agree
      <4>3. QED
        BY <1>1, <1>6, <2>1, <3>2, <4>1, <4>2 DEF OldOK
    <3>3. QED
      BY <3>1, <3>2
  <2>3. QED
    BY <2>1, <2>2
<1>11. QED
  BY <1>7, <1>8, <1>9, <1>10 DEF IInv, SameOK

LEMMA DiscardKeepsInv ==
  ASSUME IInv, NEW p \in Runs, Discard(p)
  PROVE  IInv'
<1> USE Parts, NamesDiffer
<1>1. /\ pc[p] = "discard" /\ pc' = [pc EXCEPT ![p] = "done"]
      /\ tmp' = Absent
      /\ UNCHANGED <<data, target, out, own, other, wrote, pos, fbuf>>
  BY DEF Discard, Transition
<1>2. (\A q \in Runs : q # p => pc'[q] = pc[q]) /\ pc'[p] = "done"
  BY <1>1 DEF TypeOK
<1>3. TypeOK'
  BY <1>1 DEF TypeOK, Steps
<1>4. ASSUME NEW q \in Runs PROVE RunOK(q)'
  <2>1. CASE q = p
    BY <1>1, <1>2, <2>1 DEF RunOK
  <2>2. CASE q # p
    BY <1>1, <1>2, <2>2 DEF RunOK
  <2>3. QED
    BY <2>1, <2>2
<1>5. NamesOK'
  BY <1>1, <1>2, FilesUnchanged DEF NamesOK
<1>6. ASSUME NEW v \in Outputs, Same(v)' PROVE FilesOK(v)' /\ \A q \in Runs : OldOK(q, v)'
  <2>1. FilesOK(v)' /\ \A q \in Runs : OldOK(q, v)
    BY <1>1, <1>6, FilesUnchanged
  <2>2. ASSUME NEW q \in Runs PROVE OldOK(q, v)'
    <3>1. CASE q = p
      BY <1>1, <1>2, <2>1, <3>1, FilesUnchanged DEF OldOK
    <3>2. CASE q # p
      BY <1>1, <1>2, <2>1, <3>2, FilesUnchanged DEF OldOK
    <3>3. QED
      BY <3>1, <3>2
  <2>3. QED
    BY <2>1, <2>2
<1>7. QED
  BY <1>3, <1>4, <1>5, <1>6 DEF IInv, SameOK

LEMMA RemoveTargetKeepsInv ==
  ASSUME IInv, NEW p \in Runs, RemoveTarget(p)
  PROVE  IInv'
<1> USE Parts, NamesDiffer
<1>1. /\ pc[p] = "remove" /\ pc' = [pc EXCEPT ![p] = "rename"]
      /\ target' = Absent
      /\ UNCHANGED <<data, tmp, out, own, other, wrote, pos, fbuf>>
  BY DEF RemoveTarget, Transition
<1>2. (\A q \in Runs : q # p => pc'[q] = pc[q]) /\ pc'[p] = "rename"
  BY <1>1 DEF TypeOK
<1>3. TypeOK'
  BY <1>1 DEF TypeOK, Steps
<1>4. ASSUME NEW q \in Runs PROVE RunOK(q)'
  <2>1. CASE q = p
    BY <1>1, <1>2, <2>1 DEF RunOK
  <2>2. CASE q # p
    BY <1>1, <1>2, <2>2 DEF RunOK
  <2>3. QED
    BY <2>1, <2>2
<1>5. NamesOK'
  BY <1>1, <1>2, FilesUnchanged DEF NamesOK
<1>6. ASSUME NEW v \in Outputs, Same(v)' PROVE FilesOK(v)' /\ \A q \in Runs : OldOK(q, v)'
  <2>1. FilesOK(v)' /\ \A q \in Runs : OldOK(q, v)
    BY <1>1, <1>6, FilesUnchanged
  <2>2. ASSUME NEW q \in Runs PROVE OldOK(q, v)'
    <3>1. CASE q = p
      BY <1>1, <1>2, <2>1, <3>1, FilesUnchanged DEF OldOK
    <3>2. CASE q # p
      BY <1>1, <1>2, <2>1, <3>2, FilesUnchanged DEF OldOK
    <3>3. QED
      BY <3>1, <3>2
  <2>3. QED
    BY <2>1, <2>2
<1>7. QED
  BY <1>3, <1>4, <1>5, <1>6 DEF IInv, SameOK

LEMMA RenameKeepsInv ==
  ASSUME IInv, NEW p \in Runs, Rename(p)
  PROVE  IInv'
<1> USE Parts, NamesDiffer
<1>1. /\ pc[p] = "rename" /\ pc' = [pc EXCEPT ![p] = "done"]
      /\ target' = (IF tmp = Absent THEN target ELSE tmp)
      /\ tmp' = Absent
      /\ UNCHANGED <<data, out, own, other, wrote, pos, fbuf>>
  BY DEF Rename, Transition
<1>2. (\A q \in Runs : q # p => pc'[q] = pc[q]) /\ pc'[p] = "done"
  BY <1>1 DEF TypeOK
<1>3. target' # Old
  <2>1. target # Old
    BY <1>1 DEF NamesOK
  <2>2. QED
    BY <1>1, <2>1 DEF TypeOK
<1>4. TypeOK'
  BY <1>1 DEF TypeOK, Steps
<1>5. ASSUME NEW q \in Runs PROVE RunOK(q)'
  <2>1. CASE q = p
    BY <1>1, <1>2, <2>1 DEF RunOK
  <2>2. CASE q # p
    BY <1>1, <1>2, <2>2 DEF RunOK
  <2>3. QED
    BY <2>1, <2>2
<1>6. NamesOK'
  BY <1>1, <1>3, FilesUnchanged DEF NamesOK
<1>7. ASSUME NEW v \in Outputs, Same(v)' PROVE FilesOK(v)' /\ \A q \in Runs : OldOK(q, v)'
  <2>1. FilesOK(v)' /\ \A q \in Runs : OldOK(q, v)
    BY <1>1, <1>7, FilesUnchanged
  <2>2. ASSUME NEW q \in Runs PROVE OldOK(q, v)'
    <3>1. CASE q = p
      BY <1>1, <1>2, <1>3, <2>1, <3>1, FilesUnchanged DEF OldOK
    <3>2. CASE q # p
      BY <1>1, <1>2, <1>3, <2>1, <3>2, FilesUnchanged DEF OldOK
    <3>3. QED
      BY <3>1, <3>2
  <2>3. QED
    BY <2>1, <2>2
<1>8. QED
  BY <1>4, <1>5, <1>6, <1>7 DEF IInv, SameOK

LEMMA NextKeepsInv == IInv /\ [Next]_vars => IInv'
<1> SUFFICES ASSUME IInv, [Next]_vars PROVE IInv'
  OBVIOUS
<1>1. CASE UNCHANGED vars
  BY <1>1 DEF vars, IInv, TypeOK, RunOK, NamesOK, SameOK, Same, FilesOK, FileOK,
              Holds, OldOK, Agree, Opened
<1>2. ASSUME NEW p \in Runs, Open(p) PROVE IInv'
  BY <1>2, OpenKeepsInv
<1>3. ASSUME NEW p \in Runs, Write(p) PROVE IInv'
  BY <1>3, WriteKeepsInv
<1>4. ASSUME NEW p \in Runs, OpenTarget(p) PROVE IInv'
  BY <1>4, OpenTargetKeepsInv
<1>5. ASSUME NEW p \in Runs, CloseNew(p) PROVE IInv'
  BY <1>5, CloseNewKeepsInv
<1>6. ASSUME NEW p \in Runs, Rewind(p) PROVE IInv'
  BY <1>6, RewindKeepsInv
<1>7. ASSUME NEW p \in Runs, ReadTarget(p) PROVE IInv'
  BY <1>7, ReadTargetKeepsInv
<1>8. ASSUME NEW p \in Runs, Compare(p) PROVE IInv'
  BY <1>8, CompareKeepsInv
<1>9. ASSUME NEW p \in Runs, Discard(p) PROVE IInv'
  BY <1>9, DiscardKeepsInv
<1>10. ASSUME NEW p \in Runs, RemoveTarget(p) PROVE IInv'
  BY <1>10, RemoveTargetKeepsInv
<1>11. ASSUME NEW p \in Runs, Rename(p) PROVE IInv'
  BY <1>11, RenameKeepsInv
<1>12. QED
  BY <1>1, <1>2, <1>3, <1>4, <1>5, <1>6, <1>7, <1>8, <1>9, <1>10, <1>11 DEF Next

(* When all runs of one output have ended, a file that a run has opened has
   all of that output: its last opener has written it to the end. *)
LEMMA WholeAtTheEnd ==
  ASSUME IInv, AllDone, NEW v \in Outputs, Same(v), NEW f \in File, Opened(f)
  PROVE  data[f] = v
<1>1. FileOK(f, v)
  BY Parts DEF FilesOK
<1>2. PICK q \in Runs : Holds(f, q, v)
  BY <1>1 DEF FileOK
<1>3. PICK s \in Seq(Cell) : s = data[f]
  BY Parts DEF TypeOK
<1>4. wrote[q] = Len(v)
  BY Parts DEF AllDone, RunOK, Same
<1>5. Len(s) = Len(v) /\ \A k \in 1 .. Len(v) : s[k] = v[k]
  <2>1. Len(s) \in Nat /\ Len(v) \in Nat
    BY <1>3, Parts
  <2>2. QED
    BY <1>1, <1>2, <1>3, <1>4, <2>1 DEF FileOK, Holds
<1>6. v \in Seq(Cell)
  <2>1. v \in Seq(Byte)
    BY Parts
  <2>2. QED
    BY <2>1, SeqDef DEF Cell
<1>7. s = v
  BY ONLY <1>3, <1>5, <1>6, SeqEqual
<1>8. QED
  BY <1>3, <1>7

-----------------------------------------------------------------------------
(* The inductive invariant: what each run has opened and written, where the
   names lead, and what is in the files and in the old target. *)
THEOREM FilesInvariant == Spec => []IInv
<1>1. Init => IInv
  BY InitInv
<1>2. IInv /\ [Next]_vars => IInv'
  BY NextKeepsInv
<1>3. QED
  BY <1>1, <1>2, PTL DEF Spec

(* However many runs open, move and remove the temporary file, and in
   whatever order, none of it is left when they have ended: the last step of
   each run takes the name away (genb_fclose_tmp). *)
THEOREM NoneLeft == Spec => []NoTmpLeft
<1>1. IInv => NoTmpLeft
  BY Zenon DEF IInv, NamesOK, NoTmpLeft, AllDone
<1>2. QED
  BY <1>1, FilesInvariant, PTL

(* What any number of runs of one output leave under its name is that output
   whole, an old file that begins it, or nothing: the truncation and the
   renames of some runs under the feet of others leave no mixture. *)
THEOREM WholeOrNothing == Spec => []NeverTorn
<1>1. IInv => NeverTorn
  <2> SUFFICES ASSUME IInv, NEW v \in Outputs, AllDone, Same(v), target # Absent
               PROVE  data[target] = v \/ (target = Old /\ IsPrefix(data[Old], v))
    BY DEF NeverTorn
  <2> USE Parts
  <2>1. CASE target = Old
    <3>1. PICK p \in Runs : pc[p] = "done"
      BY RunsAssumption DEF AllDone
    <3>2. Agree(Len(data[Old]), v)
      BY <2>1, <3>1 DEF OldOK
    <3>3. v \in Seq(Byte) /\ data[Old] \in Seq(Byte)
      BY DEF TypeOK
    <3>4. QED
      BY <2>1, <3>2, <3>3, AgreeIsPrefix
  <2>2. CASE target # Old
    <3>1. Opened(target) /\ target \in File
      BY <2>2 DEF NamesOK, TypeOK
    <3>2. QED
      BY <3>1, WholeAtTheEnd
  <2>3. QED
    BY <2>1, <2>2
<1>2. QED
  BY <1>1, FilesInvariant, PTL
=============================================================================
