-------------------------- MODULE AtomicFile_proofs --------------------------
(***************************************************************************)
(* Proofs about AtomicFile, for any finite number of writers, any texts,   *)
(* and any number of calls, crashes and failing writes.                    *)
(***************************************************************************)
EXTENDS AtomicFile, FiniteSetTheorems, TLAPS

OnTmp == {"tmp1", "tmp2"}
OnPath == {"path1", "path2"}
Active == {"open", "replace", "reopen", "unlink"} \cup OnTmp \cup OnPath

Types ==
    /\ dir \in [Names -> Inodes \cup {NoFile}] /\ dir["path"] # NoFile
    /\ data \in [Inodes -> [Parts -> Texts \cup {Hole}]]
    /\ pc \in [Procs -> Active \cup {"idle"}]
    /\ fd \in [Procs -> Inodes \cup {NoFile}]
    /\ text \in [Procs -> Texts \cup {Hole}]
    /\ last \in Texts
    /\ reader \in Inodes \cup {NoFile}
    /\ interruptions \in Nat
    /\ \A p \in Procs : pc[p] \in OnTmp \cup OnPath => fd[p] \in Inodes
    /\ \A p \in Procs : pc[p] # "idle" => text[p] \in Texts

Holds(i, v) == data[i] = [k \in Parts |-> v]

(* The temporary file is never the one a reader has or will open.          *)
TmpApart == dir["tmp"] # NoFile => dir["tmp"] \notin {dir["path"], reader}

(* Where the only write under way is, and what it has done by then.        *)
Progress(p) ==
    /\ pc[p] \in OnTmp => dir["tmp"] # NoFile /\ fd[p] = dir["tmp"]
    /\ pc[p] = "tmp2" => data[fd[p]][1] = text[p]
    /\ pc[p] = "replace" => dir["tmp"] # NoFile /\ Holds(dir["tmp"], text[p])
    /\ pc[p] \in OnPath \cup {"reopen", "unlink"} => mounted
    /\ pc[p] \in OnPath => fd[p] = dir["path"]
    /\ pc[p] = "path2" => data[fd[p]][1] = text[p]
    /\ pc[p] = "unlink" => Holds(dir["path"], text[p])

(* What the file has meanwhile: off a bind mount always the last text, on   *)
(* one until it is written in place, or for good after a fault.            *)
Served ==
    /\ ~mounted => Holds(dir["path"], last) /\ (reader # NoFile => Whole(reader))
    /\ interruptions = 0 =>
          \/ Holds(dir["path"], last)
          \/ \E p \in Procs : pc[p] \in OnPath \cup {"unlink"}

Serial ==
    /\ \A p, q \in Procs : pc[p] # "idle" /\ pc[q] # "idle" => p = q
    /\ \A p \in Procs : pc[p] # "idle" => Progress(p)
    /\ Served

Inv == Types /\ TmpApart /\ (~crossed => Serial)

-----------------------------------------------------------------------------
(* Lemmas *)

(* One element more.                                                       *)
LEMMA OneMore ==
  ASSUME NEW S, IsFiniteSet(S), NEW x
  PROVE  /\ IsFiniteSet(S \cup {x}) /\ Cardinality(S \cup {x}) \in Nat
         /\ Cardinality(S \cup {x}) <= Cardinality(S) + 1
<1>1. Cardinality(S) \in Nat
  BY FS_CardinalityType
<1>2. /\ IsFiniteSet(S \cup {x})
      /\ Cardinality(S \cup {x}) = IF x \in S THEN Cardinality(S) ELSE Cardinality(S) + 1
  BY FS_AddElement
<1> QED
  BY <1>1, <1>2

(* When there is no temporary file, some inode is free for it.             *)
LEMMA FreeInode ==
  ASSUME Types, dir["tmp"] = NoFile
  PROVE  \E i \in Inodes : ~InUse(i)
<1> DEFINE open == {fd[p] : p \in Procs}
           used == (open \cup {dir["path"]}) \cup {reader}
<1>1. IsFiniteSet(open) /\ Cardinality(open) <= Cardinality(Procs)
  <2>1. fd \in Surjection(Procs, open)
    BY DEF Types, Surjection
  <2> QED
    BY <2>1, FS_Surjection, AtomicAssumption
<1>2. /\ IsFiniteSet(used) /\ Cardinality(used) \in Nat
      /\ Cardinality(used) <= Cardinality(Procs) + 2
  <2> HIDE DEF open
  <2>1. Cardinality(open) \in Nat /\ Cardinality(Procs) \in Nat
    BY <1>1, FS_CardinalityType, AtomicAssumption
  <2>2. /\ IsFiniteSet(open \cup {dir["path"]})
        /\ Cardinality(open \cup {dir["path"]}) \in Nat
        /\ Cardinality(open \cup {dir["path"]}) <= Cardinality(open) + 1
    BY <1>1, OneMore
  <2>3. /\ IsFiniteSet(used) /\ Cardinality(used) \in Nat
        /\ Cardinality(used) <= Cardinality(open \cup {dir["path"]}) + 1
    BY <2>2, OneMore
  <2> QED
    BY <1>1, <2>1, <2>2, <2>3
<1>3. PICK i \in Inodes : i \notin used
  <2> HIDE DEF used
  <2>1. SUFFICES ASSUME Inodes \subseteq used PROVE FALSE
    OBVIOUS
  <2>2. Cardinality(Inodes) <= Cardinality(used)
    BY <1>2, <2>1, FS_Subset
  <2>3. Cardinality(Inodes) \in Nat /\ Cardinality(Procs) \in Nat
    BY FS_CardinalityType, AtomicAssumption
  <2> QED
    BY <1>2, <2>2, <2>3, AtomicAssumption
<1> QED
  BY <1>3, AtomicAssumption DEF InUse, Names

(* What OpenTmp opens: the temporary file that is there, or a free inode.  *)
LEMMA OpenedTmp ==
  ASSUME Types, TmpApart, NEW p \in Procs, OpenTmp(p)
  PROVE  \E i \in Inodes :
            /\ dir' = [dir EXCEPT !["tmp"] = i] /\ fd' = [fd EXCEPT ![p] = i]
            /\ data' = [data EXCEPT ![i] = Blank]
            /\ i \notin {dir["path"], reader}
<1> DEFINE i == IF dir["tmp"] # NoFile THEN dir["tmp"] ELSE CHOOSE k \in Inodes : ~InUse(k)
<1>1. i \in Inodes /\ i \notin {dir["path"], reader}
  <2>1. CASE dir["tmp"] # NoFile
    BY <2>1 DEF Types, TmpApart, Names
  <2>2. CASE dir["tmp"] = NoFile
    <3>1. i \in Inodes /\ ~InUse(i)
      BY <2>2, FreeInode
    <3> QED
      BY <3>1 DEF InUse, Names
  <2> QED
    BY <2>1, <2>2
<1>2. /\ dir' = [dir EXCEPT !["tmp"] = i] /\ fd' = [fd EXCEPT ![p] = i]
      /\ data' = [data EXCEPT ![i] = Blank]
  BY DEF OpenTmp
<1> QED
  BY <1>1, <1>2

(* What WritePart makes of the inode that is open.                         *)
LEMMA WrittenPart ==
  ASSUME Types, NEW p \in Procs, NEW k \in Parts, WritePart(p, k), fd[p] \in Inodes
  PROVE  /\ data' \in [Inodes -> [Parts -> Texts \cup {Hole}]]
         /\ data'[fd[p]] = [data[fd[p]] EXCEPT ![k] = text[p]]
         /\ \A i \in Inodes : i # fd[p] => data'[i] = data[i]
<1>1. data' = [data EXCEPT ![fd[p]] = [data[fd[p]] EXCEPT ![k] = text[p]]]
  BY DEF WritePart, Types
<1>2. [data[fd[p]] EXCEPT ![k] = text[p]] \in [Parts -> Texts \cup {Hole}]
  BY DEF Types
<1> QED
  BY <1>1, <1>2 DEF Types

-----------------------------------------------------------------------------
(* The invariant *)

(* It holds at first.                                                      *)
LEMMA InitInv == ASSUME AtomicInit PROVE Inv
<1>1. PICK i \in Inodes : i = CHOOSE k \in Inodes : TRUE
  <2>1. Inodes # {}
    <3>1. Cardinality(Procs) \in Nat /\ Cardinality({}) = 0
      BY FS_CardinalityType, FS_EmptySet, AtomicAssumption
    <3> QED
      BY <3>1, AtomicAssumption
  <2> QED
    BY <2>1
<1>2. /\ dir = [n \in Names |-> IF n = "path" THEN i ELSE NoFile]
      /\ data = [k \in Inodes |-> IF k = i THEN [m \in Parts |-> last] ELSE Blank]
      /\ last \in Texts
  BY <1>1 DEF AtomicInit
<1>3. /\ dir["path"] = i /\ dir["tmp"] = NoFile /\ i # NoFile
      /\ dir \in [Names -> Inodes \cup {NoFile}]
  BY <1>2, AtomicAssumption DEF Names
<1>4. data \in [Inodes -> [Parts -> Texts \cup {Hole}]] /\ Holds(i, last)
  BY <1>2 DEF Blank, Holds
<1>5. Types
  BY <1>2, <1>3, <1>4 DEF AtomicInit, Types, OnTmp, OnPath
<1> QED
  BY <1>3, <1>4, <1>5 DEF AtomicInit, Inv, TmpApart, Serial, Served

(* Only one writer is under way, and the others stay idle.                 *)
Alone(p) == \A q \in Procs : q # p => pc[q] = "idle"

(* How a step changes one writer.                                          *)
LEMMA MoveStep ==
  ASSUME Types, NEW p \in Procs, NEW to \in Active \cup {"idle"}, WriterGoto(p, to)
  PROVE  /\ pc' \in [Procs -> Active \cup {"idle"}] /\ pc'[p] = to
         /\ \A q \in Procs : q # p => pc'[q] = pc[q]
  BY DEF Types, WriterGoto

(* And its return.                                                         *)
LEMMA ReturnStep ==
  ASSUME Types, NEW p \in Procs, ReturnCall(p)
  PROVE  /\ pc' \in [Procs -> Active \cup {"idle"}] /\ pc'[p] = "idle"
         /\ text' \in [Procs -> Texts \cup {Hole}]
         /\ \A q \in Procs : q # p => pc'[q] = pc[q] /\ text'[q] = text[q]
  BY DEF Types, ReturnCall, WriterGoto

(* What a writer may assume when no writes have crossed.                   *)
LEMMA WhenAlone ==
  ASSUME Inv, ~crossed, NEW p \in Procs, pc[p] # "idle"
  PROVE  Alone(p) /\ Progress(p) /\ Served
  BY DEF Inv, Serial, Alone

(* What it has to leave.                                                   *)
LEMMA StaysSerial ==
  ASSUME NEW p \in Procs, Alone(p), \A q \in Procs : q # p => pc'[q] = pc[q],
         pc'[p] # "idle" => Progress(p)', Served'
  PROVE  Serial'
  BY DEF Serial, Alone

(* A call.                                                                 *)
LEMMA CallInv ==
  ASSUME Inv, NEW p \in Procs, NEW v \in Texts, Call(p, v)
  PROVE  Inv'
<1> USE DEF Active, OnTmp, OnPath
<1>1. /\ pc[p] = "idle" /\ WriterGoto(p, "open") /\ text' = [text EXCEPT ![p] = v]
      /\ UNCHANGED <<mounted, dir, data, fd, last, reader, interruptions>>
  BY DEF Call, WriterAt, disk
<1>2. /\ pc' \in [Procs -> Active \cup {"idle"}] /\ pc'[p] = "open"
      /\ \A q \in Procs : q # p => pc'[q] = pc[q]
  BY <1>1, MoveStep DEF Inv
<1>3. text' \in [Procs -> Texts \cup {Hole}] /\ text'[p] = v
  BY <1>1 DEF Inv, Types
<1>4. Types' /\ TmpApart'
  BY <1>1, <1>2, <1>3 DEF Inv, Types, TmpApart
<1>5. ASSUME ~crossed' PROVE Serial'
  <2>1. ~crossed /\ Alone(p)
    BY <1>5 DEF Call, Alone, WriterAt
  <2>2. Served
    BY <2>1 DEF Inv, Serial
  <2>3. Served'
    BY <1>1, <1>2, <2>1, <2>2 DEF Served, Holds, Whole, Alone
  <2> QED
    BY <1>2, <1>3, <2>1, <2>3, StaysSerial DEF Progress
<1> QED
  BY <1>4, <1>5 DEF Inv

(* What is served stays when another inode is written, and no writer is at   *)
(* the file in place.                                                      *)
LEMMA ServedElsewhere ==
  ASSUME Types, Types', Served, NEW i, i \notin {dir["path"], reader},
         \A j \in Inodes : j # i => data'[j] = data[j],
         dir'["path"] = dir["path"], UNCHANGED <<mounted, last, reader, interruptions>>,
         ~\E p \in Procs : pc[p] \in OnPath \cup {"unlink"}
  PROVE  Served'
<1>1. dir["path"] \in Inodes /\ data'[dir["path"]] = data[dir["path"]]
  BY DEF Types, Names
<1>2. reader # NoFile => data'[reader] = data[reader]
  BY DEF Types
<1> QED
  BY <1>1, <1>2 DEF Served, Holds, Whole

(* The temporary file is opened, ...                                       *)
LEMMA OpenTmpInv ==
  ASSUME Inv, NEW p \in Procs, OpenTmp(p)
  PROVE  Inv'
<1> USE DEF Active, OnTmp, OnPath
<1>1. /\ pc[p] = "open" /\ WriterGoto(p, "tmp1")
      /\ UNCHANGED <<mounted, text, last, reader, crossed, interruptions>>
  BY DEF OpenTmp, WriterAt
<1>2. PICK i \in Inodes :
         /\ dir' = [dir EXCEPT !["tmp"] = i] /\ fd' = [fd EXCEPT ![p] = i]
         /\ data' = [data EXCEPT ![i] = Blank]
         /\ i \notin {dir["path"], reader}
  BY OpenedTmp DEF Inv
<1>3. /\ pc' \in [Procs -> Active \cup {"idle"}] /\ pc'[p] = "tmp1"
      /\ \A q \in Procs : q # p => pc'[q] = pc[q]
  BY <1>1, MoveStep DEF Inv
<1>4. /\ dir' \in [Names -> Inodes \cup {NoFile}] /\ dir'["path"] = dir["path"] /\ dir'["tmp"] = i
      /\ fd' \in [Procs -> Inodes \cup {NoFile}] /\ fd'[p] = i
      /\ data' \in [Inodes -> [Parts -> Texts \cup {Hole}]]
      /\ \A j \in Inodes : j # i => data'[j] = data[j]
  <2>1. Blank \in [Parts -> Texts \cup {Hole}]
    BY DEF Blank
  <2> QED
    BY <1>2, <2>1 DEF Inv, Types, Names
<1>5. Types' /\ TmpApart'
  BY <1>1, <1>2, <1>3, <1>4 DEF Inv, Types, TmpApart
<1>6. ASSUME ~crossed' PROVE Serial'
  <2>1. ~crossed /\ Alone(p) /\ Progress(p) /\ Served
    BY <1>1, <1>6, WhenAlone
  <2>2. Served'
    BY <1>1, <1>2, <1>4, <1>5, <2>1, ServedElsewhere DEF Inv, Alone
  <2>3. Progress(p)'
    BY <1>1, <1>3, <1>4, <2>1, AtomicAssumption DEF Progress
  <2> QED
    BY <1>3, <2>1, <2>2, <2>3, StaysSerial
<1> QED
  BY <1>5, <1>6 DEF Inv

(* ... written in two parts, ...                                           *)
LEMMA WriteTmpInv ==
  ASSUME Inv, NEW p \in Procs, WriteTmp(p)
  PROVE  Inv'
<1> USE DEF Active, OnTmp, OnPath
<1>1. PICK k \in Parts :
         /\ pc[p] \in OnTmp /\ WritePart(p, k)
         /\ UNCHANGED <<mounted, dir, text, last, reader, crossed, interruptions>>
         /\ \/ pc[p] = "tmp1" /\ k = 1 /\ WriterGoto(p, "tmp2") /\ fd' = fd
            \/ pc[p] = "tmp2" /\ k = 2 /\ WriterGoto(p, "replace") /\ fd' = [fd EXCEPT ![p] = NoFile]
  BY DEF WriteTmp, WritePart, WriterAt, Parts
<1>2. /\ pc' \in [Procs -> Active \cup {"idle"}]
      /\ pc'[p] = IF pc[p] = "tmp1" THEN "tmp2" ELSE "replace"
      /\ \A q \in Procs : q # p => pc'[q] = pc[q]
  BY <1>1, MoveStep DEF Inv
<1>3. /\ fd[p] \in Inodes /\ fd' \in [Procs -> Inodes \cup {NoFile}]
      /\ \A q \in Procs : q # p => fd'[q] = fd[q]
      /\ pc[p] = "tmp1" => fd'[p] = fd[p]
  BY <1>1 DEF Inv, Types
<1>4. /\ data' \in [Inodes -> [Parts -> Texts \cup {Hole}]]
      /\ data'[fd[p]] = [data[fd[p]] EXCEPT ![k] = text[p]]
      /\ \A j \in Inodes : j # fd[p] => data'[j] = data[j]
  BY <1>1, <1>3, WrittenPart DEF Inv
<1>5. Types' /\ TmpApart'
  BY <1>1, <1>2, <1>3, <1>4 DEF Inv, Types, TmpApart
<1>6. ASSUME ~crossed' PROVE Serial'
  <2>1. ~crossed /\ Alone(p) /\ Progress(p) /\ Served
    BY <1>1, <1>6, WhenAlone
  <2>2. fd[p] = dir["tmp"] /\ dir["tmp"] # NoFile
    BY <1>1, <2>1 DEF Progress
  <2>3. Served'
    BY <1>1, <1>4, <1>5, <2>1, <2>2, ServedElsewhere DEF Inv, Alone, TmpApart
  <2>4. Progress(p)'
    <3>1. CASE pc[p] = "tmp1"
      <4>1. data[fd[p]] \in [Parts -> Texts \cup {Hole}] /\ k = 1
        BY <1>1, <1>3, <3>1 DEF Inv, Types
      <4>2. data'[fd[p]][1] = text[p]
        BY <1>4, <4>1
      <4> QED
        BY <1>1, <1>2, <1>3, <2>2, <3>1, <4>2 DEF Progress
    <3>2. CASE pc[p] = "tmp2"
      <4>1. data[fd[p]] \in [Parts -> Texts \cup {Hole}] /\ data[fd[p]][1] = text[p] /\ k = 2
        BY <1>1, <1>3, <2>1, <3>2 DEF Inv, Types, Progress
      <4>2. data'[fd[p]] = [data[fd[p]] EXCEPT ![2] = text[p]]
        BY <1>4, <4>1
      <4>3. data'[fd[p]] = [m \in Parts |-> text[p]]
        BY <4>1, <4>2 DEF Parts
      <4> QED
        BY <1>1, <1>2, <2>2, <3>2, <4>3 DEF Progress, Holds
    <3> QED
      BY <1>1, <3>1, <3>2
  <2> QED
    BY <1>2, <2>1, <2>3, <2>4, StaysSerial
<1> QED
  BY <1>5, <1>6 DEF Inv

(* ... and takes the name of the file, ...                                 *)
LEMMA ReplaceInv ==
  ASSUME Inv, NEW p \in Procs, Replace(p)
  PROVE  Inv'
<1> USE DEF Active, OnTmp, OnPath
<1>1. /\ pc[p] = "replace" /\ dir["tmp"] # NoFile /\ ~mounted /\ ReturnCall(p)
      /\ dir' = [dir EXCEPT !["path"] = dir["tmp"], !["tmp"] = NoFile]
      /\ last' = text[p]
      /\ UNCHANGED <<mounted, data, fd, reader, crossed, interruptions>>
  BY DEF Replace, WriterAt
<1>2. /\ pc' \in [Procs -> Active \cup {"idle"}] /\ pc'[p] = "idle"
      /\ text' \in [Procs -> Texts \cup {Hole}]
      /\ \A q \in Procs : q # p => pc'[q] = pc[q] /\ text'[q] = text[q]
  BY <1>1, ReturnStep DEF Inv
<1>3. /\ dir' \in [Names -> Inodes \cup {NoFile}]
      /\ dir'["path"] = dir["tmp"] /\ dir'["tmp"] = NoFile
  BY <1>1 DEF Inv, Types, Names
<1>4. TmpApart'
  BY <1>3 DEF TmpApart
<1>5. Types'
  BY <1>1, <1>2, <1>3 DEF Inv, Types
<1>6. ASSUME ~crossed' PROVE Serial'
  <2>1. ~crossed /\ Alone(p) /\ Progress(p) /\ Served
    BY <1>1, <1>6, WhenAlone
  <2>2. Holds(dir["tmp"], text[p])
    BY <1>1, <2>1 DEF Progress
  <2>3. Served'
    BY <1>1, <1>2, <1>3, <2>1, <2>2 DEF Served, Holds, Whole
  <2> QED
    BY <1>2, <2>1, <2>3, StaysSerial
<1> QED
  BY <1>4, <1>5, <1>6 DEF Inv

(* ... unless it is mounted, or there is none.                             *)
LEMMA ReplaceElseInv ==
  ASSUME Inv, NEW p \in Procs, ReplaceBusy(p) \/ ReplaceMissing(p)
  PROVE  Inv'
<1> USE DEF Active, OnTmp, OnPath
<1>1. /\ pc[p] = "replace" /\ UNCHANGED <<mounted, dir, data, fd, last, reader, crossed, interruptions>>
      /\ \/ mounted /\ WriterGoto(p, "reopen") /\ text' = text
         \/ ReturnCall(p)
  BY DEF ReplaceBusy, ReplaceMissing, WriterAt, disk
<1>2. /\ pc' \in [Procs -> Active \cup {"idle"}] /\ pc'[p] \in {"idle", "reopen"}
      /\ pc'[p] = "reopen" => mounted
      /\ text' \in [Procs -> Texts \cup {Hole}]
      /\ pc'[p] = "reopen" => text'[p] = text[p]
      /\ \A q \in Procs : q # p => pc'[q] = pc[q] /\ text'[q] = text[q]
  <2>1. text \in [Procs -> Texts \cup {Hole}]
    BY DEF Inv, Types
  <2> QED
    BY <1>1, <2>1, MoveStep, ReturnStep DEF Inv
<1>3. Types' /\ TmpApart'
  <2>1. TmpApart'
    BY <1>1 DEF Inv, TmpApart
  <2>2. \A q \in Procs : /\ pc'[q] \in OnTmp \cup OnPath => pc[q] = pc'[q]
                         /\ pc'[q] # "idle" => pc[q] # "idle" /\ text'[q] = text[q]
    BY <1>1, <1>2
  <2>3. Types'
    BY <1>1, <1>2, <2>2 DEF Inv, Types
  <2> QED
    BY <2>1, <2>3
<1>4. ASSUME ~crossed' PROVE Serial'
  <2>1. ~crossed /\ Alone(p) /\ Progress(p) /\ Served
    BY <1>1, <1>4, WhenAlone
  <2>2. Served'
    BY <1>1, <1>2, <2>1 DEF Served, Holds, Whole, Alone
  <2> QED
    BY <1>1, <1>2, <2>1, <2>2, StaysSerial DEF Progress
<1> QED
  BY <1>3, <1>4 DEF Inv

(* On a bind mount the file is opened and emptied, ...                     *)
LEMMA OpenPathInv ==
  ASSUME Inv, NEW p \in Procs, OpenPath(p)
  PROVE  Inv'
<1> USE DEF Active, OnTmp, OnPath
<1>1. /\ pc[p] = "reopen" /\ WriterGoto(p, "path1")
      /\ data' = [data EXCEPT ![dir["path"]] = Blank] /\ fd' = [fd EXCEPT ![p] = dir["path"]]
      /\ UNCHANGED <<mounted, dir, text, last, reader, crossed, interruptions>>
  BY DEF OpenPath, WriterAt
<1>2. /\ pc' \in [Procs -> Active \cup {"idle"}] /\ pc'[p] = "path1"
      /\ \A q \in Procs : q # p => pc'[q] = pc[q]
  BY <1>1, MoveStep DEF Inv
<1>3. /\ dir["path"] \in Inodes
      /\ data' \in [Inodes -> [Parts -> Texts \cup {Hole}]]
      /\ fd' \in [Procs -> Inodes \cup {NoFile}] /\ fd'[p] = dir["path"]
      /\ \A q \in Procs : q # p => fd'[q] = fd[q]
  <2>1. Blank \in [Parts -> Texts \cup {Hole}] /\ dir["path"] \in Inodes
    BY DEF Blank, Inv, Types, Names
  <2> QED
    BY <1>1, <2>1 DEF Inv, Types
<1>4. Types' /\ TmpApart'
  BY <1>1, <1>2, <1>3 DEF Inv, Types, TmpApart
<1>5. ASSUME ~crossed' PROVE Serial'
  <2>1. ~crossed /\ Alone(p) /\ Progress(p) /\ Served
    BY <1>1, <1>5, WhenAlone
  <2>2. mounted
    BY <1>1, <2>1 DEF Progress
  <2>3. Served'
    BY <1>1, <1>2, <2>2 DEF Served
  <2>4. Progress(p)'
    BY <1>1, <1>2, <1>3, <2>2 DEF Progress
  <2> QED
    BY <1>2, <2>1, <2>3, <2>4, StaysSerial
<1> QED
  BY <1>4, <1>5 DEF Inv

(* ... written in two parts, ...                                           *)
LEMMA WritePathInv ==
  ASSUME Inv, NEW p \in Procs, WritePath(p)
  PROVE  Inv'
<1> USE DEF Active, OnTmp, OnPath
<1>1. PICK k \in Parts :
         /\ pc[p] \in OnPath /\ WritePart(p, k)
         /\ UNCHANGED <<mounted, dir, text, last, reader, crossed, interruptions>>
         /\ \/ pc[p] = "path1" /\ k = 1 /\ WriterGoto(p, "path2") /\ fd' = fd
            \/ pc[p] = "path2" /\ k = 2 /\ WriterGoto(p, "unlink") /\ fd' = [fd EXCEPT ![p] = NoFile]
  BY DEF WritePath, WritePart, WriterAt, Parts
<1>2. /\ pc' \in [Procs -> Active \cup {"idle"}]
      /\ pc'[p] = IF pc[p] = "path1" THEN "path2" ELSE "unlink"
      /\ \A q \in Procs : q # p => pc'[q] = pc[q]
  BY <1>1, MoveStep DEF Inv
<1>3. /\ fd[p] \in Inodes /\ fd' \in [Procs -> Inodes \cup {NoFile}]
      /\ \A q \in Procs : q # p => fd'[q] = fd[q]
      /\ pc[p] = "path1" => fd'[p] = fd[p]
  BY <1>1 DEF Inv, Types
<1>4. /\ data' \in [Inodes -> [Parts -> Texts \cup {Hole}]]
      /\ data'[fd[p]] = [data[fd[p]] EXCEPT ![k] = text[p]]
      /\ \A j \in Inodes : j # fd[p] => data'[j] = data[j]
  BY <1>1, <1>3, WrittenPart DEF Inv
<1>5. Types' /\ TmpApart'
  BY <1>1, <1>2, <1>3, <1>4 DEF Inv, Types, TmpApart
<1>6. ASSUME ~crossed' PROVE Serial'
  <2>1. ~crossed /\ Alone(p) /\ Progress(p) /\ Served
    BY <1>1, <1>6, WhenAlone
  <2>2. fd[p] = dir["path"] /\ mounted
    BY <1>1, <2>1 DEF Progress
  <2>3. Served'
    BY <1>1, <1>2, <2>2 DEF Served
  <2>4. Progress(p)'
    <3>1. CASE pc[p] = "path1"
      <4>1. data[fd[p]] \in [Parts -> Texts \cup {Hole}] /\ k = 1
        BY <1>1, <1>3, <3>1 DEF Inv, Types
      <4>2. data'[fd[p]][1] = text[p]
        BY <1>4, <4>1
      <4> QED
        BY <1>1, <1>2, <1>3, <2>2, <3>1, <4>2 DEF Progress
    <3>2. CASE pc[p] = "path2"
      <4>1. data[fd[p]] \in [Parts -> Texts \cup {Hole}] /\ data[fd[p]][1] = text[p] /\ k = 2
        BY <1>1, <1>3, <2>1, <3>2 DEF Inv, Types, Progress
      <4>2. data'[fd[p]] = [data[fd[p]] EXCEPT ![2] = text[p]]
        BY <1>4, <4>1
      <4>3. data'[fd[p]] = [m \in Parts |-> text[p]]
        BY <4>1, <4>2 DEF Parts
      <4> QED
        BY <1>1, <1>2, <2>2, <3>2, <4>3 DEF Progress, Holds
    <3> QED
      BY <1>1, <3>1, <3>2
  <2> QED
    BY <1>2, <2>1, <2>3, <2>4, StaysSerial
<1> QED
  BY <1>5, <1>6 DEF Inv

(* ... and the temporary file is unlinked.                                 *)
LEMMA UnlinkInv ==
  ASSUME Inv, NEW p \in Procs, UnlinkTmp(p)
  PROVE  Inv'
<1> USE DEF Active, OnTmp, OnPath
<1>1. /\ pc[p] = "unlink" /\ ReturnCall(p) /\ dir' = [dir EXCEPT !["tmp"] = NoFile]
      /\ last' = text[p] /\ UNCHANGED <<mounted, data, fd, reader, crossed, interruptions>>
  BY DEF UnlinkTmp, WriterAt
<1>2. /\ pc' \in [Procs -> Active \cup {"idle"}] /\ pc'[p] = "idle"
      /\ text' \in [Procs -> Texts \cup {Hole}]
      /\ \A q \in Procs : q # p => pc'[q] = pc[q] /\ text'[q] = text[q]
  BY <1>1, ReturnStep DEF Inv
<1>3. /\ dir' \in [Names -> Inodes \cup {NoFile}]
      /\ dir'["path"] = dir["path"] /\ dir'["tmp"] = NoFile
  BY <1>1 DEF Inv, Types, Names
<1>4. Types' /\ TmpApart'
  BY <1>1, <1>2, <1>3 DEF Inv, Types, TmpApart
<1>5. ASSUME ~crossed' PROVE Serial'
  <2>1. ~crossed /\ Alone(p) /\ Progress(p) /\ Served
    BY <1>1, <1>5, WhenAlone
  <2>2. mounted /\ Holds(dir["path"], text[p])
    BY <1>1, <2>1 DEF Progress
  <2>3. Served'
    BY <1>1, <1>3, <2>2 DEF Served, Holds
  <2> QED
    BY <1>2, <2>1, <2>3, StaysSerial
<1> QED
  BY <1>4, <1>5 DEF Inv

(* An interrupted write leaves the disk as it is.                          *)
LEMMA InterruptInv ==
  ASSUME Inv, NEW p \in Procs, Interrupt(p)
  PROVE  Inv'
<1> USE DEF Active, OnTmp, OnPath
<1>1. /\ pc[p] # "idle" /\ ReturnCall(p) /\ interruptions' = interruptions + 1 /\ fd' = [fd EXCEPT ![p] = NoFile]
      /\ UNCHANGED <<mounted, dir, data, last, reader, crossed>>
  BY DEF Interrupt, WriterAt, disk
<1>2. /\ pc' \in [Procs -> Active \cup {"idle"}] /\ pc'[p] = "idle"
      /\ text' \in [Procs -> Texts \cup {Hole}]
      /\ \A q \in Procs : q # p => pc'[q] = pc[q] /\ text'[q] = text[q]
  BY <1>1, ReturnStep DEF Inv
<1>3. /\ interruptions' \in Nat /\ interruptions' # 0
      /\ fd' \in [Procs -> Inodes \cup {NoFile}] /\ \A q \in Procs : q # p => fd'[q] = fd[q]
  BY <1>1 DEF Inv, Types
<1>4. Types' /\ TmpApart'
  BY <1>1, <1>2, <1>3 DEF Inv, Types, TmpApart
<1>5. ASSUME ~crossed' PROVE Serial'
  <2>1. ~crossed /\ Alone(p) /\ Progress(p) /\ Served
    BY <1>1, <1>5, WhenAlone
  <2>2. Served'
    BY <1>1, <1>3, <2>1 DEF Served, Holds, Whole
  <2> QED
    BY <1>2, <2>1, <2>2, StaysSerial
<1> QED
  BY <1>4, <1>5 DEF Inv

(* A reader opens a whole file, and closes it.                             *)
LEMMA ReaderInv ==
  ASSUME Inv, ReaderOpens \/ ReaderReads
  PROVE  Inv'
<1>1. /\ reader' = NoFile \/ reader' = dir["path"]
      /\ UNCHANGED <<mounted, dir, data, pc, fd, text, last, crossed, interruptions>>
  BY DEF ReaderOpens, ReaderReads, disk
<1>2. Types' /\ TmpApart'
  BY <1>1 DEF Inv, Types, TmpApart, Names
<1>3. ASSUME Served PROVE Served'
  BY <1>1, <1>3 DEF Inv, Types, Served, Holds, Whole
<1>4. ASSUME ~crossed' PROVE Serial'
  BY <1>1, <1>3, <1>4 DEF Inv, Serial, Progress, Holds
<1> QED
  BY <1>2, <1>4 DEF Inv

-----------------------------------------------------------------------------
(* Theorems *)

(* The invariant is one of the specification.                              *)
THEOREM Invariance == AtomicSpec => []Inv
<1>1. AtomicInit => Inv
  BY InitInv
<1>2. Inv /\ [AtomicNext]_atomicVars => Inv'
  <2> SUFFICES ASSUME Inv, [AtomicNext]_atomicVars PROVE Inv'
    OBVIOUS
  <2>1. CASE UNCHANGED atomicVars
    BY <2>1 DEF atomicVars, disk, Inv, Types, TmpApart, Serial, Progress, Served, Holds, Whole
  <2>2. ASSUME NEW p \in Procs, WriterStep(p) PROVE Inv'
    BY <2>2, OpenTmpInv, WriteTmpInv, ReplaceInv, ReplaceElseInv, OpenPathInv, WritePathInv,
       UnlinkInv
    DEF WriterStep
  <2> QED
    BY <2>1, <2>2, CallInv, InterruptInv, ReaderInv DEF AtomicNext
<1> QED
  BY <1>1, <1>2, PTL DEF AtomicSpec

(* Whoever opens the file off a bind mount, at whatever moment and after     *)
(* whatever crash, has a whole text in hand, as long as no two writes have   *)
(* overlapped (atomic_write_text): SerialReadersSeeWholeFiles.             *)
THEOREM WholeCorrect == AtomicSpec => []SerialReadersSeeWholeFiles
<1>1. Inv => SerialReadersSeeWholeFiles
  <2> SUFFICES ASSUME Inv, ~crossed, ~mounted, NEW i \in {dir["path"], reader} \ {NoFile}
               PROVE  Whole(i)
    BY DEF SerialReadersSeeWholeFiles, ReadersSeeWholeFiles
  <2>1. last \in Texts
    BY DEF Inv, Types
  <2> QED
    BY <2>1 DEF Inv, Serial, Served, Holds, Whole
<1> QED
  BY <1>1, Invariance, PTL

(* A write that returned is in the file until the next one begins to count,  *)
(* whatever was interrupted in between; in place only without interruptions         *)
(* (atomic_write_text and its fallback): AcknowledgedWriteStands.          *)
THEOREM StandsCorrect == AtomicSpec => []AcknowledgedWriteStands
<1>1. Inv => AcknowledgedWriteStands
  BY DEF Inv, Serial, Served, Holds, OnPath, AcknowledgedWriteStands, WriterAt
<1> QED
  BY <1>1, Invariance, PTL
=============================================================================
