----------------------------- MODULE LogProofs -----------------------------
(* Proofs about Log: the invariants of the write-ahead log hold for every  *)
(* number of processes, blocks and log blocks, the log implements          *)
(* AtomicStore as long as no transaction outgrows it, and a transaction    *)
(* that does overruns it by fewer blocks than there are operations in it.  *)
(*                                                                         *)
(* The inductive invariant has three layers, each proved from the ones     *)
(* before it: Control (who may be where), Buffers (what the cache may      *)
(* differ from the disk in) and Contents (what the log and the header on   *)
(* disk hold at every point of a commit or a recovery).                    *)
EXTENDS Log, FiniteSetTheorems, TLAPS

\* A sequence is a function on an interval, and its elements have its type.
LEMMA SeqTyped ==
    ASSUME NEW S, NEW s \in Seq(S)
    PROVE  /\ Len(s) \in Nat /\ DOMAIN s = 1 .. Len(s) /\ s \in [1 .. Len(s) -> S]
           /\ \A i \in 1 .. Len(s) : s[i] \in S
           /\ (s = <<>>) <=> (Len(s) = 0)
  OBVIOUS

\* Append puts one element behind the others.
LEMMA SeqAppend ==
    ASSUME NEW S, NEW s \in Seq(S), NEW a \in S
    PROVE  /\ Append(s, a) \in Seq(S) /\ Len(Append(s, a)) = Len(s) + 1
           /\ \A i \in 1 .. Len(s) : Append(s, a)[i] = s[i]
           /\ Append(s, a)[Len(s) + 1] = a
  OBVIOUS

\* Who may be where: recovery runs alone, and so does commit(), with
\* log.committing set and no operation in progress.
Alone ==
    /\ phase = "recovering" => /\ \A p \in Procs : p # InitProc => pc[p] = "idle"
                               /\ pc[InitProc] \in {"idle", "install", "erase"}
                               /\ committing = 0
    /\ phase = "up" => \A p \in Procs : pc[p] \in InCommit => committing = 1
    /\ committing = 1 => \A p \in Procs : pc[p] \notin InOp
    /\ \A p, q \in Procs : pc[p] \in InCommit /\ pc[q] \in InCommit => p = q

\* The loops of write_log() and install_trans() stay inside the header.
Loops ==
    /\ \A p \in Procs : pc[p] \in {"write_log", "install"} => tail[p] \in 1 .. Len(lh)
    /\ \A p \in Procs : pc[p] = "write_head" => lh # <<>>
    /\ \A p \in Procs : pc[p] = "finish" => lh = <<>>

\* A process holds a buffer between bread() and brelse().
Held == \A p \in Procs : buf[p] # NoBlock <=> pc[p] \in {"check", "append"}

\* log.outstanding counts the operations in progress.
Control == Alone /\ Loops /\ Held /\ outstanding = Cardinality(Active)

Inv1 == TypeOK /\ Control

\* bget() recycles no buffer that is dirty or held.
Pinned == \A b \in Blocks : b \in dirty \cup Locked => cache[b] # NoBuf

\* What the cache may differ from the disk in: a buffer that is dirty or held
\* is cached, any other cached buffer is a copy of its home block, and a dirty
\* one is listed in the header beyond what install_trans() has installed.
Buffers ==
    /\ Pinned
    /\ \A b \in Blocks : b \notin dirty \cup Locked => View(b) = disk[b]
    /\ dirty \subseteq Logged
    /\ phase = "recovering" => dirty = {}
    /\ \A p \in Procs : pc[p] = "install" => dirty \subseteq {lh[i] : i \in tail[p] .. Len(lh)}
    /\ \A p \in Procs : pc[p] = "erase" => dirty = {}

Inv2 == Inv1 /\ Buffers

Distinct(s) == \A i, j \in 1 .. Len(s) : s[i] = s[j] => i = j

\* The first n log blocks hold what the file system reads, or what the disk holds.
LoggedUpTo(n) == \A i \in 1 .. Len(lh) : i < n => logDisk[i] = View(lh[i])
InstalledUpTo(n) == \A i \in 1 .. Len(lh) : i < n => disk[lh[i]] = logDisk[i]

\* What is on disk at every point of a commit and of a recovery.
Contents ==
    /\ Distinct(lh) /\ Distinct(headDisk)
    /\ \A p \in Procs : pc[p] \in {"install", "erase"} => headDisk = lh
    /\ phase = "up" => \/ headDisk = <<>>
                       \/ \E p \in Procs : pc[p] \in {"install", "erase"}
    /\ \A p \in Procs : pc[p] = "write_log" => LoggedUpTo(tail[p])
    /\ \A p \in Procs : pc[p] = "write_head" => LoggedUpTo(Len(lh) + 1)
    /\ \A p \in Procs : pc[p] = "install" =>
            /\ phase = "up" => LoggedUpTo(Len(lh) + 1)
            /\ InstalledUpTo(tail[p])
    /\ \A p \in Procs : pc[p] = "erase" => InstalledUpTo(Len(lh) + 1)

\* The header on disk names log blocks only.
HeaderFits == Len(headDisk) <= LogSize - 1

Inv3 == Inv2 /\ Contents /\ HeaderFits

\* The operations in progress can be counted, and one in progress makes the
\* count positive.
LEMMA ActiveFinite ==
    /\ IsFiniteSet(Active)
    /\ Cardinality(Active) \in Nat
    /\ \A p \in Active : Cardinality(Active) >= 1
<1>1. IsFiniteSet(Active) /\ Cardinality(Active) \in Nat
  BY LogAssumption, FS_Subset, FS_CardinalityType DEF LogAssumption, Active
<1>2. \A p \in Active : Cardinality(Active) # 0
  BY <1>1, FS_EmptySet
<1> QED
  BY <1>1, <1>2

\* A freshly made disk and an empty memory satisfy the first layer.
LEMMA InitControl == Init => Inv1
<1> SUFFICES ASSUME Init PROVE Inv1
  OBVIOUS
<1>1. TypeOK
  <2>1. logDisk \in [Slots -> Vals]
    BY DEF Init
  <2>2. headDisk \in Seq(Blocks) /\ lh \in Seq(Blocks)
    BY DEF Init
  <2> QED
    BY <2>1, <2>2 DEF Init, TypeOK, PCs
<1>2. Active = {}
  BY DEF Init, Active, InOp
<1>3. outstanding = Cardinality(Active)
  BY <1>2, FS_EmptySet DEF Init
<1>4. Control
  <2>1. Alone /\ Held
    BY LogAssumption DEF Init, Alone, Held, InOp, InCommit, LogAssumption
  <2>2. Loops
    BY LogAssumption DEF Init, Loops, LogAssumption
  <2> QED
    BY <1>3, <2>1, <2>2 DEF Control
<1> QED
  BY <1>1, <1>4 DEF Inv1

\* What TypeOK says about the two headers, in the form the provers use.
LEMMA HeaderTypes ==
    ASSUME TypeOK
    PROVE  /\ lh \in Seq(Blocks) /\ Len(lh) \in Nat
           /\ DOMAIN lh = 1 .. Len(lh) /\ lh \in [1 .. Len(lh) -> Blocks]
           /\ headDisk \in Seq(Blocks) /\ Len(headDisk) \in Nat
           /\ DOMAIN headDisk = 1 .. Len(headDisk)
           /\ headDisk \in [1 .. Len(headDisk) -> Blocks]
<1>1. lh \in Seq(Blocks) /\ headDisk \in Seq(Blocks)
  BY ZenonT(60) DEF TypeOK
<1> QED
  BY <1>1, SeqTyped

\* The block a loop of commit() or recovery is at.
LEMMA LoopBlock ==
    ASSUME Inv1, NEW p \in Procs, pc[p] \in {"write_log", "install"}
    PROVE  /\ tail[p] \in 1 .. Len(lh) /\ tail[p] \in Nat
           /\ lh[tail[p]] \in Blocks
           /\ View(lh[tail[p]]) \in Vals
<1>1. tail[p] \in 1 .. Len(lh)
  BY DEF Inv1, Control, Loops
<1>2. Len(lh) \in Nat /\ lh \in [1 .. Len(lh) -> Blocks]
  BY HeaderTypes DEF Inv1
<1>3. lh[tail[p]] \in Blocks /\ tail[p] \in Nat
  BY <1>1, <1>2
<1>4. View(lh[tail[p]]) \in Vals
  BY ZenonT(60), <1>3 DEF View, Inv1, TypeOK
<1> QED
  BY <1>1, <1>3, <1>4

\* While the transaction fits, that loop is inside the log.
LEMMA LoopSlot ==
    ASSUME Inv1, LogFits, NEW p \in Procs, pc[p] \in {"write_log", "install"}
    PROVE  tail[p] \in Slots /\ tail[p] \notin Blocks /\ logDisk[tail[p]] \in Vals
<1>1. /\ tail[p] \in 1 .. Len(lh) /\ Len(lh) \in Nat
      /\ LogSize \in Nat \ {0} /\ \A b \in Blocks : b \in Nat /\ b >= LogSize
  BY Zenon, LoopBlock, HeaderTypes, LogAssumption DEF Inv1, LogAssumption
<1>2. tail[p] \in Slots /\ tail[p] \notin Blocks
  BY <1>1 DEF Slots, LogFits
<1>3. logDisk \in [Slots -> Vals]
  BY ZenonT(60) DEF Inv1, TypeOK
<1> QED
  BY <1>2, <1>3

\* While the transaction fits, write_log() and install_trans() touch no home
\* block but the ones the header names.
LEMMA WriteLogInside ==
    ASSUME Inv1, LogFits, NEW p \in Procs, WriteLog(p)
    PROVE  /\ tail[p] \in Slots
           /\ logDisk' = [logDisk EXCEPT ![tail[p]] = View(lh[tail[p]])]
           /\ cache' = [cache EXCEPT ![lh[tail[p]]] = View(lh[tail[p]])]
           /\ UNCHANGED <<disk, dirty>>
<1>1. tail[p] \in Slots /\ tail[p] \notin Blocks
  BY LoopSlot DEF WriteLog
<1> QED
  BY Zenon, <1>1 DEF WriteLog

\* The same of install_trans().
LEMMA InstallInside ==
    ASSUME Inv1, LogFits, NEW p \in Procs, Install(p)
    PROVE  /\ tail[p] \in Slots /\ logDisk[tail[p]] \in Vals
           /\ disk' = [disk EXCEPT ![lh[tail[p]]] = logDisk[tail[p]]]
           /\ cache' = [cache EXCEPT ![lh[tail[p]]] = logDisk[tail[p]]]
<1>1. tail[p] \in Slots /\ tail[p] \notin Blocks /\ logDisk[tail[p]] \in Vals
  BY LoopSlot DEF Install
<1> QED
  BY Zenon, <1>1 DEF Install

\* wakeup(&log) moves nobody into or out of an operation or a commit.
LEMMA WokenPreserves ==
    ASSUME NEW f \in [Procs -> PCs]
    PROVE  /\ Woken(f) \in [Procs -> PCs]
           /\ \A p \in Procs : f[p] # "sleeping" => Woken(f)[p] = f[p]
           /\ \A p \in Procs : f[p] = "sleeping" => Woken(f)[p] = "begin"
BY DEF Woken, PCs

\* Every step of begin_op(), log_write(), end_op(), commit() and recovery keeps
\* the variables in their types; the loops need the bounds of Loops for it.
LEMMA TypeStep == Inv1 /\ [Next]_vars => TypeOK'
<1> SUFFICES ASSUME Inv1, [Next]_vars PROVE TypeOK'
  OBVIOUS
<1> USE DEF Inv1
<1>0. outstanding \in Nat /\ tail \in [Procs -> Nat]
  BY ZenonT(60) DEF TypeOK
<1>1. ASSUME NEW p \in Procs, BeginOp(p) PROVE TypeOK'
  <2>1. pc' \in [Procs -> PCs]
    BY ZenonT(60), <1>1 DEF BeginOp, TypeOK, Goto, PCs, InOp
  <2>2. outstanding' \in Nat
    BY <1>0, <1>1 DEF BeginOp
  <2>3. UNCHANGED <<durableVars, bufVars, lh, committing, controlVars, wrote>>
    BY <1>1 DEF BeginOp
  <2> QED
    BY ZenonT(60), <2>1, <2>2, <2>3 DEF TypeOK, durableVars, bufVars, controlVars
<1>2. ASSUME NEW p \in Procs, NEW b \in Blocks, NEW v \in Vals, Modify(p, b, v) PROVE TypeOK'
  BY ZenonT(60), <1>2 DEF Modify, TypeOK, Goto, PCs, InOp, durableVars, logVars, controlVars
<1>3. ASSUME NEW p \in Procs, LogWriteCheck(p) PROVE TypeOK'
  BY ZenonT(60), <1>3 DEF LogWriteCheck, LogWritePanic, TypeOK, Goto, PCs, InOp, durableVars, bufVars, logVars
<1>4. ASSUME NEW p \in Procs, LogWriteAppend(p) PROVE TypeOK'
  <2>1. buf[p] \in Blocks
    BY ZenonT(60), <1>4 DEF LogWriteAppend, Control, Held, TypeOK
  <2>2. lh' \in Seq(Blocks)
    BY <1>4, <2>1, HeaderTypes, SeqAppend DEF LogWriteAppend
  <2>3. /\ dirty' \subseteq Blocks
        /\ buf' \in [Procs -> Blocks \cup {NoBlock}]
        /\ pc' \in [Procs -> PCs]
    BY ZenonT(60), <1>4, <2>1 DEF LogWriteAppend, TypeOK, Goto, PCs, InOp
  <2>4. UNCHANGED <<durableVars, cache, outstanding, committing, controlVars, wrote>>
    BY <1>4 DEF LogWriteAppend
  <2> QED
    BY ZenonT(60), <2>2, <2>3, <2>4 DEF TypeOK, durableVars, controlVars
<1>5. ASSUME NEW p \in Procs, EndOp(p) PROVE TypeOK'
  <2>1. p \in Active
    BY <1>5 DEF EndOp, Active, InOp
  <2>2. outstanding >= 1
    BY <2>1, ActiveFinite DEF Control
  <2>3. outstanding' \in Nat
    BY <1>0, <1>5, <2>2 DEF EndOp
  <2>4. [pc EXCEPT ![p] = "idle"] \in [Procs -> PCs]
    BY ZenonT(60) DEF TypeOK, PCs
  <2>5. pc' \in [Procs -> PCs]
    <3>1. CASE outstanding = 1
      BY ZenonT(60), <1>5, <3>1 DEF EndOp, TypeOK, Goto, PCs, InCommit
    <3>2. CASE outstanding # 1
      BY ZenonT(60), <1>5, <2>4, <3>2, WokenPreserves DEF EndOp
    <3> QED
      BY <3>1, <3>2
  <2>6. tail' \in [Procs -> Nat]
    BY <1>0, <1>5 DEF EndOp
  <2>7. /\ committing' \in {0, 1}
        /\ wrote' \in [Procs -> SUBSET Blocks]
        /\ panicked' \in {"no", "log.committing"}
    BY ZenonT(60), <1>5 DEF EndOp, TypeOK
  <2>8. UNCHANGED <<durableVars, bufVars, lh, phase>>
    BY <1>5 DEF EndOp
  <2> QED
    BY ZenonT(60), <2>3, <2>5, <2>6, <2>7, <2>8 DEF TypeOK, durableVars, bufVars
<1>6. ASSUME NEW p \in Procs, WriteLog(p) PROVE TypeOK'
  <2>3. View(lh[tail[p]]) \in Vals
    BY <1>6, LoopBlock DEF WriteLog
  <2>1. \A t \in Blocks : [cache EXCEPT ![lh[tail[p]]] = View(lh[tail[p]]), ![t] = View(lh[tail[p]])]
                              \in [Blocks -> Vals \cup {NoBuf}]
    BY <2>3 DEF TypeOK
  <2>2. [cache EXCEPT ![lh[tail[p]]] = View(lh[tail[p]])] \in [Blocks -> Vals \cup {NoBuf}]
    BY <2>3 DEF TypeOK
  <2>4. /\ disk' \in [Blocks -> Vals] /\ logDisk' \in [Slots -> Vals]
        /\ cache' \in [Blocks -> Vals \cup {NoBuf}] /\ dirty' \subseteq Blocks
    <3>1. CASE /\ logDisk' = [logDisk EXCEPT ![tail[p]] = View(lh[tail[p]])]
               /\ cache' = [cache EXCEPT ![lh[tail[p]]] = View(lh[tail[p]])]
               /\ UNCHANGED <<disk, dirty>>
      <4>1. logDisk' \in [Slots -> Vals]
        BY <2>3, <3>1 DEF TypeOK
      <4> QED
        BY Zenon, <2>2, <3>1, <4>1 DEF TypeOK
    <3>2. CASE /\ tail[p] \in Blocks
               /\ disk' = [disk EXCEPT ![tail[p]] = View(lh[tail[p]])]
               /\ cache' = [cache EXCEPT ![lh[tail[p]]] = View(lh[tail[p]]), ![tail[p]] = View(lh[tail[p]])]
               /\ dirty' = dirty \ {tail[p]}
               /\ UNCHANGED logDisk
      <4>1. disk' \in [Blocks -> Vals] /\ dirty' \subseteq Blocks
        BY <2>3, <3>2 DEF TypeOK
      <4> QED
        BY Zenon, <2>1, <3>2, <4>1 DEF TypeOK
    <3> QED
      BY Zenon, <1>6, <3>1, <3>2 DEF WriteLog
  <2>5. tail' \in [Procs -> Nat]
    BY <1>0, <1>6 DEF WriteLog
  <2>6. pc' \in [Procs -> PCs]
    BY ZenonT(60), <1>6 DEF WriteLog, TypeOK, Goto, PCs, InCommit
  <2>7. UNCHANGED <<headDisk, buf, logVars, phase, panicked, wrote>>
    BY <1>6 DEF WriteLog
  <2> QED
    BY ZenonT(60), <2>4, <2>5, <2>6, <2>7 DEF TypeOK, logVars
<1>7. ASSUME NEW p \in Procs, WriteHead(p) PROVE TypeOK'
  BY ZenonT(60), <1>7 DEF WriteHead, TypeOK, Goto, PCs, InCommit, bufVars, logVars
<1>8. ASSUME NEW p \in Procs, Install(p) PROVE TypeOK'
  <2>2. lh[tail[p]] \in Blocks
    BY <1>8, LoopBlock DEF Install
  <2>3. \A b \in Blocks : View(b) \in Vals
    BY ZenonT(60) DEF View, TypeOK
  <2>4. /\ disk' \in [Blocks -> Vals]
        /\ cache' \in [Blocks -> Vals \cup {NoBuf}]
        /\ dirty' \subseteq Blocks
    <3>1. /\ disk \in [Blocks -> Vals] /\ logDisk \in [Slots -> Vals]
          /\ cache \in [Blocks -> Vals \cup {NoBuf}] /\ dirty \subseteq Blocks
      BY Zenon DEF TypeOK
    <3>2. dirty' \subseteq Blocks
      BY Zenon, <1>8, <3>1 DEF Install
    <3>3. PICK v \in Vals : disk' = [disk EXCEPT ![lh[tail[p]]] = v]
      BY Zenon, <1>8, <2>3, <3>1 DEF Install
    <3>4. disk' \in [Blocks -> Vals]
      BY Zenon, <3>1, <3>3
    <3>5. cache' \in [Blocks -> Vals \cup {NoBuf}]
      BY SMTT(30), <1>8, <2>3, <3>1 DEF Install
    <3> QED
      BY <3>2, <3>4, <3>5
  <2>5. tail' \in [Procs -> Nat]
    BY <1>0, <1>8 DEF Install
  <2>6. pc' \in [Procs -> PCs]
    BY ZenonT(60), <1>8 DEF Install, TypeOK, Goto, PCs, InCommit
  <2>7. UNCHANGED <<logDisk, headDisk, buf, logVars, phase, panicked, wrote>>
    BY <1>8 DEF Install
  <2> QED
    BY ZenonT(60), <2>4, <2>5, <2>6, <2>7 DEF TypeOK, logVars
<1>9. ASSUME NEW p \in Procs, Erase(p) PROVE TypeOK'
  <2>1. lh' \in Seq(Blocks) /\ headDisk' \in Seq(Blocks)
    BY <1>9 DEF Erase
  <2>2. pc' \in [Procs -> PCs] /\ phase' \in {"recovering", "up"}
    BY ZenonT(60), <1>9 DEF Erase, TypeOK, Goto, PCs, InCommit
  <2>3. UNCHANGED <<disk, logDisk, bufVars, outstanding, committing, tail, panicked, wrote>>
    BY <1>9 DEF Erase
  <2> QED
    BY ZenonT(60), <2>1, <2>2, <2>3 DEF TypeOK, bufVars
<1>10. ASSUME NEW p \in Procs, Finish(p) PROVE TypeOK'
  <2>1. [pc EXCEPT ![p] = "idle"] \in [Procs -> PCs]
    BY ZenonT(60) DEF TypeOK, PCs
  <2>2. pc' \in [Procs -> PCs]
    BY ZenonT(60), <1>10, <2>1, WokenPreserves DEF Finish
  <2> QED
    BY ZenonT(60), <1>10, <2>2 DEF Finish, TypeOK, durableVars, bufVars, controlVars
<1>11. CASE ReadHead
  <2>1. pc' \in [Procs -> PCs] /\ tail' \in [Procs -> Nat]
    BY ZenonT(60), <1>0, <1>11 DEF ReadHead, TypeOK, Goto, PCs, InCommit
  <2> QED
    BY ZenonT(60), <1>11, <2>1 DEF ReadHead, TypeOK, durableVars, bufVars
<1>12. ASSUME NEW b \in Blocks, Recycle(b) PROVE TypeOK'
  BY ZenonT(60), <1>12 DEF Recycle, TypeOK, durableVars, logVars, controlVars
<1>13. CASE Crash
  <2>1. lh' \in Seq(Blocks) /\ pc' \in [Procs -> PCs]
    BY <1>13 DEF Crash, PCs
  <2> QED
    BY ZenonT(60), <1>13, <2>1 DEF Crash, TypeOK, durableVars
<1>14. CASE UNCHANGED vars
  BY ZenonT(60), <1>14 DEF vars, durableVars, bufVars, logVars, controlVars, TypeOK
<1> QED
  BY <1>1, <1>2, <1>3, <1>4, <1>5, <1>6, <1>7, <1>8, <1>9, <1>10, <1>11, <1>12, <1>13, <1>14
  DEF Next, Step, ProcStep

\* An operation runs only after recovery and while nobody commits.
LEMMA OperationAlone ==
    ASSUME Inv1, NEW p \in Procs, pc[p] \in InOp
    PROVE  /\ phase = "up" /\ committing = 0
           /\ \A q \in Procs : pc[q] \notin InCommit
BY ZenonT(60) DEF Inv1, TypeOK, Control, Alone, InOp, InCommit

\* The last operation out is alone.
LEMMA LastOperation ==
    ASSUME Inv1, NEW p \in Procs, pc[p] \in InOp, outstanding = 1
    PROVE  \A q \in Procs : pc[q] \in InOp => q = p
<1>1. Cardinality(Active) = 1 /\ p \in Active
  BY DEF Inv1, Control, Active
<1>2. PICK x : Active = {x}
  BY <1>1, ActiveFinite, FS_Singleton
<1> QED
  BY <1>1, <1>2 DEF Active

\* commit() and recovery stay alone: begin_op() waits while log.committing is
\* set, and end_op() sets it only when no other operation is in progress.
LEMMA AloneStep == Inv1 /\ [Next]_vars => Alone'
<1> SUFFICES ASSUME Inv1, [Next]_vars PROVE Alone'
  OBVIOUS
<1>0. Alone /\ pc \in [Procs -> PCs] /\ committing \in {0, 1} /\ phase \in {"recovering", "up"}
  BY ZenonT(60) DEF Inv1, Control, TypeOK
<1> USE <1>0 DEF InOp, InCommit
<1>1. ASSUME NEW p \in Procs, BeginOp(p) PROVE Alone'
  BY <1>1 DEF BeginOp, Goto, Alone, controlVars
<1>2. ASSUME NEW p \in Procs, NEW b \in Blocks, NEW v \in Vals, Modify(p, b, v) PROVE Alone'
  BY <1>2 DEF Modify, Goto, Alone, logVars, controlVars
<1>3. ASSUME NEW p \in Procs, LogWriteCheck(p) PROVE Alone'
  BY <1>3 DEF LogWriteCheck, Goto, Alone, logVars
<1>4. ASSUME NEW p \in Procs, LogWriteAppend(p) PROVE Alone'
  BY <1>4 DEF LogWriteAppend, Goto, Alone, controlVars
<1>5. ASSUME NEW p \in Procs, EndOp(p) PROVE Alone'
  <2>1. phase = "up" /\ committing = 0 /\ \A q \in Procs : pc[q] \notin InCommit
    BY <1>5, OperationAlone DEF EndOp
  <2>2. CASE outstanding = 1
    <3>1. \A q \in Procs : pc[q] \in InOp => q = p
      BY Zenon, <1>5, <2>2, LastOperation DEF EndOp
    <3> QED
      BY <1>5, <2>1, <2>2, <3>1 DEF EndOp, Goto, Alone
  <2>3. CASE outstanding # 1
    BY <1>5, <2>1, <2>3 DEF EndOp, Woken, Alone
  <2> QED
    BY <2>2, <2>3
<1>6. ASSUME NEW p \in Procs, WriteLog(p) PROVE Alone'
  BY <1>6 DEF WriteLog, Goto, Alone, logVars
<1>7. ASSUME NEW p \in Procs, WriteHead(p) PROVE Alone'
  BY <1>7 DEF WriteHead, Goto, Alone, logVars
<1>8. ASSUME NEW p \in Procs, Install(p) PROVE Alone'
  BY <1>8 DEF Install, Goto, Alone, logVars
<1>9. ASSUME NEW p \in Procs, Erase(p) PROVE Alone'
  BY <1>9 DEF Erase, Goto, Alone
<1>10. ASSUME NEW p \in Procs, Finish(p) PROVE Alone'
  BY <1>10 DEF Finish, Woken, Alone, controlVars
<1>11. CASE ReadHead
  BY <1>11, LogAssumption DEF ReadHead, Goto, Alone, LogAssumption
<1>12. ASSUME NEW b \in Blocks, Recycle(b) PROVE Alone'
  BY <1>12 DEF Recycle, Alone, logVars, controlVars
<1>13. CASE Crash
  BY <1>13, LogAssumption DEF Crash, Alone, LogAssumption
<1>14. CASE UNCHANGED vars
  BY <1>14 DEF vars, logVars, controlVars, Alone
<1> QED
  BY <1>1, <1>2, <1>3, <1>4, <1>5, <1>6, <1>7, <1>8, <1>9, <1>10, <1>11, <1>12, <1>13, <1>14
  DEF Next, Step, ProcStep

\* The loop indices of write_log() and install_trans() never leave the header.
LEMMA LoopsStep == Inv1 /\ [Next]_vars => Loops'
<1> SUFFICES ASSUME Inv1, [Next]_vars PROVE Loops'
  OBVIOUS
<1>0. /\ Loops /\ pc \in [Procs -> PCs] /\ tail \in [Procs -> Nat]
      /\ Len(lh) \in Nat /\ Len(headDisk) \in Nat
      /\ \A p, q \in Procs : pc[p] \in InCommit /\ pc[q] \in InCommit => p = q
  BY ZenonT(60), HeaderTypes DEF Inv1, Control, Alone, TypeOK
<1>a. \A p \in Procs : pc[p] \in InOp => \A q \in Procs : pc[q] \notin InCommit
  BY OperationAlone
<1>b. /\ Len(<<>>) = 0
      /\ lh # <<>> => Len(lh) >= 1
      /\ headDisk # <<>> => Len(headDisk) >= 1
  BY <1>0, HeaderTypes, SeqTyped DEF Inv1
<1> USE <1>0 DEF InOp, InCommit
<1>1. ASSUME NEW p \in Procs, BeginOp(p) PROVE Loops'
  BY <1>1 DEF BeginOp, Goto, Loops, controlVars, durableVars
<1>2. ASSUME NEW p \in Procs, NEW b \in Blocks, NEW v \in Vals, Modify(p, b, v) PROVE Loops'
  BY <1>2 DEF Modify, Goto, Loops, logVars, controlVars, durableVars
<1>3. ASSUME NEW p \in Procs, LogWriteCheck(p) PROVE Loops'
  BY <1>3 DEF LogWriteCheck, Goto, Loops, logVars, durableVars
<1>4. ASSUME NEW p \in Procs, LogWriteAppend(p) PROVE Loops'
  BY <1>4, <1>a DEF LogWriteAppend, Goto, Loops, controlVars, durableVars
<1>5. ASSUME NEW p \in Procs, EndOp(p) PROVE Loops'
  <2>1. \A q \in Procs : pc[q] \notin InCommit
    BY <1>5, <1>a DEF EndOp
  <2>2. CASE outstanding = 1
    BY <1>5, <1>b, <2>1, <2>2 DEF EndOp, Goto, Loops, durableVars
  <2>3. CASE outstanding # 1
    BY Zenon, <1>5, <2>1, <2>3 DEF EndOp, Woken, Loops, durableVars
  <2> QED
    BY <2>2, <2>3
<1>6. ASSUME NEW p \in Procs, WriteLog(p) PROVE Loops'
  BY <1>6, <1>b DEF WriteLog, Goto, Loops, logVars
<1>7. ASSUME NEW p \in Procs, WriteHead(p) PROVE Loops'
  BY <1>7, <1>b DEF WriteHead, Goto, Loops, logVars
<1>8. ASSUME NEW p \in Procs, Install(p) PROVE Loops'
  BY <1>8 DEF Install, Goto, Loops, logVars
<1>9. ASSUME NEW p \in Procs, Erase(p) PROVE Loops'
  BY <1>9, <1>b DEF Erase, Goto, Loops
<1>10. ASSUME NEW p \in Procs, Finish(p) PROVE Loops'
  BY <1>10 DEF Finish, Woken, Loops, controlVars, durableVars
<1>11. CASE ReadHead
  <2>1. \A p \in Procs : pc[p] = "idle"
    BY <1>11 DEF ReadHead, Inv1, Control, Alone
  <2> QED
    BY <1>11, <1>b, <2>1, LogAssumption DEF ReadHead, Goto, Loops, durableVars, LogAssumption
<1>12. ASSUME NEW b \in Blocks, Recycle(b) PROVE Loops'
  BY <1>12 DEF Recycle, Loops, logVars, controlVars, durableVars
<1>13. CASE Crash
  BY <1>13 DEF Crash, Loops, durableVars
<1>14. CASE UNCHANGED vars
  BY Zenon, <1>14 DEF vars, logVars, controlVars, durableVars, Loops
<1> QED
  BY Zenon, <1>1, <1>2, <1>3, <1>4, <1>5, <1>6, <1>7, <1>8, <1>9, <1>10, <1>11, <1>12, <1>13, <1>14
  DEF Next, Step, ProcStep

\* Every bread() of an operation is followed by the brelse() of log_write()'s
\* caller before end_op().
LEMMA HeldStep == Inv1 /\ [Next]_vars => Held'
<1> SUFFICES ASSUME Inv1, [Next]_vars PROVE Held'
  OBVIOUS
<1>0. /\ Held /\ pc \in [Procs -> PCs] /\ buf \in [Procs -> Blocks \cup {NoBlock}]
      /\ NoBlock \notin Blocks
  BY ZenonT(60), LogAssumption DEF Inv1, Control, TypeOK, LogAssumption
<1> USE <1>0 DEF Held
<1>1. ASSUME NEW p \in Procs, BeginOp(p) PROVE Held'
  BY <1>1 DEF BeginOp, Goto, bufVars
<1>2. ASSUME NEW p \in Procs, NEW b \in Blocks, NEW v \in Vals, Modify(p, b, v) PROVE Held'
  BY <1>2 DEF Modify, Goto
<1>3. ASSUME NEW p \in Procs, LogWriteCheck(p) PROVE Held'
  BY <1>3 DEF LogWriteCheck, Goto, bufVars
<1>4. ASSUME NEW p \in Procs, LogWriteAppend(p) PROVE Held'
  BY <1>4 DEF LogWriteAppend, Goto
<1>5. ASSUME NEW p \in Procs, EndOp(p) PROVE Held'
  BY <1>5 DEF EndOp, Goto, Woken, bufVars
<1>6. ASSUME NEW p \in Procs, WriteLog(p) PROVE Held'
  BY <1>6 DEF WriteLog, Goto
<1>7. ASSUME NEW p \in Procs, WriteHead(p) PROVE Held'
  BY <1>7 DEF WriteHead, Goto, bufVars
<1>8. ASSUME NEW p \in Procs, Install(p) PROVE Held'
  BY <1>8 DEF Install, Goto
<1>9. ASSUME NEW p \in Procs, Erase(p) PROVE Held'
  BY <1>9 DEF Erase, Goto, bufVars
<1>10. ASSUME NEW p \in Procs, Finish(p) PROVE Held'
  BY <1>10 DEF Finish, Woken, bufVars
<1>11. CASE ReadHead
  BY <1>11 DEF ReadHead, Goto, bufVars
<1>12. ASSUME NEW b \in Blocks, Recycle(b) PROVE Held'
  BY <1>12 DEF Recycle
<1>13. CASE Crash
  BY <1>13 DEF Crash
<1>14. CASE UNCHANGED vars
  BY Zenon, <1>14 DEF vars, bufVars
<1> QED
  BY Zenon, <1>1, <1>2, <1>3, <1>4, <1>5, <1>6, <1>7, <1>8, <1>9, <1>10, <1>11, <1>12, <1>13, <1>14
  DEF Next, Step, ProcStep

\* Only begin_op() and end_op() change who is in an operation.
LEMMA ActiveStep ==
    ASSUME Inv1, [Next]_vars
    PROVE  \/ \E p \in Procs : /\ p \notin Active /\ Active' = Active \cup {p}
                               /\ outstanding' = outstanding + 1
           \/ \E p \in Procs : /\ p \in Active /\ Active' = Active \ {p}
                               /\ outstanding' = outstanding - 1
           \/ UNCHANGED <<Active, outstanding>>
           \/ Active' = {} /\ outstanding' = 0
<1> DEFINE G == \/ \E p \in Procs : /\ p \notin Active /\ Active' = Active \cup {p}
                                    /\ outstanding' = outstanding + 1
                \/ \E p \in Procs : /\ p \in Active /\ Active' = Active \ {p}
                                    /\ outstanding' = outstanding - 1
                \/ UNCHANGED <<Active, outstanding>>
                \/ Active' = {} /\ outstanding' = 0
<1> SUFFICES G
  BY Zenon
<1>0. pc \in [Procs -> PCs]
  BY ZenonT(60) DEF Inv1, TypeOK
<1> USE <1>0 DEF Active, InOp
<1>1. ASSUME NEW p \in Procs, BeginOp(p) PROVE G
  <2>1. CASE Goto(p, "sleeping") /\ UNCHANGED outstanding
    BY <1>1, <2>1 DEF BeginOp, Goto
  <2>2. CASE Goto(p, "op") /\ outstanding' = outstanding + 1
    <3>1. p \notin Active /\ Active' = Active \cup {p}
      BY Zenon, <1>1, <2>2 DEF BeginOp, Goto
    <3> QED
      BY <2>2, <3>1
  <2> QED
    BY <1>1, <2>1, <2>2 DEF BeginOp
<1>2. ASSUME NEW p \in Procs, NEW b \in Blocks, NEW v \in Vals, Modify(p, b, v) PROVE G
  BY <1>2 DEF Modify, Goto, logVars
<1>3. ASSUME NEW p \in Procs, LogWriteCheck(p) PROVE G
  BY Zenon, <1>3 DEF LogWriteCheck, Goto, logVars
<1>4. ASSUME NEW p \in Procs, LogWriteAppend(p) PROVE G
  BY <1>4 DEF LogWriteAppend, Goto
<1>5. ASSUME NEW p \in Procs, EndOp(p) PROVE G
  <2>1. p \in Active /\ Active' = Active \ {p}
    BY <1>5 DEF EndOp, Goto, Woken
  <2> QED
    BY <1>5, <2>1 DEF EndOp
<1>6. ASSUME NEW p \in Procs, WriteLog(p) PROVE G
  BY <1>6 DEF WriteLog, Goto, logVars
<1>7. ASSUME NEW p \in Procs, WriteHead(p) PROVE G
  BY <1>7 DEF WriteHead, Goto, logVars
<1>8. ASSUME NEW p \in Procs, Install(p) PROVE G
  BY <1>8 DEF Install, Goto, logVars
<1>9. ASSUME NEW p \in Procs, Erase(p) PROVE G
  BY <1>9 DEF Erase, Goto
<1>10. ASSUME NEW p \in Procs, Finish(p) PROVE G
  BY <1>10 DEF Finish, Woken
<1>11. CASE ReadHead
  BY <1>11 DEF ReadHead, Goto
<1>12. ASSUME NEW b \in Blocks, Recycle(b) PROVE G
  BY <1>12 DEF Recycle, logVars
<1>13. CASE Crash
  BY <1>13 DEF Crash
<1>14. CASE UNCHANGED vars
  BY <1>14 DEF vars, logVars
<1> HIDE DEF G
<1> QED
  BY ZenonT(60), <1>1, <1>2, <1>3, <1>4, <1>5, <1>6, <1>7, <1>8, <1>9, <1>10, <1>11, <1>12, <1>13, <1>14
  DEF Next, Step, ProcStep

\* log.outstanding keeps counting the operations in progress.
LEMMA CountStep == Inv1 /\ [Next]_vars => (outstanding = Cardinality(Active))'
<1> SUFFICES ASSUME Inv1, [Next]_vars PROVE outstanding' = Cardinality(Active')
  OBVIOUS
<1>1. outstanding = Cardinality(Active) /\ outstanding \in Nat
  BY ActiveFinite DEF Inv1, Control
<1>2. CASE \E p \in Procs : /\ p \notin Active /\ Active' = Active \cup {p}
                            /\ outstanding' = outstanding + 1
  BY <1>1, <1>2, ActiveFinite, FS_AddElement
<1>3. CASE \E p \in Procs : /\ p \in Active /\ Active' = Active \ {p}
                            /\ outstanding' = outstanding - 1
  BY <1>1, <1>3, ActiveFinite, FS_RemoveElement
<1>4. CASE Active' = {} /\ outstanding' = 0
  BY <1>4, FS_EmptySet
<1> QED
  BY <1>1, <1>2, <1>3, <1>4, ActiveStep

\* The first layer is inductive.
LEMMA ControlStep == Inv1 /\ [Next]_vars => Inv1'
BY TypeStep, AloneStep, LoopsStep, HeldStep, CountStep DEF Inv1, Control

\* The first layer of the invariant holds in every reachable state.
THEOREM ControlInvariant == Spec => []Inv1
BY InitControl, ControlStep, PTL DEF Spec

\* The variables of the log keep their types for ever, whatever the number of
\* processes and blocks and the length of the log.
THEOREM TypeCorrect == Spec => []TypeOK
<1>1. Inv1 => TypeOK
  BY DEF Inv1
<1> QED
  BY <1>1, ControlInvariant, PTL

\* commit() never runs beside an operation or another commit, so write_log()
\* copies blocks that nobody is changing.
THEOREM CommitAlone == Spec => []CommitRunsAlone
<1>1. Inv1 => CommitRunsAlone
  BY ZenonT(60) DEF Inv1, TypeOK, Control, Alone, CommitRunsAlone
<1> QED
  BY <1>1, ControlInvariant, PTL

\* A larger log.outstanding reserves no less.
LEMMA MoreOperations ==
    ASSUME NEW o \in Nat, NEW m \in Nat
    PROVE  (o + 1 + 1) * m >= (o + 1) * m
OBVIOUS

\* Every change that could let a sleeper of begin_op() in comes with a
\* wakeup(&log).
LEMMA SleepersStep ==
    ASSUME Inv1, SleepersHaveReason, [Next]_vars
    PROVE  SleepersHaveReason'
<1>0. /\ pc \in [Procs -> PCs] /\ outstanding \in Nat /\ committing \in {0, 1}
      /\ phase \in {"recovering", "up"}
      /\ phase = "recovering" => \A p \in Procs : pc[p] # "sleeping"
  BY ZenonT(60) DEF Inv1, TypeOK, Control, Alone
<1>a. /\ Len(lh) \in Nat /\ MAXOPBLOCKS \in Nat /\ LOGSIZE \in Nat
      /\ (outstanding + 1) * MAXOPBLOCKS \in Nat
  BY <1>0, HeaderTypes, LogAssumption DEF Inv1, LogAssumption
<1>b. \A p \in Procs : pc[p] \in InCommit => phase = "recovering" \/ committing = 1
  BY Zenon, <1>0 DEF Inv1, Control, Alone
<1> USE <1>0 DEF SleepersHaveReason
<1>1. ASSUME NEW p \in Procs, BeginOp(p) PROVE SleepersHaveReason'
  <2>1. CASE Goto(p, "sleeping") /\ UNCHANGED outstanding /\ (committing = 1 \/ NoSpace)
    BY Zenon, <1>1, <2>1 DEF BeginOp, Goto, NoSpace
  <2>2. CASE Goto(p, "op") /\ outstanding' = outstanding + 1 /\ committing = 0
    <3>1. (outstanding + 1 + 1) * MAXOPBLOCKS >= (outstanding + 1) * MAXOPBLOCKS
      BY <1>a, MoreOperations
    <3>2. (outstanding + 1 + 1) * MAXOPBLOCKS \in Nat
      BY <1>a
    <3>3. lh' = lh
      BY <1>1 DEF BeginOp
    <3>4. NoSpace => NoSpace'
      BY <1>a, <2>2, <3>1, <3>2, <3>3 DEF NoSpace
    <3> QED
      BY Zenon, <1>1, <2>2, <3>4 DEF BeginOp, Goto
  <2> QED
    BY Zenon, <1>1, <2>1, <2>2 DEF BeginOp
<1>2. ASSUME NEW p \in Procs, NEW b \in Blocks, NEW v \in Vals, Modify(p, b, v)
      PROVE SleepersHaveReason'
  BY <1>2 DEF Modify, Goto, logVars, NoSpace
<1>3. ASSUME NEW p \in Procs, LogWriteCheck(p) PROVE SleepersHaveReason'
  BY <1>3 DEF LogWriteCheck, Goto, logVars, NoSpace
<1>4. ASSUME NEW p \in Procs, LogWriteAppend(p) PROVE SleepersHaveReason'
  <2>1. buf[p] \in Blocks
    BY ZenonT(60), <1>4 DEF LogWriteAppend, Inv1, Control, Held, TypeOK
  <2>2. Len(lh') \in Nat /\ Len(lh') >= Len(lh)
    BY <1>4, <1>a, <2>1, HeaderTypes, SeqAppend DEF LogWriteAppend, Inv1
  <2>a. UNCHANGED outstanding
    BY Zenon, <1>4 DEF LogWriteAppend
  <2>3. NoSpace => NoSpace'
    BY <1>a, <2>2, <2>a DEF NoSpace
  <2> QED
    BY SMTT(30), <1>4, <2>3 DEF LogWriteAppend, Goto
<1>5. ASSUME NEW p \in Procs, EndOp(p) PROVE SleepersHaveReason'
  BY Zenon, <1>5 DEF EndOp, Woken
<1>6. ASSUME NEW p \in Procs, WriteLog(p) PROVE SleepersHaveReason'
  BY Zenon, <1>6 DEF WriteLog, Goto, logVars, NoSpace
<1>7. ASSUME NEW p \in Procs, WriteHead(p) PROVE SleepersHaveReason'
  BY Zenon, <1>7 DEF WriteHead, Goto, logVars, NoSpace
<1>8. ASSUME NEW p \in Procs, Install(p) PROVE SleepersHaveReason'
  BY Zenon, <1>8 DEF Install, Goto, logVars, NoSpace
<1>9. ASSUME NEW p \in Procs, Erase(p) PROVE SleepersHaveReason'
  BY <1>9, <1>b DEF Erase, Goto, InCommit
<1>10. ASSUME NEW p \in Procs, Finish(p) PROVE SleepersHaveReason'
  BY <1>10 DEF Finish, Woken
<1>11. CASE ReadHead
  BY <1>11 DEF ReadHead, Goto
<1>12. ASSUME NEW b \in Blocks, Recycle(b) PROVE SleepersHaveReason'
  BY <1>12 DEF Recycle, logVars, NoSpace
<1>13. CASE Crash
  BY <1>13 DEF Crash
<1>14. CASE UNCHANGED vars
  BY <1>14 DEF vars, logVars, NoSpace
<1> QED
  BY ZenonT(60), <1>1, <1>2, <1>3, <1>4, <1>5, <1>6, <1>7, <1>8, <1>9, <1>10, <1>11, <1>12, <1>13, <1>14
  DEF Next, Step, ProcStep

\* No wakeup of begin_op() is lost: whoever sleeps there still has a reason.
THEOREM NoLostWakeup == Spec => []SleepersHaveReason
<1>1. Init => SleepersHaveReason
  BY DEF Init, SleepersHaveReason
<1>2. Inv1 /\ SleepersHaveReason /\ [Next]_vars => SleepersHaveReason'
  BY SleepersStep
<1> QED
  BY <1>1, <1>2, ControlInvariant, PTL DEF Spec

\* log_write() only adds to the header, and lists its block there.
LEMMA AppendGrows ==
    ASSUME Inv1, NEW p \in Procs, LogWriteAppend(p)
    PROVE  /\ buf[p] \in Blocks
           /\ Logged' = Logged \cup {buf[p]}
<1>1. buf[p] \in Blocks
  BY ZenonT(60) DEF LogWriteAppend, Inv1, Control, Held, TypeOK
<1>2. lh \in Seq(Blocks) /\ Len(lh) \in Nat /\ DOMAIN lh = 1 .. Len(lh)
  BY Zenon, HeaderTypes DEF Inv1
<1>3. CASE buf[p] \in Logged
  BY <1>1, <1>3 DEF LogWriteAppend, Logged
<1>4. CASE buf[p] \notin Logged
  <2>1. lh' = Append(lh, buf[p])
    BY <1>4 DEF LogWriteAppend
  <2>2. /\ DOMAIN lh' = 1 .. Len(lh) + 1
        /\ \A i \in 1 .. Len(lh) : lh'[i] = lh[i]
        /\ lh'[Len(lh) + 1] = buf[p]
    BY <1>1, <1>2, <2>1, SeqAppend
  <2>3. Logged' = {lh'[i] : i \in 1 .. Len(lh) + 1}
    BY <2>2 DEF Logged
  <2>4. Logged = {lh[i] : i \in 1 .. Len(lh)}
    BY <1>2 DEF Logged
  <2>5. Logged' \subseteq Logged \cup {buf[p]}
    BY <1>2, <2>2, <2>3, <2>4
  <2>6. Logged \cup {buf[p]} \subseteq Logged'
    BY <1>2, <2>2, <2>3, <2>4
  <2> QED
    BY <1>1, <2>5, <2>6
<1> QED
  BY <1>3, <1>4

\* While a commit or a recovery runs, no buffer is held.
LEMMA CommitHoldsNone ==
    ASSUME Inv1
    PROVE  /\ \A p \in Procs : pc[p] \in InCommit => Locked = {}
           /\ phase = "recovering" => Locked = {}
<1>1. ASSUME NEW p \in Procs, pc[p] \in InCommit, NEW q \in Procs PROVE buf[q] = NoBlock
  BY Zenon, <1>1, OperationAlone DEF Inv1, Control, Held, InOp
<1>2. ASSUME phase = "recovering", NEW q \in Procs PROVE buf[q] = NoBlock
  BY Zenon, <1>2, OperationAlone DEF Inv1, Control, Held, InOp
<1> QED
  BY Zenon, <1>1, <1>2 DEF Locked

\* An empty cache satisfies the second layer.
LEMMA BuffersInit == Init => Buffers
BY DEF Init, Buffers, Pinned, Locked, View

\* Pinning with B_DIRTY, locking and install_trans() keep the cache consistent
\* with the disk but for the blocks of the running transaction.
LEMMA BuffersStep ==
    ASSUME Inv2, LogFits, [Next]_vars
    PROVE  Buffers'
<1>0. /\ Buffers /\ Inv1
      /\ pc \in [Procs -> PCs] /\ buf \in [Procs -> Blocks \cup {NoBlock}]
      /\ cache \in [Blocks -> Vals \cup {NoBuf}] /\ disk \in [Blocks -> Vals]
      /\ dirty \subseteq Blocks
      /\ NoBuf \notin Vals /\ NoBlock \notin Blocks
  BY ZenonT(60), LogAssumption DEF Inv2, Inv1, TypeOK, LogAssumption
<1>a. \A p \in Procs : pc[p] \in InOp => phase = "up" /\ \A q \in Procs : pc[q] \notin InCommit
  BY Zenon, <1>0, OperationAlone
<1> USE <1>0 DEF Pinned, View
<1>1. ASSUME NEW p \in Procs, BeginOp(p) PROVE Buffers'
  BY <1>1 DEF BeginOp, Goto, Buffers, Locked, Logged, durableVars, bufVars, controlVars
<1>2. ASSUME NEW p \in Procs, NEW b \in Blocks, NEW v \in Vals, Modify(p, b, v) PROVE Buffers'
  <2>1. buf[p] = NoBlock
    BY Zenon, <1>2 DEF Modify, Inv1, Control, Held
  <2>2. Locked' = Locked \cup {b}
    BY Zenon, <1>2, <2>1 DEF Modify, Locked
  <2>3. UNCHANGED <<disk, dirty, lh, tail, phase, Logged>>
    BY <1>2 DEF Modify, Logged, durableVars, logVars, controlVars
  <2>4. \A q \in Procs : pc'[q] \notin {"install", "erase"}
    BY <1>2, <1>a DEF Modify, Goto, InOp, InCommit
  <2>5. cache' = [cache EXCEPT ![b] = v]
    BY Zenon, <1>2 DEF Modify
  <2> QED
    BY Zenon, <2>2, <2>3, <2>4, <2>5 DEF Buffers
<1>3. ASSUME NEW p \in Procs, LogWriteCheck(p) PROVE Buffers'
  BY <1>3 DEF LogWriteCheck, Goto, Buffers, Locked, Logged, durableVars, bufVars, logVars
<1>4. ASSUME NEW p \in Procs, LogWriteAppend(p) PROVE Buffers'
  <2>1. dirty' = dirty \cup {buf[p]} /\ buf[p] \in Blocks /\ Logged' = Logged \cup {buf[p]}
    BY ZenonT(60), <1>4, AppendGrows DEF LogWriteAppend
  <2>2. buf[p] \in Locked /\ Locked' \subseteq Locked /\ Locked \subseteq Locked' \cup {buf[p]}
    BY Zenon, <1>4, <2>1 DEF LogWriteAppend, Locked
  <2>3. phase = "up" /\ UNCHANGED <<disk, cache, phase>>
    BY Zenon, <1>4, <1>a DEF LogWriteAppend, durableVars, controlVars, InOp
  <2>4. \A q \in Procs : pc'[q] \notin {"install", "erase"}
    BY Zenon, <1>4, <1>a DEF LogWriteAppend, Goto, InOp, InCommit
  <2> QED
    BY <2>1, <2>2, <2>3, <2>4 DEF Buffers
<1>5. ASSUME NEW p \in Procs, EndOp(p) PROVE Buffers'
  <2>1. UNCHANGED <<disk, cache, dirty, Locked, Logged, phase>>
    BY <1>5 DEF EndOp, durableVars, bufVars, Locked, Logged
  <2>2. \A q \in Procs : pc'[q] \notin {"install", "erase"}
    BY Zenon, <1>5, <1>a DEF EndOp, Goto, Woken, InOp, InCommit
  <2> QED
    BY Zenon, <2>1, <2>2 DEF Buffers
<1>6. ASSUME NEW p \in Procs, WriteLog(p) PROVE Buffers'
  <2>1. lh[tail[p]] \in Blocks
    BY Zenon, <1>6, LoopBlock DEF WriteLog
  <2>2. UNCHANGED <<disk, dirty, Locked, Logged, lh, phase>>
    <3>1. UNCHANGED <<disk, dirty>>
      BY <1>6, WriteLogInside
    <3>2. UNCHANGED <<buf, lh, phase>>
      BY <1>6 DEF WriteLog, logVars
    <3> QED
      BY <3>1, <3>2 DEF Locked, Logged
  <2>3. cache' = [cache EXCEPT ![lh[tail[p]]] = View(lh[tail[p]])]
    BY Zenon, <1>6, WriteLogInside
  <2>4. \A q \in Procs : pc'[q] \notin {"install", "erase"}
    BY Zenon, <1>6 DEF WriteLog, Goto, Inv1, Control, Alone, InCommit
  <2> QED
    BY Zenon, <2>1, <2>2, <2>3, <2>4 DEF Buffers
<1>7. ASSUME NEW p \in Procs, WriteHead(p) PROVE Buffers'
  <2>1. UNCHANGED <<disk, cache, dirty, Locked, Logged, lh, phase>>
    BY <1>7 DEF WriteHead, Locked, Logged, bufVars, logVars
  <2>2. \A q \in Procs : pc'[q] \in {"install", "erase"} => q = p /\ pc'[q] = "install"
    BY Zenon, <1>7 DEF WriteHead, Goto, Inv1, Control, Alone, InCommit
  <2>3. tail'[p] = 1 /\ Logged = {lh[i] : i \in 1 .. Len(lh)}
    BY ZenonT(60), <1>7, HeaderTypes DEF WriteHead, Inv1, TypeOK, Logged
  <2> QED
    BY SMTT(30), <2>1, <2>2, <2>3 DEF Buffers
<1>8. ASSUME NEW p \in Procs, Install(p) PROVE Buffers'
  <2> DEFINE b == lh[tail[p]]
  <2>1. /\ b \in Blocks /\ logDisk[tail[p]] \in Vals
        /\ tail[p] \in 1 .. Len(lh) /\ Len(lh) \in Nat
    <3>1. logDisk[tail[p]] \in Vals
      BY <1>8, InstallInside
    <3> QED
      BY Zenon, <1>8, <3>1, LoopBlock, HeaderTypes DEF Install, Inv1
  <2>2. UNCHANGED <<Locked, Logged, lh, phase>>
    <3>1. UNCHANGED <<buf, lh, phase>>
      BY <1>8 DEF Install, logVars
    <3> QED
      BY <3>1 DEF Locked, Logged
  <2>3. /\ cache' = [cache EXCEPT ![b] = logDisk[tail[p]]]
        /\ disk' = [disk EXCEPT ![b] = logDisk[tail[p]]]
        /\ dirty' = dirty \ {b}
    BY Zenon, <1>8, InstallInside DEF Install
  <2>4. \A q \in Procs : pc'[q] \in {"install", "erase"} => q = p
    <3>1. \A q \in Procs : q # p => pc[q] \notin {"install", "erase"}
      BY Zenon, <1>8 DEF Install, Inv1, Control, Alone, InCommit
    <3>2. \A q \in Procs : q # p => pc'[q] = pc[q]
      BY Zenon, <1>8 DEF Install, Goto, Inv1, TypeOK
    <3> QED
      BY Zenon, <3>1, <3>2
  <2>5. tail'[p] = tail[p] + 1
    BY ZenonT(60), <1>8 DEF Install, Inv1, TypeOK
  <2>6. /\ pc'[p] = "install" => tail[p] # Len(lh)
        /\ pc'[p] = "erase" => tail[p] = Len(lh)
    BY Zenon, <1>8 DEF Install, Goto
  <2>7. dirty \subseteq {lh[i] : i \in tail[p] .. Len(lh)}
    BY Zenon, <1>8 DEF Install, Buffers
  <2>8. dirty' \subseteq {lh[i] : i \in tail[p] + 1 .. Len(lh)}
    <3> SUFFICES ASSUME NEW x \in dirty'
                 PROVE  \E i \in tail[p] + 1 .. Len(lh) : x = lh[i]
      BY Zenon
    <3>1. x \in dirty /\ x # b
      BY Zenon, <2>3
    <3>2. PICK i \in tail[p] .. Len(lh) : x = lh[i]
      BY Zenon, <2>7, <3>1
    <3>3. i # tail[p]
      BY Zenon, <3>1, <3>2
    <3> QED
      BY <2>1, <3>2, <3>3
  <2>9. pc'[p] = "erase" => dirty' = {}
    <3>1. tail[p] = Len(lh) => tail[p] + 1 .. Len(lh) = {}
      BY SMTT(30), <2>1
    <3>. QED
      BY <2>6, <2>8, <3>1, Zenon
  <2>10. /\ Pinned'
         /\ \A c \in Blocks : c \notin dirty' \cup Locked' => View(c)' = disk'[c]
    BY Zenon, <2>1, <2>2, <2>3 DEF Buffers
  <2>11. dirty' \subseteq Logged' /\ (phase' = "recovering" => dirty' = {})
    BY Zenon, <2>2, <2>3 DEF Buffers
  <2> QED
    BY SMTT(30), <2>2, <2>4, <2>5, <2>8, <2>9, <2>10, <2>11 DEF Buffers
<1>9. ASSUME NEW p \in Procs, Erase(p) PROVE Buffers'
  <2>1. dirty = {} /\ UNCHANGED <<disk, cache, dirty, Locked>> /\ phase' = "up"
    BY <1>9 DEF Erase, bufVars, Locked, Buffers
  <2> QED
    BY Zenon, <1>9, <2>1 DEF Buffers
<1>10. ASSUME NEW p \in Procs, Finish(p) PROVE Buffers'
  <2>1. UNCHANGED <<disk, cache, dirty, Locked, Logged, phase>>
    BY <1>10 DEF Finish, durableVars, bufVars, Locked, Logged, controlVars
  <2>2. \A q \in Procs : pc'[q] \notin {"install", "erase"}
    BY Zenon, <1>10 DEF Finish, Woken, Inv1, Control, Alone, InCommit
  <2> QED
    BY <2>1, <2>2 DEF Buffers
<1>11. CASE ReadHead
  <2>1. dirty = {} /\ UNCHANGED <<disk, cache, dirty, Locked, phase>>
    BY SMTT(30), <1>11 DEF ReadHead, durableVars, bufVars, Locked, Buffers
  <2> QED
    BY <2>1 DEF Buffers
<1>12. ASSUME NEW b \in Blocks, Recycle(b) PROVE Buffers'
  <2>1. UNCHANGED <<disk, dirty, Locked, Logged, lh, phase, pc, tail>>
    BY SMTT(30), <1>12 DEF Recycle, durableVars, Locked, Logged, logVars, controlVars
  <2> QED
    BY <1>12, <2>1 DEF Recycle, Buffers
<1>13. CASE Crash
  <2>1. dirty' = {} /\ Locked' = {}
    BY Zenon, <1>13 DEF Crash, Locked
  <2> QED
    BY Zenon, <1>13, <2>1 DEF Crash, Buffers
<1>14. CASE UNCHANGED vars
  BY <1>14 DEF vars, durableVars, bufVars, logVars, controlVars, Locked, Logged, Buffers
<1> QED
  BY Zenon, <1>1, <1>2, <1>3, <1>4, <1>5, <1>6, <1>7, <1>8, <1>9, <1>10, <1>11, <1>12, <1>13, <1>14
  DEF Next, Step, ProcStep

\* What a step of commit(), of recovery or of bget() leaves the file system
\* reading: a copy of a clean buffer may go, nothing else changes.
LEMMA ViewKept ==
    ASSUME Inv2, LogFits, NEW c \in Blocks
    PROVE  /\ \A b \in Blocks : Recycle(b) => View(c)' = View(c)
           /\ \A p \in Procs : WriteLog(p) => View(c)' = View(c)
<1>1. /\ Buffers /\ Inv1
      /\ cache \in [Blocks -> Vals \cup {NoBuf}] /\ disk \in [Blocks -> Vals]
      /\ NoBuf \notin Vals
  BY ZenonT(60), LogAssumption DEF Inv2, Inv1, TypeOK, LogAssumption
<1>2. ASSUME NEW b \in Blocks, Recycle(b) PROVE View(c)' = View(c)
  BY Zenon, <1>1, <1>2 DEF Recycle, Buffers, View, durableVars
<1>3. ASSUME NEW p \in Procs, WriteLog(p) PROVE View(c)' = View(c)
  <2>1. lh[tail[p]] \in Blocks
    BY <1>1, <1>3, LoopBlock DEF WriteLog
  <2>2. UNCHANGED disk /\ cache' = [cache EXCEPT ![lh[tail[p]]] = View(lh[tail[p]])]
    BY <1>1, <1>3, WriteLogInside
  <2> QED
    BY Zenon, <1>1, <2>1, <2>2 DEF View
<1> QED
  BY <1>2, <1>3

\* A freshly made log satisfies the third layer.
LEMMA ContentsInit == Init => Contents
BY DEF Init, Contents, Distinct

\* write_log(), write_head(), install_trans() and recovery keep on disk, at
\* each of their bwrite()s, what a recovery from that point needs.
LEMMA ContentsStep ==
    ASSUME Inv3, LogFits, [Next]_vars
    PROVE  Contents'
<1>c. Contents
  BY Zenon DEF Inv3
<1>t. /\ pc \in [Procs -> PCs] /\ tail \in [Procs -> Nat]
      /\ cache \in [Blocks -> Vals \cup {NoBuf}] /\ disk \in [Blocks -> Vals]
      /\ logDisk \in [Slots -> Vals] /\ NoBuf \notin Vals
      /\ phase \in {"recovering", "up"}
  BY ZenonT(60), LogAssumption DEF Inv3, Inv2, Inv1, TypeOK, LogAssumption
<1>p. pc \in [Procs -> PCs] /\ tail \in [Procs -> Nat]
  BY <1>t
<1>n. \A p, q \in Procs : pc[p] \in InCommit /\ pc[q] \in InCommit => p = q
  BY DEF Inv3, Inv2, Inv1, Control, Alone
<1>i. Inv2 /\ Inv1 /\ Buffers
  BY DEF Inv3, Inv2
<1>a. \A p \in Procs : pc[p] \in InOp => phase = "up" /\ \A q \in Procs : pc[q] \notin InCommit
  BY <1>i, OperationAlone
<1>b. /\ Len(lh) \in Nat /\ lh \in [1 .. Len(lh) -> Blocks]
      /\ Len(headDisk) \in Nat /\ headDisk \in [1 .. Len(headDisk) -> Blocks]
  BY <1>i, HeaderTypes DEF Inv1
<1>h. ASSUME NEW p \in Procs, pc[p] \in InOp
      PROVE  headDisk = <<>> /\ Distinct(lh)
  BY <1>h, <1>a, <1>c DEF Contents, InCommit
<1> DEFINE Kept == UNCHANGED <<disk, logDisk, headDisk, lh, phase>>
           Quiet == \A q \in Procs : pc'[q] \notin {"write_log", "write_head", "install", "erase"}
<1>q. ASSUME Quiet, Distinct(lh)', headDisk' = <<>> PROVE Contents'
  <2>1. Distinct(headDisk)'
    BY SMTT(30), <1>q DEF Distinct
  <2> QED
    BY <1>q, <2>1 DEF Contents
<1>1. ASSUME NEW p \in Procs, BeginOp(p) PROVE Contents'
  <2>1. Kept /\ UNCHANGED <<cache, tail>>
    BY <1>1 DEF BeginOp, durableVars, bufVars, controlVars
  <2>2. \A q \in Procs : q # p => pc'[q] = pc[q]
    BY Zenon, <1>p, <1>1 DEF BeginOp, Goto
  <2>3. pc[p] \notin InCommit /\ pc'[p] \notin InCommit
    BY <1>p, <1>1 DEF BeginOp, Goto, InCommit
  <2>4. \A n : (LoggedUpTo(n) => LoggedUpTo(n)') /\ (InstalledUpTo(n) => InstalledUpTo(n)')
    BY <2>1 DEF LoggedUpTo, InstalledUpTo, View
  <2>5. \A q \in Procs : pc'[q] \in InCommit => pc'[q] = pc[q]
    BY <2>2, <2>3
  <2>6. \A q \in Procs : pc[q] \in InCommit => pc'[q] = pc[q]
    BY <2>2, <2>3
  <2> QED
    BY <1>c, <2>1, <2>4, <2>5, <2>6 DEF Contents, Distinct, InCommit
<1>2. ASSUME NEW p \in Procs, NEW b \in Blocks, NEW v \in Vals, Modify(p, b, v) PROVE Contents'
  <2>1. UNCHANGED <<headDisk, lh>> /\ pc[p] \in InOp
    BY <1>2 DEF Modify, durableVars, logVars, controlVars, InOp
  <2>2. Quiet
    BY <1>p, <1>a, <1>2, <2>1 DEF Modify, Goto, InOp, InCommit
  <2> QED
    BY Zenon, <1>h, <1>q, <2>1, <2>2 DEF Distinct
<1>3. ASSUME NEW p \in Procs, LogWriteCheck(p) PROVE Contents'
  <2>1. UNCHANGED <<headDisk, lh>> /\ pc[p] \in InOp
    BY <1>3 DEF LogWriteCheck, durableVars, logVars, InOp
  <2>2. Quiet
    BY SMTT(30), <1>p, <1>a, <1>3, <2>1 DEF LogWriteCheck, Goto, InOp, InCommit
  <2> QED
    BY <1>h, <1>q, <2>1, <2>2 DEF Distinct
<1>4. ASSUME NEW p \in Procs, LogWriteAppend(p) PROVE Contents'
  <2>1. headDisk' = headDisk /\ pc[p] \in InOp
    BY <1>4 DEF LogWriteAppend, durableVars, controlVars, InOp
  <2>2. Quiet
    BY <1>p, <1>a, <1>4, <2>1 DEF LogWriteAppend, Goto, InOp, InCommit
  <2>3. Distinct(lh)'
    <3>1. CASE buf[p] \in Logged
      BY <1>4, <1>h, <2>1, <3>1 DEF LogWriteAppend, Distinct
    <3>2. CASE buf[p] \notin Logged
      <4>1. /\ Len(lh') = Len(lh) + 1 /\ lh'[Len(lh) + 1] = buf[p]
            /\ \A i \in 1 .. Len(lh) : lh'[i] = lh[i]
        BY <1>4, <1>i, <3>2, AppendGrows, HeaderTypes, SeqAppend DEF LogWriteAppend, Inv1
      <4>2. \A i \in 1 .. Len(lh) : lh[i] # buf[p]
        BY <1>b, <3>2 DEF Logged
      <4>3. Distinct(lh)
        BY Zenon, <1>h, <2>1
      <4>4. ASSUME NEW i \in 1 .. Len(lh'), NEW j \in 1 .. Len(lh'), lh'[i] = lh'[j] PROVE i = j
        <5>1. i \in 1 .. Len(lh) \/ i = Len(lh) + 1
          BY <1>b, <4>1
        <5>2. j \in 1 .. Len(lh) \/ j = Len(lh) + 1
          BY SMTT(30), <1>b, <4>1
        <5> QED
          BY Zenon, <4>1, <4>2, <4>3, <4>4, <5>1, <5>2 DEF Distinct
      <4> QED
        BY Zenon, <4>4 DEF Distinct
    <3> QED
      BY <3>1, <3>2
  <2> QED
    BY <1>h, <1>q, <2>1, <2>2, <2>3
<1>5. ASSUME NEW p \in Procs, EndOp(p) PROVE Contents'
  <2>1. Kept /\ pc[p] \in InOp
    BY Zenon, <1>5 DEF EndOp, durableVars, bufVars, InOp
  <2>2. \A q \in Procs : pc'[q] \notin {"write_head", "install", "erase"}
    BY SMTT(30), <1>p, <1>a, <1>5, <2>1 DEF EndOp, Goto, Woken, InOp, InCommit
  <2>3. \A q \in Procs : pc'[q] = "write_log" => tail'[q] = 1
    BY <1>p, <1>a, <1>5, <2>1 DEF EndOp, Goto, Woken, InOp, InCommit
  <2>4. headDisk' = <<>> /\ Distinct(lh)' /\ Distinct(headDisk)'
    BY <1>h, <2>1 DEF Distinct
  <2>5. LoggedUpTo(1)'
    BY <1>b, <2>1 DEF LoggedUpTo
  <2>6. \A q \in Procs : pc'[q] = "write_log" => LoggedUpTo(tail[q])'
    BY Zenon, <2>3, <2>5
  <2> QED
    BY SMTT(30), <2>2, <2>4, <2>6 DEF Contents
<1>6. ASSUME NEW p \in Procs, WriteLog(p) PROVE Contents'
  <2>1. /\ UNCHANGED <<disk, headDisk, lh, phase>> /\ tail'[p] = tail[p] + 1
        /\ pc[p] = "write_log"
    BY Zenon, <1>i, <1>p, <1>6, WriteLogInside DEF WriteLog, logVars
  <2>2. tail[p] \in 1 .. Len(lh) /\ lh[tail[p]] \in Blocks
    BY Zenon, <1>6, <1>i, LoopBlock DEF WriteLog
  <2>3. phase = "up" /\ headDisk = <<>>
    <3>1. phase = "up"
      BY <1>i, <1>t, <2>1 DEF Inv1, Control, Alone, InCommit
    <3>2. \A q \in Procs : pc[q] \notin {"install", "erase"}
      BY Zenon, <1>n, <2>1 DEF InCommit
    <3> QED
      BY Zenon, <1>c, <3>1, <3>2 DEF Contents
  <2>4. logDisk' = [logDisk EXCEPT ![tail[p]] = View(lh[tail[p]])] /\ tail[p] \in Slots
    BY Zenon, <1>6, <1>i, WriteLogInside
  <2>5. \A i \in 1 .. Len(lh) : View(lh[i])' = View(lh[i])
    BY ZenonT(60), <1>6, <1>b, <1>i, <2>1, ViewKept
  <2>6. LoggedUpTo(tail[p])
    BY <1>c, <2>1 DEF Contents
  <2>7. \A i \in 1 .. Len(lh) : i < tail[p] + 1 => logDisk'[i] = View(lh[i])'
    BY SMTT(30), <1>t, <1>b, <2>2, <2>4, <2>5, <2>6 DEF LoggedUpTo
  <2>8. LoggedUpTo(tail[p])' /\ (tail[p] = Len(lh) => LoggedUpTo(Len(lh) + 1)')
    BY Zenon, <2>1, <2>7 DEF LoggedUpTo
  <2>9. /\ \A q \in Procs : q # p => pc'[q] \notin InCommit
        /\ pc'[p] \in {"write_log", "write_head"}
        /\ pc'[p] = "write_head" => tail[p] = Len(lh)
    BY Zenon, <1>p, <1>n, <1>6 DEF WriteLog, Goto, InCommit
  <2>10. Distinct(lh)' /\ Distinct(headDisk)'
    BY Zenon, <1>c, <2>1 DEF Contents, Distinct
  <2> QED
    BY Zenon, <2>1, <2>3, <2>8, <2>9, <2>10 DEF Contents, InCommit
<1>7. ASSUME NEW p \in Procs, WriteHead(p) PROVE Contents'
  <2>1. /\ UNCHANGED <<disk, logDisk, cache, lh, phase>> /\ tail'[p] = 1 /\ headDisk' = lh
        /\ pc[p] = "write_head"
    BY Zenon, <1>p, <1>7 DEF WriteHead, logVars, bufVars
  <2>2. LoggedUpTo(Len(lh) + 1)'
    BY <1>c, <2>1 DEF Contents, LoggedUpTo, View
  <2>3. \A q \in Procs : q # p => pc'[q] \notin InCommit
    BY Zenon, <1>p, <1>n, <1>7 DEF WriteHead, Goto, InCommit
  <2>4. pc'[p] = "install" /\ InstalledUpTo(1)'
    <3>1. pc'[p] = "install"
      BY Zenon, <1>p, <1>7 DEF WriteHead, Goto
    <3>2. \A i \in 1 .. Len(lh') : ~(i < 1)
      OBVIOUS
    <3>3. InstalledUpTo(1)'
      BY <3>2 DEF InstalledUpTo
    <3> QED
      BY <3>1, <3>3
  <2>5. Distinct(lh)' /\ Distinct(headDisk)'
    BY Zenon, <1>c, <2>1 DEF Contents, Distinct
  <2> QED
    BY Zenon, <2>1, <2>2, <2>3, <2>4, <2>5 DEF Contents, InCommit
<1>8. ASSUME NEW p \in Procs, Install(p) PROVE Contents'
  <2> DEFINE t == tail[p]
  <2>1. /\ UNCHANGED <<logDisk, headDisk, lh, phase>> /\ tail'[p] = t + 1
        /\ pc[p] = "install"
    BY Zenon, <1>p, <1>8 DEF Install, logVars
  <2>2. t \in 1 .. Len(lh) /\ lh[t] \in Blocks /\ logDisk[t] \in Vals
    BY Zenon, <1>8, <1>i, LoopBlock, InstallInside DEF Install
  <2>3. /\ disk' = [disk EXCEPT ![lh[t]] = logDisk[t]]
        /\ cache' = [cache EXCEPT ![lh[t]] = logDisk[t]]
    BY Zenon, <1>8, <1>i, InstallInside
  <2>4. Distinct(lh) /\ InstalledUpTo(t) /\ headDisk = lh
        /\ (phase = "up" => LoggedUpTo(Len(lh) + 1))
    BY Zenon, <1>c, <2>1 DEF Contents
  <2>5. \A i \in 1 .. Len(lh) : i < t + 1 => disk'[lh[i]] = logDisk[i]
    BY SMTT(30), <1>t, <1>b, <2>2, <2>3, <2>4 DEF InstalledUpTo, Distinct
  <2>6. InstalledUpTo(tail[p])' /\ (t = Len(lh) => InstalledUpTo(Len(lh) + 1)')
    BY Zenon, <2>1, <2>5 DEF InstalledUpTo
  <2>7. phase = "up" => \A i \in 1 .. Len(lh) : logDisk[i] = View(lh[i])'
    <3>1. SUFFICES ASSUME phase = "up", NEW i \in 1 .. Len(lh) PROVE logDisk[i] = View(lh[i])'
      OBVIOUS
    <3>2. i < Len(lh) + 1
      BY <1>b
    <3>3. logDisk[i] = View(lh[i])
      BY Zenon, <2>4, <3>1, <3>2 DEF LoggedUpTo
    <3>4. CASE i = t
      BY SMTT(30), <1>t, <2>1, <2>2, <2>3, <3>4 DEF View
    <3>5. CASE i # t
      <4>1. lh[i] # lh[t] /\ lh[i] \in Blocks
        BY Zenon, <1>b, <2>2, <2>4, <3>5 DEF Distinct
      <4> QED
        BY <1>t, <2>1, <2>2, <2>3, <3>3, <4>1 DEF View
    <3> QED
      BY <3>4, <3>5
  <2>8. phase' = "up" => LoggedUpTo(Len(lh) + 1)'
    BY Zenon, <2>1, <2>7 DEF LoggedUpTo
  <2>9. /\ \A q \in Procs : q # p => pc'[q] \notin InCommit
        /\ pc'[p] \in {"install", "erase"}
        /\ pc'[p] = "erase" => t = Len(lh)
    BY Zenon, <1>p, <1>n, <1>8 DEF Install, Goto, InCommit
  <2>10. Distinct(lh)' /\ Distinct(headDisk)'
    BY <2>1, <2>4 DEF Distinct
  <2> QED
    BY Zenon, <2>1, <2>4, <2>6, <2>8, <2>9, <2>10 DEF Contents, InCommit
<1>9. ASSUME NEW p \in Procs, Erase(p) PROVE Contents'
  <2>1. Quiet
    BY Zenon, <1>p, <1>n, <1>9 DEF Erase, Goto, InCommit
  <2>2. headDisk' = <<>> /\ Distinct(lh)'
    BY SMTT(30), <1>9 DEF Erase, Distinct
  <2> QED
    BY Zenon, <1>q, <2>1, <2>2
<1>10. ASSUME NEW p \in Procs, Finish(p) PROVE Contents'
  <2>1. Kept
    BY Zenon, <1>10 DEF Finish, durableVars, controlVars
  <2>2. Quiet /\ \A q \in Procs : pc[q] \notin {"install", "erase"}
    BY ZenonT(60), <1>p, <1>n, <1>10 DEF Finish, Woken, InCommit
  <2>3. Distinct(lh)' /\ Distinct(headDisk)' /\ (phase = "up" => headDisk = <<>>)
    <3>1. Distinct(lh) /\ Distinct(headDisk) /\ (phase = "up" => headDisk = <<>>)
      BY Zenon, <1>c, <2>2 DEF Contents
    <3> QED
      BY <2>1, <3>1 DEF Distinct
  <2> QED
    BY Zenon, <2>1, <2>2, <2>3 DEF Contents
<1>11. CASE ReadHead
  <2>1. UNCHANGED <<disk, logDisk, headDisk, phase>> /\ lh' = headDisk /\ phase = "recovering"
    BY Zenon, <1>11 DEF ReadHead, durableVars
  <2>2. \A q \in Procs : q # InitProc => pc'[q] = "idle"
    BY Zenon, <1>p, <1>i, <1>11 DEF ReadHead, Goto, Inv1, Control, Alone
  <2>3. /\ pc'[InitProc] \in {"install", "erase"} /\ tail'[InitProc] = 1
        /\ pc'[InitProc] = "erase" => headDisk = <<>>
    BY <1>p, <1>11, LogAssumption DEF ReadHead, Goto, LogAssumption
  <2>4. /\ InstalledUpTo(1)'
        /\ headDisk = <<>> => InstalledUpTo(Len(lh) + 1)'
    BY SMTT(30), <1>b, <2>1 DEF InstalledUpTo
  <2>5. Distinct(lh)' /\ Distinct(headDisk)'
    BY ZenonT(60), <1>c, <2>1 DEF Contents, Distinct
  <2> QED
    BY <2>1, <2>2, <2>3, <2>4, <2>5, Zenon DEF Contents
<1>12. ASSUME NEW b \in Blocks, Recycle(b) PROVE Contents'
  <2>1. Kept /\ UNCHANGED <<pc, tail>>
    BY <1>12 DEF Recycle, durableVars, logVars, controlVars
  <2>2. \A i \in 1 .. Len(lh) : View(lh[i])' = View(lh[i])
    BY <1>12, <1>b, <1>i, <2>1, ViewKept
  <2>3. \A n : LoggedUpTo(n) => LoggedUpTo(n)'
    BY Zenon, <2>1, <2>2 DEF LoggedUpTo
  <2>4. \A n : InstalledUpTo(n) => InstalledUpTo(n)'
    BY Zenon, <2>1 DEF InstalledUpTo
  <2> QED
    BY <1>c, <2>1, <2>3, <2>4 DEF Contents, Distinct
<1>13. CASE Crash
  <2>1. /\ lh' = <<>> /\ UNCHANGED <<disk, logDisk, headDisk>>
        /\ phase' = "recovering" /\ \A q \in Procs : pc'[q] = "idle"
    BY ZenonT(30), <1>13 DEF Crash, durableVars
  <2>2. \A i \in 1 .. Len(lh') : FALSE
    BY <2>1
  <2>3. Distinct(lh)'
    BY Zenon, <2>2 DEF Distinct
  <2>4. Distinct(headDisk)'
    BY ZenonT(60), <1>c, <2>1 DEF Contents, Distinct
  <2> QED
    BY Zenon, <2>1, <2>3, <2>4 DEF Contents
<1>14. CASE UNCHANGED vars
  BY ZenonT(60), <1>c, <1>14 DEF vars, durableVars, bufVars, logVars, controlVars, View, LoggedUpTo, InstalledUpTo, Contents, Distinct
<1> QED
  BY Zenon, <1>1, <1>2, <1>3, <1>4, <1>5, <1>6, <1>7, <1>8, <1>9, <1>10, <1>11, <1>12, <1>13, <1>14
  DEF Next, Step, ProcStep

\* write_head() writes a header that names log blocks only.
LEMMA HeaderFitsStep ==
    ASSUME Inv3, LogFits, [Next]_vars
    PROVE  HeaderFits'
<1>1. headDisk' \in {headDisk, lh, <<>>}
  BY ZenonT(60)
  DEF Next, Step, ProcStep, BeginOp, Modify, LogWriteCheck, LogWriteAppend, EndOp, WriteLog,
      WriteHead, Install, Erase, Finish, ReadHead, Recycle, Crash, vars, durableVars
<1>2. /\ Len(lh) <= LogSize - 1 /\ Len(headDisk) <= LogSize - 1
      /\ LogSize \in Nat \ {0} /\ Len(<<>>) = 0
  BY LogAssumption DEF Inv3, HeaderFits, LogFits, LogAssumption
<1>3. Len(<<>>) <= LogSize - 1
  BY <1>2
<1> QED
  BY Zenon, <1>1, <1>2, <1>3 DEF HeaderFits

\* All three layers hold as long as no transaction has outgrown the log.
THEOREM ContentsInvariant == Spec /\ []LogFits => []Inv3
<1>1. Init => Inv3
  <2>1. Init => HeaderFits
    BY LogAssumption DEF Init, HeaderFits, LogAssumption
  <2> QED
    BY <2>1, InitControl, BuffersInit, ContentsInit DEF Inv2, Inv3
<1>2. Inv3 /\ LogFits /\ [Next]_vars => Inv3'
  BY Zenon, ControlStep, BuffersStep, ContentsStep, HeaderFitsStep DEF Inv2, Inv3
<1> QED
  BY <1>1, <1>2, PTL DEF Spec

-----------------------------------------------------------------------------
(* The log implements AtomicStore for any sequence of operations, commits, *)
(* power failures and recoveries whose transactions fit.  The argument: Recovered only changes at *)
(* write_head(), because everything else commit() and recovery write is    *)
(* either not yet named by the header on disk or what the log already      *)
(* holds for it.                                                           *)

RecoveredSpec ==
    /\ Recovered \in [Blocks -> Vals]
    /\ \A i \in 1 .. Len(headDisk) : Recovered[headDisk[i]] = logDisk[i]
    /\ \A b \in Blocks : (\A i \in 1 .. Len(headDisk) : headDisk[i] # b)
                             => Recovered[b] = disk[b]

\* What Recovered is, given that the header on disk names no block twice: the
\* log block of every named block, and the home block of every other.
LEMMA RecoveredIs == Inv3 => RecoveredSpec
<1> SUFFICES ASSUME Inv3 PROVE RecoveredSpec
  OBVIOUS
<1>1. /\ DOMAIN headDisk = 1 .. Len(headDisk) /\ Len(headDisk) \in Nat
      /\ headDisk \in [1 .. Len(headDisk) -> Blocks]
  BY Zenon, HeaderTypes DEF Inv3, Inv2, Inv1
<1>2. Distinct(headDisk) /\ Len(headDisk) <= LogSize - 1 /\ LogSize \in Nat
  BY Zenon, LogAssumption DEF Inv3, HeaderFits, Contents, LogAssumption
<1>3. logDisk \in [Slots -> Vals] /\ disk \in [Blocks -> Vals]
  BY ZenonT(60) DEF Inv3, Inv2, Inv1, TypeOK
<1> DEFINE At(b) == CHOOSE i \in DOMAIN headDisk \cap Slots : headDisk[i] = b
<1>5. \A i \in 1 .. Len(headDisk) : i \in Slots
  BY <1>1, <1>2 DEF Slots
<1>4. ASSUME NEW i \in 1 .. Len(headDisk) PROVE At(headDisk[i]) = i
  BY <1>1, <1>2, <1>5 DEF Distinct
<1>6. ASSUME NEW i \in 1 .. Len(headDisk) PROVE Recovered[headDisk[i]] = logDisk[i]
  <2>1. headDisk[i] \in Blocks
    BY <1>1
  <2>2. Recovered[headDisk[i]] = logDisk[At(headDisk[i])]
    BY <1>1, <1>5, <2>1 DEF Recovered
  <2> QED
    BY ZenonT(60), <1>4, <2>2
<1>7. ASSUME NEW b \in Blocks, \A i \in 1 .. Len(headDisk) : headDisk[i] # b
      PROVE  Recovered[b] = disk[b]
  BY <1>1, <1>7 DEF Recovered
<1>8. ASSUME NEW b \in Blocks PROVE Recovered[b] \in Vals
  <2>1. CASE \E i \in 1 .. Len(headDisk) : headDisk[i] = b
    BY <1>3, <1>5, <1>6, <2>1
  <2> QED
    BY <1>3, <1>7, <2>1
<1>9. Recovered \in [Blocks -> Vals]
  BY <1>8 DEF Recovered
<1> QED
  BY <1>6, <1>7, <1>9 DEF RecoveredSpec

\* The same of the state after a step.
LEMMA RecoveredIsNext == Inv3' => RecoveredSpec'
BY RecoveredIs, PTL

\* A reader of the file system sees a value in every block.
LEMMA SeenTypes ==
    ASSUME Inv3
    PROVE  /\ \A b \in Blocks : View(b) \in Vals
           /\ phase = "up" => Seen = [b \in Blocks |-> View(b)]
           /\ phase = "recovering" => Seen = Recovered
BY ZenonT(60) DEF Inv3, Inv2, Inv1, TypeOK, Seen, View

\* Nothing is held and nothing is dirty during recovery: the file system would
\* read the home blocks.
LEMMA CleanInRecovery ==
    ASSUME Inv3, phase = "recovering"
    PROVE  \A b \in Blocks : View(b) = disk[b]
<1>1. dirty = {} /\ Locked = {}
  BY Zenon, CommitHoldsNone DEF Inv3, Inv2, Buffers
<1> QED
  BY Zenon, <1>1 DEF Inv3, Inv2, Buffers

\* The initial states of the log are initial states of the atomic store.
LEMMA InitRefines == Init => Store!Init
<1> SUFFICES ASSUME Init PROVE Store!Init
  OBVIOUS
<1>1. Recovered = disk /\ disk \in [Blocks -> Vals]
  BY DEF Init, Recovered
<1> QED
  BY <1>1 DEF Init, Store!Init, Seen, Active, InOp

\* write_head() makes durable exactly what the file system is reading.
LEMMA WriteHeadCommits ==
    ASSUME Inv3, Inv3', NEW p \in Procs, WriteHead(p)
    PROVE  Store!Commit
<1>0. Inv1 /\ Inv2 /\ Buffers /\ Contents /\ pc \in [Procs -> PCs]
  BY ZenonT(60) DEF Inv3, Inv2, Inv1, TypeOK
<1>1. phase = "up" /\ phase' = phase /\ Locked = {}
  <2>1. pc[p] \in InCommit
    BY DEF WriteHead, InCommit
  <2>2. Locked = {}
    BY <1>0, <2>1, CommitHoldsNone
  <2> QED
    BY Zenon, <1>0, <2>2 DEF WriteHead, Inv1, Control, Alone, TypeOK
<1>2. Active = {} /\ Active' = Active
  BY <1>0, OperationAlone DEF WriteHead, Goto, Active, InOp, InCommit
<1>3. UNCHANGED <<disk, logDisk, cache, lh>> /\ headDisk' = lh
  BY Zenon DEF WriteHead, bufVars, logVars
<1>4. Seen' = Seen
  BY <1>1, <1>3 DEF Seen, View
<1>5. Len(lh) \in Nat /\ DOMAIN lh = 1 .. Len(lh)
  BY <1>0, HeaderTypes DEF Inv1
<1>6. ASSUME NEW b \in Blocks PROVE Recovered'[b] = View(b)
  <2>1. CASE \E i \in 1 .. Len(lh) : lh[i] = b
    <3>1. PICK i \in 1 .. Len(lh) : lh[i] = b
      BY Zenon, <2>1
    <3>2. Recovered'[b] = logDisk[i]
      BY SMTT(30), <1>3, <3>1, RecoveredIsNext DEF RecoveredSpec
    <3>3. LoggedUpTo(Len(lh) + 1) /\ i < Len(lh) + 1
      BY <1>0, <1>5 DEF WriteHead, Contents
    <3>4. logDisk[i] = View(lh[i])
      BY Zenon, <3>3 DEF LoggedUpTo
    <3> QED
      BY <3>1, <3>2, <3>4
  <2>2. CASE \A i \in 1 .. Len(lh) : lh[i] # b
    <3>1. b \notin dirty \cup Locked
      BY <1>0, <1>1, <1>5, <2>2 DEF Buffers, Logged
    <3>2. View(b) = disk[b]
      BY <1>0, <3>1 DEF Buffers
    <3> QED
      BY Zenon, <1>3, <2>2, <3>2, RecoveredIsNext DEF RecoveredSpec
  <2> QED
    BY <2>1, <2>2
<1>7. Recovered' = Seen
  <2>1. Seen = [b \in Blocks |-> View(b)]
    BY <1>1, SeenTypes
  <2>2. Recovered' = [b \in Blocks |-> Recovered'[b]]
    BY RecoveredIsNext DEF RecoveredSpec
  <2> QED
    BY <1>6, <2>1, <2>2
<1> QED
  BY SMTT(30), <1>2, <1>4, <1>7 DEF Store!Commit

\* install_trans() changes neither what recovery would restore nor what the
\* file system reads.
LEMMA InstallInvisible ==
    ASSUME Inv3, Inv3', LogFits, NEW p \in Procs, Install(p)
    PROVE  UNCHANGED <<Recovered, Seen, Active>>
<1>0. Inv1 /\ Inv2 /\ Contents
  BY Zenon DEF Inv3, Inv2
<1> DEFINE t == tail[p]
<1>1. t \in 1 .. Len(lh) /\ lh[t] \in Blocks /\ logDisk[t] \in Vals /\ headDisk = lh
  BY Zenon, <1>0, LoopBlock, InstallInside DEF Install, Contents
<1>2. /\ disk' = [disk EXCEPT ![lh[t]] = logDisk[t]]
      /\ cache' = [cache EXCEPT ![lh[t]] = logDisk[t]]
      /\ UNCHANGED <<logDisk, headDisk, lh, phase>>
  BY Zenon, <1>0, InstallInside DEF Install, logVars
<1>3. disk \in [Blocks -> Vals] /\ cache \in [Blocks -> Vals \cup {NoBuf}] /\ NoBuf \notin Vals
  BY ZenonT(60), <1>0, LogAssumption DEF Inv1, TypeOK, LogAssumption
<1>4. ASSUME NEW b \in Blocks PROVE Recovered'[b] = Recovered[b]
  <2>1. CASE \E i \in 1 .. Len(headDisk) : headDisk[i] = b
    <3>1. PICK i \in 1 .. Len(headDisk) : headDisk[i] = b
      BY Zenon, <2>1
    <3>2. Recovered[headDisk[i]] = logDisk[i]
      BY Zenon, RecoveredIs DEF RecoveredSpec
    <3>3. headDisk' = headDisk /\ logDisk' = logDisk
      BY Zenon, <1>2
    <3>4. Recovered'[headDisk[i]] = logDisk[i]
      BY Zenon, <3>3, RecoveredIsNext DEF RecoveredSpec
    <3> QED
      BY Zenon, <3>1, <3>2, <3>4
  <2>2. CASE \A i \in 1 .. Len(headDisk) : headDisk[i] # b
    <3>0. b # lh[t]
      BY Zenon, <1>1, <2>2
    <3>1. disk'[b] = disk[b]
      BY Zenon, <1>2, <1>3, <3>0
    <3> QED
      BY <1>2, <2>2, <3>1, RecoveredIs, RecoveredIsNext DEF RecoveredSpec
  <2> QED
    BY ZenonT(60), <2>1, <2>2
<1>5. Recovered' = Recovered
  <2>1. Recovered = [b \in Blocks |-> Recovered[b]]
    BY Zenon, RecoveredIs DEF RecoveredSpec
  <2>2. Recovered' = [b \in Blocks |-> Recovered'[b]]
    BY Zenon, RecoveredIsNext DEF RecoveredSpec
  <2> QED
    BY ZenonT(60), <1>4, <2>1, <2>2
<1>6. Seen' = Seen
  <2>1. CASE phase = "up"
    <3>1. Len(lh) \in Nat
      BY ZenonT(60), <1>0, HeaderTypes DEF Inv1
    <3>2. LoggedUpTo(Len(lh) + 1)
      BY <1>0, <2>1 DEF Install, Contents
    <3>3. logDisk[t] = View(lh[t])
      BY SMTT(30), <1>1, <3>1, <3>2 DEF LoggedUpTo
    <3>4. \A b \in Blocks : View(b)' = View(b)
      BY Zenon, <1>1, <1>2, <1>3, <3>3 DEF View
    <3> QED
      BY <1>2, <2>1, <3>4 DEF Seen
  <2>2. CASE phase # "up"
    BY ZenonT(60), <1>2, <1>5, <2>2 DEF Seen
  <2> QED
    BY <2>1, <2>2
<1>7. Active' = Active
  BY ZenonT(60), <1>0 DEF Install, Goto, Active, InOp, Inv1, TypeOK
<1> QED
  BY <1>5, <1>6, <1>7

\* Clearing the header is invisible: everything it named has been installed.
LEMMA EraseInvisible ==
    ASSUME Inv3, Inv3', NEW p \in Procs, Erase(p)
    PROVE  UNCHANGED <<Recovered, Seen, Active>>
<1>0. Inv1 /\ Contents /\ Len(lh) \in Nat /\ Len(<<>>) = 0 /\ phase \in {"recovering", "up"}
  BY ZenonT(60), HeaderTypes DEF Inv3, Inv2, Inv1, TypeOK
<1>1. headDisk = lh /\ InstalledUpTo(Len(lh) + 1)
  BY <1>0 DEF Erase, Contents
<1>2. UNCHANGED <<disk, logDisk, cache>> /\ headDisk' = <<>> /\ phase' = "up"
  BY ZenonT(60) DEF Erase, bufVars
<1>3. ASSUME NEW b \in Blocks PROVE Recovered'[b] = disk[b]
  BY SMTT(30), <1>0, <1>2, RecoveredIsNext DEF RecoveredSpec
<1>4. ASSUME NEW b \in Blocks PROVE Recovered[b] = disk[b]
  <2>1. CASE \E i \in 1 .. Len(lh) : lh[i] = b
    <3>1. PICK i \in 1 .. Len(lh) : lh[i] = b
      BY <2>1
    <3>2. disk[lh[i]] = logDisk[i]
      BY <1>0, <1>1 DEF InstalledUpTo
    <3> QED
      BY Zenon, <1>1, <3>1, <3>2, RecoveredIs DEF RecoveredSpec
  <2>2. CASE \A i \in 1 .. Len(lh) : lh[i] # b
    BY Zenon, <1>1, <2>2, RecoveredIs DEF RecoveredSpec
  <2> QED
    BY Zenon, <2>1, <2>2
<1>5. Recovered' = Recovered
  BY SMTT(30), <1>3, <1>4, RecoveredIs, RecoveredIsNext DEF RecoveredSpec
<1>6. Seen' = [b \in Blocks |-> View(b)]
  BY Zenon, <1>2 DEF Seen, View
<1>7. ASSUME phase = "up" PROVE Seen' = Seen
  BY Zenon, <1>6, <1>7 DEF Seen
<1>8. ASSUME phase = "recovering" PROVE Seen' = Seen
  <2>1. Seen = Recovered /\ \A b \in Blocks : View(b) = Recovered[b]
    BY <1>4, <1>8, CleanInRecovery, SeenTypes
  <2> QED
    BY <1>6, <2>1, RecoveredIs DEF RecoveredSpec
<1>9. Seen' = Seen
  BY SMTT(30), <1>0, <1>7, <1>8
<1>10. Active' = Active
  BY ZenonT(60), <1>0 DEF Erase, Goto, Active, InOp, Inv1, TypeOK
<1> QED
  BY <1>5, <1>9, <1>10

\* Every step of the log is a step of the atomic store or leaves it alone.
LEMMA StepRefines ==
    ASSUME Inv3, Inv3', LogFits, [Next]_vars
    PROVE  [Store!Next]_Store!vars
<1>0. /\ Inv1 /\ Inv2 /\ Contents
      /\ pc \in [Procs -> PCs] /\ phase \in {"recovering", "up"}
      /\ disk \in [Blocks -> Vals] /\ cache \in [Blocks -> Vals \cup {NoBuf}] /\ NoBuf \notin Vals
  BY ZenonT(60), LogAssumption DEF Inv3, Inv2, Inv1, TypeOK, LogAssumption
<1> DEFINE Stutter == UNCHANGED <<Recovered, Seen, Active>>
           G == Stutter \/ Store!Next
<1> SUFFICES G
  BY Zenon DEF Store!vars
<1>1. ASSUME NEW p \in Procs, BeginOp(p) PROVE G
  <2>1. UNCHANGED <<Recovered, Seen>>
    BY <1>1 DEF BeginOp, Recovered, Seen, View, durableVars, bufVars, controlVars
  <2>2. CASE pc' = [pc EXCEPT ![p] = "sleeping"]
    <3>1. Active' = Active
      BY <1>0, <1>1, <2>2 DEF BeginOp, Active, InOp
    <3> QED
      BY <2>1, <3>1
  <2>3. CASE pc' = [pc EXCEPT ![p] = "op"]
    <3>1. p \notin Active /\ Active' = Active \cup {p}
      BY <1>0, <1>1, <2>3 DEF BeginOp, Active, InOp
    <3> QED
      BY SMTT(30), <2>1, <3>1 DEF Store!Next, Store!Begin
  <2> QED
    BY SMTT(30), <1>1, <2>2, <2>3 DEF BeginOp, Goto
<1>2. ASSUME NEW p \in Procs, NEW b \in Blocks, NEW v \in Vals, Modify(p, b, v) PROVE G
  <2>1. Recovered' = Recovered
    BY Zenon, <1>2 DEF Modify, Recovered, durableVars
  <2>2. Active' = Active /\ p \in Active
    BY Zenon, <1>0, <1>2 DEF Modify, Goto, Active, InOp
  <2>3. phase = "up" /\ phase' = "up"
    BY SMTT(30), <1>0, <1>2, OperationAlone DEF Modify, InOp, controlVars
  <2>4. \A c \in Blocks : View(c)' = IF c = b THEN v ELSE View(c)
    BY <1>0, <1>2 DEF Modify, View, durableVars
  <2>5. Seen' = [Seen EXCEPT ![b] = v]
    BY ZenonT(60), <2>3, <2>4 DEF Seen
  <2> QED
    BY ZenonT(60), <2>1, <2>2, <2>5 DEF Store!Next, Store!Write
<1>3. ASSUME NEW p \in Procs, LogWriteCheck(p) PROVE G
  <2>1. UNCHANGED <<Recovered, Seen>>
    BY Zenon, <1>3 DEF LogWriteCheck, Recovered, Seen, View, durableVars, bufVars
  <2>2. Active' = Active
    BY Zenon, <1>0, <1>3 DEF LogWriteCheck, Goto, Active, InOp
  <2> QED
    BY <2>1, <2>2
<1>4. ASSUME NEW p \in Procs, LogWriteAppend(p) PROVE G
  <2>1. UNCHANGED <<Recovered, Seen>>
    BY Zenon, <1>4 DEF LogWriteAppend, Recovered, Seen, View, durableVars, controlVars
  <2>2. Active' = Active
    BY <1>0, <1>4 DEF LogWriteAppend, Goto, Active, InOp
  <2> QED
    BY <2>1, <2>2
<1>5. ASSUME NEW p \in Procs, EndOp(p) PROVE G
  <2>1. UNCHANGED <<Recovered, Seen>>
    BY Zenon, <1>5 DEF EndOp, Recovered, Seen, View, durableVars, bufVars
  <2>2. p \in Active /\ Active' = Active \ {p}
    BY <1>0, <1>5 DEF EndOp, Goto, Woken, Active, InOp
  <2> QED
    BY Zenon, <2>1, <2>2 DEF Store!Next, Store!End
<1>6. ASSUME NEW p \in Procs, WriteLog(p) PROVE G
  <2>1. phase = "up" /\ phase' = phase /\ headDisk = <<>> /\ UNCHANGED <<disk, headDisk>>
    BY Zenon, <1>0, <1>6, WriteLogInside DEF WriteLog, Inv1, Control, Alone, Contents, InCommit
  <2>2. Recovered' = Recovered
    BY <2>1 DEF Recovered
  <2>3. \A c \in Blocks : View(c)' = View(c)
    BY Zenon, <1>0, <1>6, ViewKept
  <2>4. Seen' = Seen
    BY Zenon, <2>1, <2>3 DEF Seen
  <2>5. Active' = Active
    BY Zenon, <1>0, <1>6 DEF WriteLog, Goto, Active, InOp
  <2> QED
    BY Zenon, <2>2, <2>4, <2>5
<1>7. ASSUME NEW p \in Procs, WriteHead(p) PROVE G
  BY Zenon, <1>7, WriteHeadCommits DEF Store!Next
<1>8. ASSUME NEW p \in Procs, Install(p) PROVE G
  BY Zenon, <1>8, InstallInvisible
<1>9. ASSUME NEW p \in Procs, Erase(p) PROVE G
  BY Zenon, <1>9, EraseInvisible
<1>10. ASSUME NEW p \in Procs, Finish(p) PROVE G
  <2>1. UNCHANGED <<Recovered, Seen>>
    BY Zenon, <1>10 DEF Finish, Recovered, Seen, View, durableVars, bufVars, controlVars
  <2>2. Active' = Active
    BY <1>0, <1>10 DEF Finish, Woken, Active, InOp
  <2> QED
    BY <2>1, <2>2
<1>11. CASE ReadHead
  <2>1. UNCHANGED <<Recovered, Seen>>
    BY Zenon, <1>11 DEF ReadHead, Recovered, Seen, View, durableVars, bufVars
  <2>2. Active' = Active
    BY <1>0, <1>11 DEF ReadHead, Goto, Active, InOp
  <2> QED
    BY Zenon, <2>1, <2>2
<1>12. ASSUME NEW b \in Blocks, Recycle(b) PROVE G
  <2>1. Recovered' = Recovered /\ phase' = phase /\ Active' = Active
    BY <1>12 DEF Recycle, Recovered, Active, durableVars, controlVars
  <2>2. \A c \in Blocks : View(c)' = View(c)
    BY <1>0, <1>12, ViewKept
  <2>3. Seen' = Seen
    BY <2>1, <2>2 DEF Seen
  <2> QED
    BY Zenon, <2>1, <2>3
<1>13. CASE Crash
  <2>1. Recovered' = Recovered /\ phase' = "recovering"
    BY <1>13 DEF Crash, Recovered, durableVars
  <2>2. Seen' = Recovered
    BY <2>1 DEF Seen
  <2>3. Active' = {}
    BY ZenonT(30), <1>13 DEF Crash, Active, InOp
  <2> QED
    BY Zenon, <2>1, <2>2, <2>3 DEF Store!Next, Store!Crash
<1>14. CASE UNCHANGED vars
  BY <1>14 DEF vars, durableVars, bufVars, controlVars, Recovered, Seen, View, Active
<1> HIDE DEF G
<1> QED
  BY ZenonT(60), <1>1, <1>2, <1>3, <1>4, <1>5, <1>6, <1>7, <1>8, <1>9, <1>10, <1>11, <1>12, <1>13, <1>14
  DEF Next, Step, ProcStep

\* Crash atomicity for every instance: whatever the operations do and wherever
\* power fails, what recovery restores is the state at the last write_head(),
\* as long as no transaction outgrows the log and is written over home blocks.
THEOREM LogImplementsStore == Spec /\ []LogFits => CrashAtomic
<1>1. Inv3 /\ Inv3' /\ LogFits /\ [Next]_vars => [Store!Next]_Store!vars
  BY StepRefines
<1> QED
  BY <1>1, InitRefines, ContentsInvariant, PTL DEF Spec, CrashAtomic, Store!Spec

-----------------------------------------------------------------------------
(* How far a transaction can outgrow the log, whatever its operations      *)
(* write: every process between the tests of log_write() and its append    *)
(* runs an operation that begin_op() admitted.                             *)

Appending == {p \in Procs : pc[p] = "append"}

\* The transaction, with the buffers about to be appended to it, stays short
\* of the room there is plus one block for every operation admitted.
Overrun ==
    /\ outstanding * MAXOPBLOCKS <= LOGSIZE
    /\ Len(lh) + Cardinality(Appending) < Room + Admitted
    /\ Len(headDisk) < Room + Admitted

OverrunInv == Inv1 /\ Overrun

\* As many operations as are charged MAXOPBLOCKS each within LOGSIZE.
LEMMA AdmittedBounds ==
    /\ Admitted \in Nat \ {0} /\ Room \in Nat
    /\ \A a \in Nat : a * MAXOPBLOCKS <= LOGSIZE => a <= Admitted
<1> DEFINE m == MAXOPBLOCKS
           q == LOGSIZE \div MAXOPBLOCKS
<1>1. m \in Nat \ {0} /\ LOGSIZE \in Nat /\ m <= LOGSIZE /\ LogSize \in Nat \ {0}
  BY LogAssumption DEF LogAssumption
<1>2. q \in Int /\ m * q <= LOGSIZE /\ LOGSIZE < m * (q + 1)
  BY <1>1
<1>3. ASSUME NEW a \in Nat, a * m <= LOGSIZE PROVE a <= q
  <2>1. SUFFICES ASSUME q + 1 <= a PROVE FALSE
    BY <1>2
  <2>2. m * (q + 1) <= m * a
    BY <1>1, <1>2, <2>1
  <2> QED
    BY <1>1, <1>2, <1>3, <2>2
<1>4. 1 <= q
  BY <1>1, <1>3
<1> QED
  BY <1>1, <1>2, <1>3, <1>4 DEF Admitted, Room

\* Who is about to append runs an admitted operation.
LEMMA AppendingFinite ==
    /\ IsFiniteSet(Appending) /\ Cardinality(Appending) \in Nat
    /\ Cardinality(Appending) <= Cardinality(Active)
<1>1. Appending \subseteq Active
  BY DEF Appending, Active, InOp
<1> QED
  BY <1>1, ActiveFinite, FS_Subset, FS_CardinalityType

\* The tests of log_write(), begin_op()'s reservation and the append together
\* keep the overrun below the number of operations admitted.
LEMMA OverrunStep ==
    ASSUME OverrunInv, [Next]_vars
    PROVE  Overrun'
<1>0. /\ Inv1 /\ Overrun /\ pc \in [Procs -> PCs]
      /\ Len(lh) \in Nat /\ Len(headDisk) \in Nat /\ outstanding \in Nat
      /\ MAXOPBLOCKS \in Nat \ {0} /\ LOGSIZE \in Nat /\ LogSize \in Nat \ {0}
  BY ZenonT(60), HeaderTypes, LogAssumption DEF OverrunInv, Inv1, TypeOK, LogAssumption
<1>1. /\ Cardinality(Appending) \in Nat /\ Cardinality(Appending') \in Nat
      /\ outstanding = Cardinality(Active) /\ Len(<<>>) = 0
  <2>1. (Cardinality(Appending) \in Nat)'
    BY AppendingFinite, PTL
  <2> QED
    BY <1>0, <2>1, AppendingFinite DEF Inv1, Control
<1>2. Room \in Nat /\ Admitted \in Nat \ {0} /\ outstanding <= Admitted
  BY <1>0, AdmittedBounds DEF Overrun
<1>3. ASSUME UNCHANGED <<lh, headDisk, Appending>>, outstanding' * MAXOPBLOCKS <= LOGSIZE
      PROVE  Overrun'
  BY <1>0, <1>3 DEF Overrun, Room, Admitted
<1>4. ASSUME lh' \in {lh, headDisk, <<>>}, headDisk' \in {lh, headDisk, <<>>},
             Appending' = {}, outstanding' * MAXOPBLOCKS <= LOGSIZE
      PROVE  Overrun'
  <2>1. Cardinality(Appending') = 0
    BY <1>4, FS_EmptySet
  <2>2. Len(lh) < Room + Admitted /\ Len(headDisk) < Room + Admitted /\ Len(<<>>) < Room + Admitted
    BY <1>0, <1>1, <1>2 DEF Overrun
  <2>3. Len(lh') < Room + Admitted /\ Len(headDisk') < Room + Admitted /\ Len(lh') \in Nat
    BY Zenon, <1>0, <1>1, <1>4, <2>2
  <2> QED
    BY <1>4, <2>1, <2>3 DEF Overrun, Room, Admitted
<1>11. ASSUME NEW p \in Procs, BeginOp(p) PROVE Overrun'
  <2>1. UNCHANGED <<lh, headDisk>>
    BY <1>11 DEF BeginOp, durableVars
  <2>2. Appending' = Appending
    BY <1>0, <1>11 DEF BeginOp, Goto, Appending
  <2>3. outstanding' * MAXOPBLOCKS <= LOGSIZE
    BY <1>0, <1>11 DEF BeginOp, NoSpace, Overrun
  <2> QED
    BY <1>3, <2>1, <2>2, <2>3
<1>12. ASSUME NEW p \in Procs, LogWriteCheck(p) PROVE Overrun'
  <2>1. UNCHANGED <<lh, headDisk, outstanding>>
    BY <1>12 DEF LogWriteCheck, durableVars, logVars
  <2>2. CASE LogWritePanic = "no"
    <3>1. Len(lh) < Room
      BY <1>0, <2>2 DEF LogWritePanic, Room
    <3>2. Active' = Active
      BY <1>0, <1>12 DEF LogWriteCheck, Goto, Active, InOp
    <3>3. Cardinality(Appending') <= outstanding
      <4>1. (Cardinality(Appending) <= Cardinality(Active))'
        BY AppendingFinite, PTL
      <4> QED
        BY <1>1, <3>2, <4>1
    <3>4. Len(lh) + Cardinality(Appending') < Room + Admitted
      BY <1>0, <1>1, <1>2, <3>1, <3>3
    <3>5. /\ outstanding' * MAXOPBLOCKS <= LOGSIZE
          /\ Len(lh') + Cardinality(Appending') < Room + Admitted
          /\ Len(headDisk') < Room + Admitted
      BY Zenon, <1>0, <2>1, <3>4 DEF Overrun
    <3> QED
      BY <3>5 DEF Overrun, Room, Admitted
  <2>3. CASE LogWritePanic # "no"
    <3>1. Appending' = Appending
      BY <1>0, <1>12, <2>3 DEF LogWriteCheck, Goto, Appending
    <3> QED
      BY <1>0, <1>3, <2>1, <3>1 DEF Overrun
  <2> QED
    BY <2>2, <2>3
<1>13. ASSUME NEW p \in Procs, LogWriteAppend(p) PROVE Overrun'
  <2>1. UNCHANGED <<headDisk, outstanding>>
    BY <1>13 DEF LogWriteAppend, durableVars
  <2>2. p \in Appending /\ Appending' = Appending \ {p}
    BY <1>0, <1>13 DEF LogWriteAppend, Goto, Appending
  <2>3. Cardinality(Appending') = Cardinality(Appending) - 1
    BY <2>2, AppendingFinite, FS_RemoveElement
  <2>4. Len(lh') \in Nat /\ Len(lh') <= Len(lh) + 1
    <3>1. buf[p] \in Blocks /\ lh \in Seq(Blocks)
      BY <1>0, <1>13, AppendGrows, HeaderTypes DEF Inv1
    <3> QED
      BY <1>0, <1>13, <3>1, SeqAppend DEF LogWriteAppend
  <2>5. Len(lh') + Cardinality(Appending') < Room + Admitted
    BY <1>0, <1>1, <1>2, <2>3, <2>4 DEF Overrun
  <2> QED
    BY <1>0, <2>1, <2>5 DEF Overrun, Room, Admitted
<1>14. ASSUME NEW p \in Procs, EndOp(p) PROVE Overrun'
  <2>1. UNCHANGED <<lh, headDisk>>
    BY <1>14 DEF EndOp, durableVars
  <2>2. Appending' = Appending
    BY Zenon, <1>0, <1>14 DEF EndOp, Goto, Woken, Appending
  <2>3. outstanding >= 1
    BY <1>1, <1>14, ActiveFinite DEF EndOp, Active, InOp
  <2>4. outstanding' * MAXOPBLOCKS <= outstanding * MAXOPBLOCKS
    BY <1>0, <1>14, <2>3 DEF EndOp
  <2>5. outstanding' * MAXOPBLOCKS <= LOGSIZE
    BY <1>0, <1>14, <2>3, <2>4 DEF EndOp, Overrun
  <2> QED
    BY <1>3, <2>1, <2>2, <2>5
<1>15. ASSUME NEW p \in Procs, WriteLog(p) \/ WriteHead(p) \/ Install(p) \/ Erase(p) \/ Finish(p)
       PROVE  Overrun'
  <2>1. pc[p] \in InCommit /\ UNCHANGED outstanding
    BY Zenon, <1>15 DEF WriteLog, WriteHead, Install, Erase, Finish, InCommit, logVars
  <2>2. \A r \in Procs : pc[r] \notin InOp
    BY Zenon, <1>0, <2>1, OperationAlone
  <2>3. \A r \in Procs : pc'[r] # "append"
    BY ZenonT(60), <1>0, <1>15, <2>2 DEF WriteLog, WriteHead, Install, Erase, Finish, Goto, Woken, InOp
  <2>4. Appending' = {}
    BY <2>3 DEF Appending
  <2>5. lh' \in {lh, <<>>} /\ headDisk' \in {headDisk, lh, <<>>}
    BY Zenon, <1>15 DEF WriteLog, WriteHead, Install, Erase, Finish, durableVars, logVars
  <2> QED
    BY <1>0, <1>4, <2>1, <2>4, <2>5 DEF Overrun
<1>16. CASE ReadHead
  <2>1. \A r \in Procs : pc[r] = "idle"
    BY <1>0, <1>16 DEF ReadHead, Inv1, Control, Alone
  <2>2. Appending' = {}
    BY <1>0, <1>16, <2>1 DEF ReadHead, Goto, Appending
  <2>3. lh' = headDisk /\ UNCHANGED <<headDisk, outstanding>>
    BY <1>16 DEF ReadHead, durableVars
  <2> QED
    BY <1>0, <1>4, <2>2, <2>3 DEF Overrun
<1>17. CASE Crash
  <2>1. Appending' = {} /\ lh' = <<>> /\ headDisk' = headDisk /\ outstanding' = 0
    BY <1>17 DEF Crash, Appending, durableVars
  <2> QED
    BY <1>0, <1>4, <2>1
<1>18. ASSUME UNCHANGED <<lh, headDisk, outstanding>>, Appending' = Appending PROVE Overrun'
  BY <1>0, <1>3, <1>18 DEF Overrun
<1>19. ASSUME NEW p \in Procs, NEW b \in Blocks, NEW v \in Vals, Modify(p, b, v) PROVE Overrun'
  BY <1>0, <1>18, <1>19 DEF Modify, Goto, Appending, durableVars, logVars
<1>20. ASSUME NEW b \in Blocks, Recycle(b) PROVE Overrun'
  BY <1>18, <1>20 DEF Recycle, Appending, durableVars, logVars
<1>21. CASE UNCHANGED vars
  BY <1>18, <1>21 DEF vars, Appending, durableVars, logVars
<1> QED
  BY ZenonT(60), <1>11, <1>12, <1>13, <1>14, <1>15, <1>16, <1>17, <1>19, <1>20, <1>21
  DEF Next, Step, ProcStep

\* Whatever the operations write, the tests that log_write() makes without
\* log.lock let a transaction overrun its room by fewer blocks than begin_op()
\* admits operations.
THEOREM OverrunIsBounded == Spec => []OverrunBounded
<1>1. Init => OverrunInv
  <2> SUFFICES ASSUME Init PROVE Overrun
    BY InitControl DEF OverrunInv
  <2>1. Appending = {}
    BY DEF Init, Appending
  <2>2. Cardinality(Appending) = 0 /\ Len(<<>>) = 0
    BY <2>1, FS_EmptySet
  <2>3. Room \in Nat /\ Admitted \in Nat \ {0} /\ MAXOPBLOCKS \in Nat /\ LOGSIZE \in Nat
    BY AdmittedBounds, LogAssumption DEF LogAssumption
  <2> QED
    BY <2>2, <2>3 DEF Init, Overrun
<1>2. OverrunInv /\ [Next]_vars => OverrunInv'
  BY ControlStep, OverrunStep DEF OverrunInv
<1>3. OverrunInv => OverrunBounded
  <2> SUFFICES ASSUME OverrunInv PROVE OverrunBounded
    OBVIOUS
  <2>1. Len(lh) \in Nat /\ Cardinality(Appending) \in Nat /\ Room \in Nat /\ Admitted \in Nat
    BY HeaderTypes, AppendingFinite, AdmittedBounds DEF OverrunInv, Inv1
  <2> QED
    BY <2>1 DEF OverrunInv, Overrun, OverrunBounded
<1> QED
  BY <1>1, <1>2, <1>3, PTL DEF Spec
=============================================================================
