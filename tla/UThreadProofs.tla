---------------------------- MODULE UThreadProofs ----------------------------
(* The user-level threads: for every pool, every number of tickets and every *)
(* depth of calls, the CPU is on the stack of the thread the library takes   *)
(* to be running, a switch resumes a thread where it yielded, and the        *)
(* lottery has a winner, until an alarm expires between the alarm(0) and the *)
(* end of a library call.                                                    *)
(*                                                                           *)
(* The inductive invariant describes every stack: the one in use may be      *)
(* returned into down to its thread, and the others were left in a yield at  *)
(* the depth their esp says or have never run.                               *)
EXTENDS UThread, FiniteSetTheorems, TLAPS

\* A sequence is a function on an interval, and its elements have its type.
LEMMA SeqTyped ==
    ASSUME NEW S, NEW s \in Seq(S)
    PROVE  /\ Len(s) \in Nat /\ DOMAIN s = 1 .. Len(s) /\ s \in [1 .. Len(s) -> S]
           /\ \A i \in 1 .. Len(s) : s[i] \in S
           /\ (s = <<>>) <=> (Len(s) = 0)
  OBVIOUS

\* A set of naturals has a least element.
LEMMA LeastExists ==
    ASSUME NEW T, T \subseteq Nat, T # {} PROVE \E x \in T : \A y \in T : x <= y
<1>1. \A x, y \in Nat : x < y => <<x, y>> \in OpToRel(<, Nat)
  BY DEF OpToRel
<1>2. PICK x \in T : \A y \in T : ~(<<y, x>> \in OpToRel(<, Nat))
  BY ZenonT(60), WFMin, NatLessThanWellFounded
<1>3. ASSUME NEW y \in T PROVE x <= y
  <2>1. x \in Nat /\ y \in Nat
    OBVIOUS
  <2>2. ~(y < x)
    BY ZenonT(60), <1>1, <1>2, <2>1
  <2>. QED
    BY <2>1, <2>2
<1>. QED
  BY <1>3

\* Division with remainder.
LEMMA DivMod ==
    ASSUME NEW B \in Nat \ {0}, NEW x \in Int
    PROVE  x \div B \in Int /\ x % B \in 0 .. B - 1 /\ x = B * (x \div B) + (x % B)
  OBVIOUS

States == {"FREE", "RUNNING", "RUNNABLE", "SLEEP"}
Functions == {"thread", "create", "exit", "join", "yield"}
Places == {"start", "run", "off", "body", "zero", "save", "pick", "load", "on"}

Frames ==
    {f \in [fn : Functions, at : Places, arg : Int] :
        /\ f.fn = "thread" <=> f.at \in {"start", "run"}
        /\ f.at \in {"save", "pick", "load"} => f.fn = "yield"}

TypeOK ==
    /\ state \in [Pool -> States]
    /\ esp \in [Pool -> {Null} \cup (Pool \X Nat)]
    /\ calls \in [Pool -> Seq(Frames)]
    /\ next_tid \in Nat
    /\ sp \in Pool /\ calls[sp] # <<>>
    /\ c_uthread_index \in 0 .. MAX_THREADS

\* Where a call can be interrupted, or wait for the one it made.
Resumable == {"run", "off", "body", "save"}

Switching == Top.at \in {"pick", "load"}

\* Every call on the stack of i below the top can be returned to, the first is
\* the thread itself.
Resumes(i) ==
    /\ Len(calls[i]) >= 1 /\ calls[i][1].fn = "thread"
    /\ \A d \in 1 .. Len(calls[i]) - 1 : calls[i][d].at \in Resumable

Loaded(i) == calls[i] = <<Call("thread", "start")>>
Zeroing(i) == Top.fn = "create" /\ Top.at = "zero" /\ Top.arg = i

\* i has never run: its stack is loaded, and its esp is or is about to be reset.
Fresh(i) == Loaded(i) /\ (esp[i] = Null \/ Zeroing(i))

\* i has called yield, and its esp says where.
Yielded(i) ==
    /\ Resumes(i)
    /\ esp[i] = <<i, Len(calls[i])>>
    /\ calls[i][Len(calls[i])].fn = "yield"

\* Every thread off the CPU can be switched to.
OffCpu == \A i \in Pool : state[i] # "FREE" /\ (Switching \/ i # sp) => Fresh(i) \/ Yielded(i)

\* A thread being created has not run.
BeingCreated == \A i \in Pool : Zeroing(i) => Loaded(i)

\* The thread on the CPU, and what the library takes its state to be.
OnCpu ==
    ~Switching =>
        /\ sp = c_uthread_index
        /\ state[sp] # "FREE" => Resumes(sp)
        /\ Top.fn = "exit" /\ Top.at = "zero" => state[sp] = "FREE"
        /\ state[sp] # "RUNNABLE"
        /\ state[sp] # "RUNNING" => \/ Top.fn = "exit" /\ Top.at = "zero"
                                    \/ Top.fn = "yield" /\ Top.at \in {"off", "save"}

\* Nobody is RUNNING but the thread of c_uthread_index.
OneRunning ==
    /\ \A i \in Pool : state[i] = "RUNNING" => i = c_uthread_index /\ Top.at # "pick"
    /\ Top.at = "load" /\ c_uthread_index \in Pool => state[c_uthread_index] = "RUNNING"

\* A signal interrupts a thread, or a library call before its alarm(0) is over.
Quiet == pending => Top.at \in {"run", "off"} \/ (Top.at \in {"body", "save"} /\ trapped)

\* A ticket drawn has an owner.
TicketOwned == Top.at = "load" /\ c_uthread_index \notin Pool => Live = {}

Inv == TypeOK /\ OffCpu /\ BeingCreated /\ OnCpu /\ OneRunning /\ Quiet /\ TicketOwned

-----------------------------------------------------------------------------
(* What a step does to the stack in use *)

\* The stack the CPU is on is not empty, and its top is a call.
LEMMA TopIsFrame ==
    ASSUME TypeOK
    PROVE  /\ Len(calls[sp]) \in Nat \ {0} /\ Top \in Frames
           /\ \A i \in Pool : Len(calls[i]) \in Nat /\ DOMAIN calls[i] = 1 .. Len(calls[i])
           /\ \A i \in Pool : \A d \in 1 .. Len(calls[i]) : calls[i][d] \in Frames
<1>1. \A i \in Pool : calls[i] \in Seq(Frames)
  BY DEF TypeOK
<1>2. sp \in Pool /\ calls[sp] \in Seq(Frames) /\ calls[sp] # <<>>
  BY DEF TypeOK
<1>3. Len(calls[sp]) \in Nat \ {0}
  BY <1>2, SeqTyped
<1>4. Top \in Frames
  BY <1>2, <1>3 DEF Top
<1>. QED
  BY <1>1, <1>3, <1>4

\* The top call of the stack in use changes.
LEMMA ReplaceTop ==
    ASSUME TypeOK, NEW k \in Frames, k.fn = Top.fn, sp' = sp,
           calls'[sp] = [calls[sp] EXCEPT ![Len(calls[sp])] = k]
    PROVE  /\ calls'[sp] \in Seq(Frames) /\ calls'[sp] # <<>>
           /\ Top' = k
           /\ Len(calls'[sp]) = Len(calls[sp])
           /\ Resumes(sp) => Resumes(sp)'
<1>. DEFINE n == Len(calls[sp])
<1>. DEFINE s == [calls[sp] EXCEPT ![n] = k]
<1>1. calls[sp] \in Seq(Frames)
  BY DEF TypeOK
<1>2. n \in Nat \ {0} /\ calls[sp][n] = Top
  BY TopIsFrame DEF Top
<1>3. /\ s \in Seq(Frames) /\ Len(s) = n
      /\ \A d \in 1 .. n - 1 : s[d] = calls[sp][d]
      /\ s[n] = k
  BY <1>1, <1>2
<1>4. s # <<>>
  BY <1>2, <1>3
<1>5. Top' = k
  BY <1>3 DEF Top
<1>6. s[1].fn = calls[sp][1].fn
  <2>1. CASE n = 1
    BY <1>2, <1>3, <2>1
  <2>2. CASE n # 1
    BY <1>2, <1>3, <2>2
  <2>. QED
    BY <2>1, <2>2
<1>7. calls'[sp] = s
  OBVIOUS
<1>. HIDE DEF s
<1>8. Resumes(sp) => Resumes(sp)'
  <2>. SUFFICES ASSUME Resumes(sp) PROVE Resumes(sp)'
    OBVIOUS
  <2>1. \A d \in 1 .. Len(calls'[sp]) - 1 : calls'[sp][d].at \in Resumable
    BY <1>3, <1>7 DEF Resumes
  <2>2. Len(calls'[sp]) >= 1 /\ calls'[sp][1].fn = "thread"
    BY <1>3, <1>6, <1>7 DEF Resumes
  <2>. QED
    BY <2>1, <2>2 DEF Resumes, Resumable
<1>. QED
  BY Zenon, <1>3, <1>4, <1>5, <1>7, <1>8

\* A function goes on to another place.
LEMMA GotoTop ==
    ASSUME TypeOK, NEW x \in Places, Goto(x), sp' = sp,
           Top.fn = "thread" <=> x \in {"start", "run"},
           x \in {"save", "pick", "load"} => Top.fn = "yield"
    PROVE  /\ calls' \in [Pool -> Seq(Frames)] /\ calls'[sp] # <<>>
           /\ Top'.fn = Top.fn /\ Top'.at = x /\ Top'.arg = Top.arg
           /\ \A i \in Pool : i # sp => calls'[i] = calls[i]
           /\ Len(calls'[sp]) = Len(calls[sp])
           /\ Resumes(sp) => Resumes(sp)'
<1>. DEFINE n == Len(calls[sp])
<1>. DEFINE k == [Top EXCEPT !.at = x]
<1>1. calls \in [Pool -> Seq(Frames)] /\ sp \in Pool /\ calls[sp] \in Seq(Frames)
  BY DEF TypeOK
<1>2. n \in Nat \ {0} /\ calls[sp][n] = Top /\ Top \in Frames
  BY TopIsFrame DEF Top
<1>. DEFINE s == [calls[sp] EXCEPT ![n] = [@ EXCEPT !.at = x]]
<1>3. calls' = [calls EXCEPT ![sp] = s]
  BY DEF Goto
<1>4. k \in Frames /\ k.fn = Top.fn /\ k.at = x /\ k.arg = Top.arg
  BY <1>2 DEF Frames
<1>5. calls'[sp] = [calls[sp] EXCEPT ![n] = k] /\ \A i \in Pool : i # sp => calls'[i] = calls[i]
  <2>1. s = [calls[sp] EXCEPT ![n] = k]
    BY <1>1, <1>2
  <2>. HIDE DEF s, k
  <2>. QED
    BY <1>1, <1>3, <2>1
<1>. HIDE DEF k
<1>6. /\ calls'[sp] \in Seq(Frames) /\ calls'[sp] # <<>> /\ Top' = k
      /\ Len(calls'[sp]) = n /\ (Resumes(sp) => Resumes(sp)')
  BY <1>4, <1>5, ReplaceTop
<1>7. calls' \in [Pool -> Seq(Frames)]
  <2>. HIDE DEF s
  <2>1. calls' = [i \in Pool |-> calls'[i]]
    BY Zenon, <1>1, <1>3
  <2>. QED
    BY Zenon, <1>1, <1>5, <1>6, <2>1
<1>. QED
  BY <1>4, <1>5, <1>6, <1>7

\* A call.
LEMMA PushTop ==
    ASSUME TypeOK, NEW k \in Frames, calls' = CallOn(sp, k), sp' = sp
    PROVE  /\ calls' \in [Pool -> Seq(Frames)] /\ calls'[sp] # <<>>
           /\ Top' = k
           /\ \A i \in Pool : i # sp => calls'[i] = calls[i]
           /\ Resumes(sp) /\ Top.at \in Resumable => Resumes(sp)'
<1>1. calls \in [Pool -> Seq(Frames)] /\ sp \in Pool /\ calls[sp] \in Seq(Frames)
  BY DEF TypeOK
<1>2. calls' = [calls EXCEPT ![sp] = Append(calls[sp], k)]
  BY DEF CallOn
<1>. DEFINE s == Append(calls[sp], k)
<1>3. /\ s \in Seq(Frames) /\ Len(s) = Len(calls[sp]) + 1
      /\ \A d \in 1 .. Len(calls[sp]) : s[d] = calls[sp][d]
      /\ s[Len(calls[sp]) + 1] = k
  BY <1>1
<1>4. calls'[sp] = s /\ \A i \in Pool : i # sp => calls'[i] = calls[i]
  BY <1>1, <1>2
<1>5. calls' \in [Pool -> Seq(Frames)]
  BY <1>1, <1>2, <1>3
<1>. HIDE DEF s
<1>6. Top' = k
  BY <1>3, <1>4 DEF Top
<1>7. calls'[sp] # <<>>
  BY <1>1, <1>3, <1>4
<1>8. Resumes(sp) /\ Top.at \in Resumable => Resumes(sp)'
  <2>. SUFFICES ASSUME Resumes(sp), Top.at \in Resumable PROVE Resumes(sp)'
    OBVIOUS
  <2>1. Len(calls[sp]) \in Nat \ {0}
    BY TopIsFrame
  <2>2. \A d \in 1 .. Len(calls[sp]) : calls[sp][d].at \in Resumable
    BY <2>1 DEF Resumes, Top
  <2>3. \A d \in 1 .. Len(calls'[sp]) - 1 : calls'[sp][d].at \in Resumable
    BY <1>3, <1>4, <2>1, <2>2
  <2>4. Len(calls'[sp]) >= 1 /\ calls'[sp][1].fn = "thread"
    BY <1>3, <1>4, <2>1 DEF Resumes
  <2>. QED
    BY <2>3, <2>4 DEF Resumes, Resumable
<1>. QED
  BY <1>3, <1>4, <1>5, <1>6, <1>7, <1>8

\* A return.
LEMMA PopTop ==
    ASSUME TypeOK, Len(calls[sp]) >= 2, Returns, sp' = sp
    PROVE  /\ calls' \in [Pool -> Seq(Frames)] /\ calls'[sp] # <<>>
           /\ Top' = calls[sp][Len(calls[sp]) - 1]
           /\ \A i \in Pool : i # sp => calls'[i] = calls[i]
           /\ Resumes(sp) => Resumes(sp)' /\ Top'.at \in Resumable
<1>1. calls \in [Pool -> Seq(Frames)] /\ sp \in Pool /\ calls[sp] \in Seq(Frames)
  BY DEF TypeOK
<1>. DEFINE n == Len(calls[sp])
<1>. DEFINE s == SubSeq(calls[sp], 1, n - 1)
<1>2. calls' = [calls EXCEPT ![sp] = s]
  BY DEF Returns
<1>3. /\ s \in Seq(Frames) /\ Len(s) = n - 1 /\ n - 1 \in 1 .. n
      /\ \A d \in 1 .. n - 1 : s[d] = calls[sp][d]
  BY <1>1
<1>4. calls'[sp] = s /\ \A i \in Pool : i # sp => calls'[i] = calls[i]
  BY <1>1, <1>2
<1>5. calls' \in [Pool -> Seq(Frames)]
  BY <1>1, <1>2, <1>3
<1>. HIDE DEF s
<1>6. Top' = calls[sp][n - 1]
  BY <1>3, <1>4 DEF Top
<1>7. calls'[sp] # <<>>
  BY <1>1, <1>3, <1>4
<1>8. Resumes(sp) => Resumes(sp)' /\ Top'.at \in Resumable
  <2>. SUFFICES ASSUME Resumes(sp) PROVE Resumes(sp)' /\ Top'.at \in Resumable
    OBVIOUS
  <2>1. Top'.at \in Resumable
    BY <1>3, <1>6 DEF Resumes
  <2>2. \A d \in 1 .. Len(calls'[sp]) - 1 : calls'[sp][d].at \in Resumable
    BY <1>3, <1>4 DEF Resumes
  <2>3. Len(calls'[sp]) >= 1 /\ calls'[sp][1].fn = "thread"
    BY <1>3, <1>4 DEF Resumes
  <2>. QED
    BY <2>1, <2>2, <2>3 DEF Resumes, Resumable
<1>. QED
  BY <1>3, <1>4, <1>5, <1>6, <1>7, <1>8

\* A step of the thread on the CPU that is no switch leaves the others as they are.
LEMMA OthersKept ==
    ASSUME TypeOK, OffCpu, ~Switching, ~Switching', sp' = sp, esp' = esp,
           \A i \in Pool : ~Zeroing(i),
           \A i \in Pool : i # sp => calls'[i] = calls[i],
           \A i \in Pool : i # sp /\ state'[i] # "FREE" => state[i] # "FREE"
    PROVE  OffCpu'
<1>. SUFFICES ASSUME NEW i \in Pool, i # sp, state'[i] # "FREE"
              PROVE  (Fresh(i) \/ Yielded(i))'
  BY DEF OffCpu
<1>1. Fresh(i) \/ Yielded(i)
  BY DEF OffCpu
<1>2. calls'[i] = calls[i]
  OBVIOUS
<1>3. CASE Fresh(i)
  BY <1>2, <1>3 DEF Fresh, Loaded
<1>4. CASE Yielded(i)
  BY <1>2, <1>4 DEF Yielded, Resumes
<1>. QED
  BY <1>1, <1>3, <1>4

\* A thread calls the library.
LEMMA ThreadCallsInv ==
    ASSUME Inv, NEW k \in Frames, k.at = "off", ThreadCalls(k)
    PROVE  Inv'
<1>0. TypeOK /\ OffCpu /\ OnCpu /\ OneRunning /\ Quiet
  BY DEF Inv
<1>1. Top.fn = "thread" /\ Top.at = "run"
  BY DEF ThreadCalls, In
<1>2. /\ state' = state /\ esp' = esp /\ next_tid' = next_tid /\ sp' = sp
      /\ c_uthread_index' = c_uthread_index /\ calls' = CallOn(sp, k)
  BY DEF ThreadCalls, poolVars
<1>3. /\ calls' \in [Pool -> Seq(Frames)] /\ calls'[sp] # <<>> /\ Top' = k
      /\ \A i \in Pool : i # sp => calls'[i] = calls[i]
      /\ Resumes(sp) /\ Top.at \in Resumable => Resumes(sp)'
  BY <1>0, <1>2, PushTop
<1>4. TypeOK'
  BY <1>0, <1>2, <1>3 DEF TypeOK
<1>5. ~Switching /\ ~Switching' /\ Top'.at = "off"
  BY <1>1, <1>3 DEF Switching
<1>6. OffCpu'
  BY <1>0, <1>1, <1>2, <1>3, <1>5, OthersKept DEF Zeroing
<1>7. OnCpu'
  <2>1. sp = c_uthread_index /\ state[sp] = "RUNNING" /\ Resumes(sp)
    BY <1>0, <1>1, <1>5 DEF OnCpu
  <2>2. Resumes(sp)'
    BY <1>1, <1>3, <2>1 DEF Resumable
  <2>. QED
    BY <1>2, <1>5, <2>1, <2>2 DEF OnCpu
<1>8. OneRunning' /\ Quiet' /\ TicketOwned' /\ BeingCreated'
  BY <1>0, <1>2, <1>5 DEF OneRunning, Quiet, TicketOwned, BeingCreated, Zeroing
<1>. QED
  BY <1>4, <1>6, <1>7, <1>8 DEF Inv

\* A step within a function that leaves the pool alone: execute_thread() enables
\* switching, and a library call disables it.
LEMMA GoesOnInv ==
    ASSUME Inv, NEW x \in {"run", "body", "save"}, Goto(x),
           Top.at \in {"start", "off"},
           Top.fn = "thread" <=> x \in {"start", "run"},
           x = "save" <=> Top.fn = "yield",
           trapped', pending' = pending,
           UNCHANGED <<poolVars, sp>>
    PROVE  Inv'
<1>0. TypeOK /\ OffCpu /\ OnCpu /\ OneRunning /\ Quiet
  BY DEF Inv
<1>2. /\ state' = state /\ esp' = esp /\ next_tid' = next_tid /\ sp' = sp
      /\ c_uthread_index' = c_uthread_index
  BY DEF poolVars
<1>3. /\ calls' \in [Pool -> Seq(Frames)] /\ calls'[sp] # <<>>
      /\ Top'.fn = Top.fn /\ Top'.at = x
      /\ \A i \in Pool : i # sp => calls'[i] = calls[i]
      /\ Resumes(sp) => Resumes(sp)'
  BY <1>0, <1>2, GotoTop DEF Places
<1>4. TypeOK'
  BY <1>0, <1>2, <1>3 DEF TypeOK
<1>5. ~Switching /\ ~Switching'
  BY <1>3 DEF Switching
<1>6. OffCpu'
  BY <1>0, <1>2, <1>3, <1>5, OthersKept DEF Zeroing
<1>7. OnCpu'
  <2>1. sp = c_uthread_index /\ (state[sp] # "FREE" => Resumes(sp)) /\ state[sp] # "RUNNABLE"
    BY <1>0, <1>5 DEF OnCpu
  <2>2. state[sp] # "RUNNING" => Top.fn = "yield"
    BY <1>0, <1>5 DEF OnCpu
  <2>. QED
    BY <1>2, <1>3, <1>5, <2>1, <2>2 DEF OnCpu
<1>8. OneRunning' /\ TicketOwned' /\ BeingCreated'
  BY <1>0, <1>2, <1>3 DEF OneRunning, TicketOwned, BeingCreated, Zeroing
<1>9. Quiet'
  BY <1>0, <1>3 DEF Quiet
<1>. QED
  BY <1>4, <1>6, <1>7, <1>8, <1>9 DEF Inv

\* A library call enables switching and returns.
LEMMA SwitchingOnInv ==
    ASSUME Inv, NEW fn \in {"create", "join", "yield"}, SwitchingOn(fn)
    PROVE  Inv'
<1>0. TypeOK /\ OffCpu /\ OnCpu /\ OneRunning /\ Quiet
  BY DEF Inv
<1>1. Top.fn = fn /\ Top.at = "on" /\ ~pending /\ ~pending'
  BY <1>0 DEF SwitchingOn, In, Quiet, Alarm
<1>2. /\ state' = state /\ esp' = esp /\ next_tid' = next_tid /\ sp' = sp
      /\ c_uthread_index' = c_uthread_index /\ Returns
  BY DEF SwitchingOn, poolVars
<1>3. ~Switching
  BY <1>1 DEF Switching
<1>4. sp = c_uthread_index /\ state[sp] = "RUNNING" /\ Resumes(sp)
  BY <1>0, <1>1, <1>3 DEF OnCpu
<1>5. Len(calls[sp]) >= 2
  <2>. DEFINE n == Len(calls[sp])
  <2>1. n # 1
    BY <1>1, <1>4 DEF Resumes, Top
  <2>2. n \in Nat /\ n # 0
    BY <1>0, TopIsFrame
  <2>. HIDE DEF n
  <2>3. n >= 2
    BY <2>1, <2>2
  <2>. QED
    BY <2>3 DEF n
<1>6. /\ calls' \in [Pool -> Seq(Frames)] /\ calls'[sp] # <<>>
      /\ \A i \in Pool : i # sp => calls'[i] = calls[i]
      /\ Resumes(sp)' /\ Top'.at \in Resumable
  BY <1>0, <1>2, <1>4, <1>5, PopTop
<1>7. TypeOK'
  BY <1>0, <1>2, <1>6 DEF TypeOK
<1>8. ~Switching' /\ Top'.at # "zero" /\ Top'.at # "load" /\ Top'.at # "pick"
  BY <1>6 DEF Switching, Resumable
<1>9. OffCpu'
  BY <1>0, <1>1, <1>2, <1>3, <1>6, <1>8, OthersKept DEF Zeroing
<1>10. OnCpu'
  BY <1>2, <1>4, <1>6, <1>8 DEF OnCpu
<1>11. OneRunning' /\ Quiet' /\ TicketOwned' /\ BeingCreated'
  BY <1>0, <1>1, <1>2, <1>8 DEF OneRunning, Quiet, TicketOwned, BeingCreated, Zeroing
<1>. QED
  BY <1>7, <1>9, <1>10, <1>11 DEF Inv

\* uthread_create() fills an entry of the pool, if there is one.
LEMMA CreateLoadsInv ==
    ASSUME Inv, CreateLoads
    PROVE  Inv'
<1>0. TypeOK /\ OffCpu /\ OnCpu /\ OneRunning /\ Quiet
  BY DEF Inv
<1>1. Top.fn = "create" /\ Top.at = "body" /\ ~pending /\ ~pending'
  BY <1>0 DEF CreateLoads, In, Quiet, NoTrap
<1>2. esp' = esp /\ sp' = sp /\ c_uthread_index' = c_uthread_index /\ sp \in Pool
  BY <1>0 DEF CreateLoads, TypeOK
<1>3. ~Switching
  BY <1>1 DEF Switching
<1>4. sp = c_uthread_index /\ state[sp] = "RUNNING" /\ Resumes(sp)
  BY <1>0, <1>1, <1>3 DEF OnCpu
<1>5. CASE Free = {}
  <2>1. Goto("on") /\ state' = state /\ next_tid' = next_tid
    BY <1>5 DEF CreateLoads
  <2>2. /\ calls' \in [Pool -> Seq(Frames)] /\ calls'[sp] # <<>>
        /\ Top'.fn = Top.fn /\ Top'.at = "on"
        /\ \A i \in Pool : i # sp => calls'[i] = calls[i]
        /\ Resumes(sp) => Resumes(sp)'
    BY <1>0, <1>1, <1>2, <2>1, GotoTop DEF Places
  <2>3. TypeOK'
    BY <1>0, <1>2, <2>1, <2>2 DEF TypeOK
  <2>4. ~Switching'
    BY <2>2 DEF Switching
  <2>5. OffCpu'
    BY SMTT(30), <1>0, <1>1, <1>2, <1>3, <2>1, <2>2, <2>4, OthersKept DEF Zeroing
  <2>6. OnCpu'
    BY <1>2, <1>4, <2>1, <2>2 DEF OnCpu
  <2>7. OneRunning' /\ Quiet' /\ TicketOwned' /\ BeingCreated'
    BY <1>0, <1>1, <1>2, <2>1, <2>2 DEF OneRunning, Quiet, TicketOwned, BeingCreated, Zeroing
  <2>. QED
    BY <2>3, <2>5, <2>6, <2>7 DEF Inv
<1>6. CASE Free # {}
  <2>. DEFINE f == FirstFree
  <2>. DEFINE n == Len(calls[sp])
  <2>. DEFINE k == [Top EXCEPT !.at = "zero", !.arg = f]
  <2>. DEFINE new == <<Call("thread", "start")>>
  <2>1. f \in Pool /\ state[f] = "FREE" /\ f \in Int
    <3>1. Free \subseteq Nat /\ Free \subseteq Pool
      BY UThreadAssumption DEF Free, Pool
    <3>2. \E i \in Free : \A j \in Free : i <= j
      BY Zenon, <1>6, <3>1, LeastExists
    <3>3. f \in Free
      BY <3>2 DEF FirstFree
    <3>. QED
      BY <3>1, <3>3 DEF Free
  <2>2. f # sp
    BY <1>4, <2>1
  <2>3. /\ next_tid' = next_tid + 1
        /\ state' = [state EXCEPT ![f] = "RUNNABLE"]
        /\ calls' = [calls EXCEPT ![f] = new, ![sp][n] = [@ EXCEPT !.at = "zero", !.arg = f]]
    BY <1>6 DEF CreateLoads
  <2>4. calls \in [Pool -> Seq(Frames)] /\ n \in Nat \ {0} /\ Top \in Frames /\ calls[sp][n] = Top
    BY <1>0, TopIsFrame DEF TypeOK, Top
  <2>. HIDE DEF f
  <2>5. k \in Frames /\ k.fn = "create" /\ k.at = "zero" /\ k.arg = f
    BY Zenon, <1>1, <2>1, <2>4 DEF Frames, Places
  <2>6. new \in Seq(Frames)
    <3>1. Call("thread", "start") \in Frames
      BY DEF Call, Frames, Functions, Places
    <3>. QED
      BY <3>1
  <2>7. /\ calls'[f] = new /\ calls'[sp] = [calls[sp] EXCEPT ![n] = k]
        /\ \A i \in Pool : i # sp /\ i # f => calls'[i] = calls[i]
        /\ calls' = [i \in Pool |-> calls'[i]]
    BY Zenon, <1>2, <2>1, <2>2, <2>3, <2>4
  <2>. HIDE DEF k, new
  <2>8. /\ calls'[sp] \in Seq(Frames) /\ calls'[sp] # <<>> /\ Top' = k
        /\ Resumes(sp)'
    BY <1>0, <1>1, <1>2, <1>4, <2>5, <2>7, ReplaceTop
  <2>9. \A i \in Pool : state'[i] = IF i = f THEN "RUNNABLE" ELSE state[i]
    BY <1>0, <2>3 DEF TypeOK
  <2>10. TypeOK'
    <3>1. calls' \in [Pool -> Seq(Frames)]
      BY Zenon, <2>4, <2>6, <2>7, <2>8
    <3>2. state' \in [Pool -> States]
      BY Zenon, <1>0, <2>3 DEF TypeOK, States
    <3>3. next_tid' \in Nat
      BY <1>0, <2>3 DEF TypeOK
    <3>. QED
      BY <1>0, <1>2, <2>8, <3>1, <3>2, <3>3 DEF TypeOK
  <2>11. Top'.fn = "create" /\ Top'.at = "zero" /\ Top'.arg = f /\ ~Switching'
    BY Zenon, <2>5, <2>8 DEF Switching
  <2>12. OffCpu'
    <3>. SUFFICES ASSUME NEW i \in Pool, i # sp, state'[i] # "FREE"
                  PROVE  (Fresh(i) \/ Yielded(i))'
      BY <1>2, <2>11 DEF OffCpu
    <3>1. CASE i = f
      BY <2>7, <2>11, <3>1 DEF Fresh, Loaded, Zeroing, new
    <3>2. CASE i # f
      <4>1. Fresh(i) \/ Yielded(i)
        BY <1>0, <2>9, <3>2 DEF OffCpu
      <4>2. calls'[i] = calls[i] /\ esp'[i] = esp[i] /\ ~Zeroing(i)
        BY <1>1, <1>2, <2>7, <3>2 DEF Zeroing
      <4>3. CASE Fresh(i)
        BY <4>2, <4>3 DEF Fresh, Loaded
      <4>4. CASE Yielded(i)
        BY <4>2, <4>4 DEF Yielded, Resumes
      <4>. QED
        BY <4>1, <4>3, <4>4
    <3>. QED
      BY <3>1, <3>2
  <2>13. OnCpu'
    BY <1>2, <1>4, <2>2, <2>8, <2>9, <2>11 DEF OnCpu
  <2>14. OneRunning' /\ Quiet' /\ TicketOwned'
    BY <1>0, <1>1, <1>2, <2>9, <2>11 DEF OneRunning, Quiet, TicketOwned
  <2>15. BeingCreated'
    BY <2>7, <2>11 DEF BeingCreated, Zeroing, Loaded, new
  <2>. QED
    BY <2>10, <2>12, <2>13, <2>14, <2>15 DEF Inv
<1>. QED
  BY <1>5, <1>6

\* uthread_create() resets esp.
LEMMA CreateZeroesInv ==
    ASSUME Inv, CreateZeroes
    PROVE  Inv'
<1>0. TypeOK /\ OffCpu /\ BeingCreated /\ OnCpu /\ OneRunning /\ Quiet
  BY DEF Inv
<1>1. Top.fn = "create" /\ Top.at = "zero" /\ ~pending /\ ~pending'
  BY <1>0 DEF CreateZeroes, In, Quiet, NoTrap
<1>2. /\ esp' = [esp EXCEPT ![Top.arg] = Null] /\ Goto("on")
      /\ sp' = sp /\ c_uthread_index' = c_uthread_index /\ state' = state /\ next_tid' = next_tid
  BY DEF CreateZeroes
<1>3. ~Switching
  BY <1>1 DEF Switching
<1>4. sp = c_uthread_index /\ state[sp] = "RUNNING" /\ Resumes(sp)
  BY <1>0, <1>1, <1>3 DEF OnCpu
<1>5. /\ calls' \in [Pool -> Seq(Frames)] /\ calls'[sp] # <<>>
      /\ Top'.fn = Top.fn /\ Top'.at = "on"
      /\ \A i \in Pool : i # sp => calls'[i] = calls[i]
      /\ Resumes(sp) => Resumes(sp)'
  BY <1>0, <1>1, <1>2, GotoTop DEF Places
<1>6. \A i \in Pool : esp'[i] = IF i = Top.arg THEN Null ELSE esp[i]
  BY <1>0, <1>2 DEF TypeOK
<1>7. TypeOK'
  <2>1. esp' \in [Pool -> {Null} \cup (Pool \X Nat)]
    BY Zenon, <1>0, <1>2 DEF TypeOK
  <2>. QED
    BY <1>0, <1>2, <1>5, <2>1 DEF TypeOK
<1>8. ~Switching'
  BY <1>5 DEF Switching
<1>9. OffCpu'
  <2>. SUFFICES ASSUME NEW i \in Pool, i # sp, state[i] # "FREE"
                PROVE  (Fresh(i) \/ Yielded(i))'
    BY <1>2, <1>8 DEF OffCpu
  <2>1. (Fresh(i) \/ Yielded(i)) /\ calls'[i] = calls[i]
    BY <1>0, <1>5 DEF OffCpu
  <2>2. CASE Fresh(i)
    BY <1>6, <2>1, <2>2 DEF Fresh, Loaded, Zeroing
  <2>3. CASE i = Top.arg
    <3>1. Loaded(i)
      BY <1>0, <1>1, <2>3 DEF BeingCreated, Zeroing
    <3>. QED
      BY <1>6, <2>1, <2>3, <3>1 DEF Fresh, Loaded
  <2>4. CASE Yielded(i) /\ i # Top.arg
    BY <1>6, <2>1, <2>4 DEF Yielded, Resumes
  <2>. QED
    BY <2>1, <2>2, <2>3, <2>4
<1>10. OnCpu'
  BY <1>2, <1>4, <1>5 DEF OnCpu
<1>11. OneRunning' /\ Quiet' /\ TicketOwned' /\ BeingCreated'
  BY <1>0, <1>1, <1>2, <1>5 DEF OneRunning, Quiet, TicketOwned, BeingCreated, Zeroing
<1>. QED
  BY <1>7, <1>9, <1>10, <1>11 DEF Inv

\* uthread_exit() frees the entry and wakes the sleepers.
LEMMA ExitFreesInv ==
    ASSUME Inv, ExitFrees
    PROVE  Inv'
<1>0. TypeOK /\ OffCpu /\ OnCpu /\ OneRunning /\ Quiet
  BY DEF Inv
<1>1. Top.fn = "exit" /\ Top.at = "body" /\ ~pending /\ ~pending'
  BY <1>0 DEF ExitFrees, In, Quiet, NoTrap
<1>2. /\ esp' = esp /\ sp' = sp /\ c_uthread_index' = c_uthread_index /\ next_tid' = next_tid
      /\ state' = [i \in Pool |-> IF i = c_uthread_index THEN "FREE"
                                  ELSE IF state[i] = "SLEEP" THEN "RUNNABLE" ELSE state[i]]
      /\ Goto("zero")
  BY DEF ExitFrees
<1>3. ~Switching /\ sp \in Pool
  BY <1>0, <1>1 DEF Switching, TypeOK
<1>4. sp = c_uthread_index
  BY <1>0, <1>3 DEF OnCpu
<1>5. /\ calls' \in [Pool -> Seq(Frames)] /\ calls'[sp] # <<>>
      /\ Top'.fn = "exit" /\ Top'.at = "zero"
      /\ \A i \in Pool : i # sp => calls'[i] = calls[i]
  BY <1>0, <1>1, <1>2, GotoTop DEF Places
<1>6. \A i \in Pool : state'[i] = IF i = sp THEN "FREE"
                                  ELSE IF state[i] = "SLEEP" THEN "RUNNABLE" ELSE state[i]
  BY <1>2, <1>4
<1>7. TypeOK'
  <2>1. state' \in [Pool -> States]
    BY <1>0, <1>2 DEF TypeOK, States
  <2>. QED
    BY <1>0, <1>2, <1>5, <2>1 DEF TypeOK
<1>8. ~Switching'
  BY <1>5 DEF Switching
<1>9. OffCpu'
  BY <1>0, <1>1, <1>2, <1>3, <1>5, <1>6, <1>8, OthersKept DEF Zeroing
<1>10. OnCpu'
  BY <1>2, <1>3, <1>4, <1>5, <1>6 DEF OnCpu
<1>11. OneRunning' /\ Quiet' /\ TicketOwned' /\ BeingCreated'
  BY <1>0, <1>1, <1>2, <1>5, <1>6 DEF OneRunning, Quiet, TicketOwned, BeingCreated, Zeroing
<1>. QED
  BY <1>7, <1>9, <1>10, <1>11 DEF Inv

\* uthread_yield() is called by uthread_exit() on a stack nobody returns to, or
\* interrupts a call that can go on afterwards.
LEMMA YieldCalledInv ==
    ASSUME Inv, sp' = sp, UNCHANGED poolVars, calls' = CallOn(sp, Call("yield", "off")),
           ~pending', ~Switching, ~(Top.fn = "create" /\ Top.at = "zero"),
           state[sp] = "FREE" \/ Top.at \in Resumable
    PROVE  Inv'
<1>0. TypeOK /\ OffCpu /\ OnCpu /\ OneRunning
  BY DEF Inv
<1>2. /\ state' = state /\ esp' = esp /\ next_tid' = next_tid
      /\ c_uthread_index' = c_uthread_index
  BY DEF poolVars
<1>3. Call("yield", "off") \in Frames
  BY DEF Call, Frames, Functions, Places
<1>4. /\ calls' \in [Pool -> Seq(Frames)] /\ calls'[sp] # <<>> /\ Top' = Call("yield", "off")
      /\ \A i \in Pool : i # sp => calls'[i] = calls[i]
      /\ Resumes(sp) /\ Top.at \in Resumable => Resumes(sp)'
  BY <1>0, <1>3, PushTop
<1>5. Top'.fn = "yield" /\ Top'.at = "off"
  BY <1>4 DEF Call
<1>6. TypeOK'
  BY <1>0, <1>2, <1>4 DEF TypeOK
<1>7. ~Switching'
  BY <1>5 DEF Switching
<1>8. OffCpu'
  BY SMTT(30), <1>0, <1>2, <1>4, <1>7, OthersKept DEF Zeroing
<1>9. OnCpu'
  <2>1. sp = c_uthread_index /\ (state[sp] # "FREE" => Resumes(sp)) /\ state[sp] # "RUNNABLE"
    BY <1>0 DEF OnCpu
  <2>. QED
    BY <1>2, <1>4, <1>5, <2>1 DEF OnCpu
<1>10. OneRunning' /\ Quiet' /\ TicketOwned' /\ BeingCreated'
  BY <1>0, <1>2, <1>5 DEF OneRunning, Quiet, TicketOwned, BeingCreated, Zeroing
<1>. QED
  BY <1>6, <1>8, <1>9, <1>10 DEF Inv

\* uthread_exit() yields or exits the process.
LEMMA ExitLeavesInv ==
    ASSUME Inv, ExitLeaves
    PROVE  Inv'
<1>0. TypeOK /\ OffCpu /\ BeingCreated /\ OnCpu /\ OneRunning /\ Quiet /\ TicketOwned
  BY DEF Inv
<1>1. Top.fn = "exit" /\ Top.at = "zero" /\ ~pending /\ ~pending'
  BY <1>0 DEF ExitLeaves, In, Quiet, NoTrap
<1>2. sp' = sp /\ UNCHANGED poolVars
  BY DEF ExitLeaves
<1>3. ~Switching
  BY <1>1 DEF Switching
<1>4. state[sp] = "FREE"
  BY <1>0, <1>1, <1>3 DEF OnCpu
<1>5. CASE calls' = CallOn(sp, Call("yield", "off"))
  BY <1>1, <1>2, <1>3, <1>4, <1>5, YieldCalledInv
<1>6. CASE calls' = calls
  <2>1. state' = state /\ esp' = esp /\ next_tid' = next_tid /\ c_uthread_index' = c_uthread_index
    BY <1>2 DEF poolVars
  <2>2. Top' = Top
    BY <1>2, <1>6 DEF Top
  <2>3. TypeOK' /\ OneRunning' /\ Quiet' /\ TicketOwned'
    BY SMTT(30), <1>0, <1>1, <1>2, <1>6, <2>1, <2>2 DEF TypeOK, OneRunning, Quiet, TicketOwned, Live
  <2>4. OffCpu' /\ OnCpu' /\ BeingCreated'
    BY <1>0, <1>2, <1>6, <2>1, <2>2
       DEF OffCpu, OnCpu, BeingCreated, Switching, Zeroing, Fresh, Loaded, Yielded, Resumes
  <2>. QED
    BY <2>3, <2>4 DEF Inv
<1>. QED
  BY <1>5, <1>6 DEF ExitLeaves

\* SIGALRM interrupts.
LEMMA DeliverInv ==
    ASSUME Inv, Deliver
    PROVE  Inv'
<1>1. pending /\ ~pending' /\ sp' = sp /\ UNCHANGED poolVars
      /\ calls' = CallOn(sp, Call("yield", "off"))
  BY DEF Deliver
<1>2. Top.at \in {"run", "off", "body", "save"}
  BY <1>1 DEF Inv, Quiet
<1>3. ~Switching /\ Top.at # "zero" /\ Top.at \in Resumable
  BY <1>2 DEF Switching, Resumable
<1>. QED
  BY <1>1, <1>3, YieldCalledInv

\* uthred_join() goes to sleep or returns.
LEMMA JoinScansInv ==
    ASSUME Inv, JoinScans
    PROVE  Inv'
<1>0. TypeOK /\ OffCpu /\ OnCpu /\ OneRunning /\ Quiet
  BY DEF Inv
<1>1. Top.fn = "join" /\ Top.at = "body" /\ ~pending /\ ~pending'
  BY <1>0 DEF JoinScans, In, Quiet, NoTrap
<1>2. /\ esp' = esp /\ sp' = sp /\ c_uthread_index' = c_uthread_index /\ next_tid' = next_tid
      /\ sp \in Pool
  BY <1>0 DEF JoinScans, TypeOK
<1>3. ~Switching
  BY <1>1 DEF Switching
<1>4. sp = c_uthread_index /\ state[sp] = "RUNNING" /\ Resumes(sp)
  BY SMTT(30), <1>0, <1>1, <1>3 DEF OnCpu
<1>5. CASE ~\E i \in Pool : tid[i] = Top.arg
  <2>1. Goto("on") /\ state' = state
    BY <1>5 DEF JoinScans
  <2>2. /\ calls' \in [Pool -> Seq(Frames)] /\ calls'[sp] # <<>>
        /\ Top'.fn = Top.fn /\ Top'.at = "on"
        /\ \A i \in Pool : i # sp => calls'[i] = calls[i]
        /\ Resumes(sp) => Resumes(sp)'
    BY SMTT(30), <1>0, <1>1, <1>2, <2>1, GotoTop DEF Places
  <2>3. TypeOK'
    BY SMTT(30), <1>0, <1>2, <2>1, <2>2 DEF TypeOK
  <2>4. ~Switching'
    BY <2>2 DEF Switching
  <2>5. OffCpu'
    BY SMTT(30), <1>0, <1>1, <1>2, <1>3, <2>1, <2>2, <2>4, OthersKept DEF Zeroing
  <2>6. OnCpu'
    BY SMTT(30), <1>2, <1>4, <2>1, <2>2 DEF OnCpu
  <2>7. OneRunning' /\ Quiet' /\ TicketOwned' /\ BeingCreated'
    BY SMTT(30), <1>0, <1>1, <1>2, <2>1, <2>2 DEF OneRunning, Quiet, TicketOwned, BeingCreated, Zeroing
  <2>. QED
    BY <2>3, <2>5, <2>6, <2>7 DEF Inv
<1>6. CASE \E i \in Pool : tid[i] = Top.arg
  <2>. DEFINE n == Len(calls[sp])
  <2>. DEFINE j == [Top EXCEPT !.at = "off"]
  <2>. DEFINE y == Call("yield", "off")
  <2>. DEFINE t == [calls[sp] EXCEPT ![n] = j]
  <2>1. calls \in [Pool -> Seq(Frames)] /\ n \in Nat \ {0} /\ Top \in Frames /\ calls[sp][n] = Top
    BY <1>0, TopIsFrame DEF TypeOK, Top
  <2>2. /\ state' = [state EXCEPT ![sp] = "SLEEP"]
        /\ calls' = [calls EXCEPT ![sp] = Append([calls[sp] EXCEPT ![n].at = "off"], y)]
    BY Zenon, <1>4, <1>6 DEF JoinScans
  <2>3. [calls[sp] EXCEPT ![n].at = "off"] = t
    BY <1>2, <2>1
  <2>4. j \in Frames /\ y \in Frames /\ j.at = "off" /\ y.fn = "yield" /\ y.at = "off" /\ j.fn = "join"
    BY <1>1, <2>1 DEF Frames, Places, Functions, Call
  <2>. HIDE DEF j, y
  <2>5. /\ t \in Seq(Frames) /\ Len(t) = n /\ t[n] = j
        /\ \A d \in 1 .. n - 1 : t[d] = calls[sp][d]
    BY <1>2, <2>1, <2>4
  <2>. HIDE DEF t
  <2>6. /\ calls'[sp] = Append(t, y)
        /\ \A i \in Pool : i # sp => calls'[i] = calls[i]
        /\ calls' = [i \in Pool |-> calls'[i]]
    BY Zenon, <1>2, <2>1, <2>2, <2>3
  <2>7. /\ Append(t, y) \in Seq(Frames) /\ Len(Append(t, y)) = n + 1
        /\ Append(t, y)[n + 1] = y
        /\ \A d \in 1 .. n : Append(t, y)[d] = t[d]
    BY <2>4, <2>5
  <2>8. calls' \in [Pool -> Seq(Frames)] /\ calls'[sp] # <<>>
    <3>1. calls' \in [Pool -> Seq(Frames)]
      BY Zenon, <2>1, <2>6, <2>7
    <3>2. Len(calls'[sp]) # 0
      BY <2>1, <2>6, <2>7
    <3>. QED
      BY <3>1, <3>2
  <2>9. Top' = y
    BY <1>2, <2>6, <2>7 DEF Top
  <2>10. Resumes(sp)'
    <3>1. \A d \in 1 .. n - 1 : calls'[sp][d] = calls[sp][d]
      BY <2>1, <2>5, <2>6, <2>7
    <3>2. calls'[sp][n] = j
      BY <2>1, <2>5, <2>6, <2>7
    <3>3. n # 1 /\ calls[sp][1].fn = "thread"
      BY <1>1, <1>4, <2>1 DEF Resumes
    <3>4. calls'[sp][1].fn = "thread"
      <4>1. 1 \in 1 .. n - 1
        <5>. HIDE DEF n
        <5>. QED
          BY <2>1, <3>3
      <4>. QED
        BY <3>1, <3>3, <4>1
    <3>5. \A d \in 1 .. n : calls'[sp][d].at \in Resumable
      <4>1. \A d \in 1 .. n - 1 : calls'[sp][d].at \in Resumable
        BY Zenon, <1>4, <3>1 DEF Resumes
      <4>2. calls'[sp][n].at \in Resumable
        BY Zenon, <2>4, <3>2 DEF Resumable
      <4>. QED
        BY <2>1, <4>1, <4>2
    <3>6. Len(calls'[sp]) = n + 1 /\ Len(calls'[sp]) - 1 = n /\ Len(calls'[sp]) >= 1
      BY <2>1, <2>6, <2>7
    <3>. HIDE DEF n
    <3>. QED
      BY <1>2, <3>4, <3>5, <3>6 DEF Resumes, Resumable
  <2>11. \A i \in Pool : state'[i] = IF i = sp THEN "SLEEP" ELSE state[i]
    BY <1>0, <2>2 DEF TypeOK
  <2>12. TypeOK'
    <3>1. state' \in [Pool -> States]
      BY <1>0, <2>2 DEF TypeOK, States
    <3>. QED
      BY <1>0, <1>2, <2>8, <3>1 DEF TypeOK
  <2>13. Top'.fn = "yield" /\ Top'.at = "off" /\ ~Switching'
    BY <2>4, <2>9 DEF Switching
  <2>14. OffCpu'
    BY SMTT(30), <1>0, <1>1, <1>2, <1>3, <2>6, <2>11, <2>13, OthersKept DEF Zeroing
  <2>15. OnCpu'
    BY SMTT(30), <1>2, <1>4, <2>10, <2>11, <2>13 DEF OnCpu
  <2>16. OneRunning' /\ Quiet' /\ TicketOwned' /\ BeingCreated'
    BY SMTT(30), <1>0, <1>1, <1>2, <2>11, <2>13 DEF OneRunning, Quiet, TicketOwned, BeingCreated, Zeroing
  <2>. QED
    BY <2>12, <2>14, <2>15, <2>16 DEF Inv
<1>. QED
  BY <1>5, <1>6

\* uthread_yield() saves the stack pointer.
LEMMA YieldSavesInv ==
    ASSUME Inv, YieldSaves
    PROVE  Inv'
<1>0. TypeOK /\ OffCpu /\ OnCpu /\ OneRunning /\ Quiet
  BY DEF Inv
<1>1. Top.fn = "yield" /\ Top.at = "save" /\ ~pending /\ ~pending'
  BY <1>0 DEF YieldSaves, In, Quiet, NoTrap
<1>2. ~Switching /\ sp \in Pool
  BY <1>0, <1>1 DEF Switching, TypeOK
<1>3. sp = c_uthread_index /\ (state[sp] # "FREE" => Resumes(sp))
  BY <1>0, <1>2 DEF OnCpu
<1>4. /\ sp' = sp /\ c_uthread_index' = c_uthread_index + 1 /\ next_tid' = next_tid
      /\ state' = [state EXCEPT ![sp] = IF @ = "RUNNING" THEN "RUNNABLE" ELSE @]
      /\ esp' = [esp EXCEPT ![sp] = <<sp, Len(calls[sp])>>]
      /\ Goto("pick")
  BY <1>3 DEF YieldSaves
<1>5. /\ calls' \in [Pool -> Seq(Frames)] /\ calls'[sp] # <<>>
      /\ Top'.fn = "yield" /\ Top'.at = "pick"
      /\ \A i \in Pool : i # sp => calls'[i] = calls[i]
      /\ Len(calls'[sp]) = Len(calls[sp])
      /\ Resumes(sp) => Resumes(sp)'
  BY <1>0, <1>1, <1>4, GotoTop DEF Places
<1>6. /\ \A i \in Pool : state'[i] = IF i = sp /\ state[i] = "RUNNING" THEN "RUNNABLE" ELSE state[i]
      /\ \A i \in Pool : esp'[i] = IF i = sp THEN <<sp, Len(calls[sp])>> ELSE esp[i]
  BY SMTT(30), <1>0, <1>4 DEF TypeOK
<1>7. TypeOK'
  <2>1. state' \in [Pool -> States]
    BY <1>0, <1>4 DEF TypeOK, States
  <2>2. esp' \in [Pool -> {Null} \cup (Pool \X Nat)]
    <3>1. <<sp, Len(calls[sp])>> \in Pool \X Nat
      BY <1>0, <1>2, TopIsFrame
    <3>. QED
      BY <1>0, <1>4, <3>1 DEF TypeOK
  <2>3. c_uthread_index' \in 0 .. MAX_THREADS
    BY <1>2, <1>3, <1>4, UThreadAssumption DEF Pool
  <2>. QED
    BY SMTT(30), <1>0, <1>4, <1>5, <2>1, <2>2, <2>3 DEF TypeOK
<1>8. OffCpu'
  <2>. SUFFICES ASSUME NEW i \in Pool, state'[i] # "FREE"
                PROVE  (Fresh(i) \/ Yielded(i))'
    BY DEF OffCpu
  <2>1. state[i] # "FREE"
    BY <1>6
  <2>2. CASE i = sp
    <3>1. Resumes(sp)'
      BY <1>3, <1>5, <2>1, <2>2
    <3>2. esp'[i] = <<i, Len(calls'[i])>>
      BY <1>5, <1>6, <2>2
    <3>3. calls'[i][Len(calls'[i])].fn = "yield"
      BY <1>4, <1>5, <2>2 DEF Top
    <3>. QED
      BY SMTT(30), <1>4, <2>2, <3>1, <3>2, <3>3 DEF Yielded
  <2>3. CASE i # sp
    <3>1. Fresh(i) \/ Yielded(i)
      BY <1>0, <2>1, <2>3 DEF OffCpu
    <3>2. calls'[i] = calls[i] /\ esp'[i] = esp[i] /\ ~Zeroing(i)
      BY <1>1, <1>5, <1>6, <2>3 DEF Zeroing
    <3>3. CASE Fresh(i)
      BY Zenon, <3>2, <3>3 DEF Fresh, Loaded
    <3>4. CASE Yielded(i)
      BY <3>2, <3>4 DEF Yielded, Resumes
    <3>. QED
      BY <3>1, <3>3, <3>4
  <2>. QED
    BY <2>2, <2>3
<1>9. OnCpu'
  BY <1>5 DEF OnCpu, Switching
<1>10. OneRunning' /\ Quiet' /\ TicketOwned' /\ BeingCreated'
  <2>1. \A i \in Pool : state'[i] # "RUNNING"
    BY <1>0, <1>3, <1>6 DEF OneRunning
  <2>. QED
    BY <1>1, <1>5, <2>1 DEF OneRunning, Quiet, TicketOwned, BeingCreated, Zeroing
<1>. QED
  BY <1>7, <1>8, <1>9, <1>10 DEF Inv

-----------------------------------------------------------------------------
(* The lottery *)

\* Every number below the size of a set of numbers is the place of one of them.
LEMMA PlaceTaken ==
    ASSUME NEW S, S \subseteq Nat, IsFiniteSet(S), NEW k \in Nat, k < Cardinality(S)
    PROVE  \E i \in S : Cardinality({j \in S : j < i}) = k
<1>. DEFINE below(i) == {j \in S : j < i}
<1>. DEFINE place(i) == Cardinality(below(i))
<1>1. \A i \in S : IsFiniteSet(below(i)) /\ place(i) \in Nat
  <2>. TAKE i \in S
  <2>1. below(i) \in SUBSET S
    OBVIOUS
  <2>. HIDE DEF below
  <2>2. IsFiniteSet(below(i))
    BY <2>1, FS_Subset
  <2>. QED
    BY <2>2, FS_CardinalityType
<1>2. \A i, j \in S : i < j => place(i) < place(j)
  <2>. SUFFICES ASSUME NEW i \in S, NEW j \in S, i < j PROVE place(i) < place(j)
    OBVIOUS
  <2>1. i \in Nat /\ j \in Nat
    OBVIOUS
  <2>2. below(i) \in SUBSET below(j) /\ i \in below(j) /\ i \notin below(i)
    <3>1. \A x \in S : x \in Nat
      OBVIOUS
    <3>2. \A x \in S : x < i => x < j
      BY <2>1, <3>1
    <3>3. ~(i < i)
      BY <2>1
    <3>. QED
      BY Zenon, <3>2, <3>3
  <2>. HIDE DEF below
  <2>3. place(i) <= place(j) /\ place(j) # place(i)
    BY <1>1, <2>2, FS_Subset
  <2>. QED
    BY <1>1, <2>3
<1>. HIDE DEF place
<1>. DEFINE B == {i \in S : place(i) < k}
<1>3. Cardinality(B) \in Nat /\ Cardinality(B) <= k
  <2>. DEFINE f == [i \in B |-> place(i)]
  <2>1. f \in [B -> 0 .. k - 1]
    <3>1. \A i \in B : place(i) \in Nat /\ place(i) < k
      BY Zenon, <1>1
    <3>2. \A i \in B : place(i) \in 0 .. k - 1
      BY <3>1
    <3>. HIDE DEF B
    <3>. QED
      BY <3>2
  <2>2. \A i, j \in B : f[i] = f[j] => i = j
    <3>. SUFFICES ASSUME NEW i \in B, NEW j \in B, place(i) = place(j) PROVE i = j
      OBVIOUS
    <3>1. i \in S /\ j \in S /\ i \in Nat /\ j \in Nat /\ place(i) \in Nat
      BY Zenon, <1>1
    <3>2. ~(i < j) /\ ~(j < i)
      BY <1>2, <3>1
    <3>. QED
      BY <3>1, <3>2
  <2>. HIDE DEF f
  <2>3. f \in Injection(B, 0 .. k - 1)
    BY <2>1, <2>2 DEF Injection, IsInjective
  <2>4. IsFiniteSet(0 .. k - 1) /\ Cardinality(0 .. k - 1) = k
    <3>1. 0 \in Int /\ k - 1 \in Int
      OBVIOUS
    <3>2. IsFiniteSet(0 .. k - 1) /\ Cardinality(0 .. k - 1) = IF 0 > k - 1 THEN 0 ELSE k - 1 - 0 + 1
      BY <3>1, FS_Interval
    <3>. QED
      BY <3>2
  <2>5. Cardinality(B) <= k
    BY <2>3, <2>4, FS_Injection
  <2>6. B \in SUBSET S
    OBVIOUS
  <2>. HIDE DEF B
  <2>. QED
    BY Zenon, <2>5, <2>6, FS_Subset, FS_CardinalityType
<1>4. B # S
  <2>. HIDE DEF B
  <2>1. ~(k < Cardinality(B))
    BY <1>3
  <2>. QED
    BY <2>1
<1>5. PICK m \in S \ B : \A y \in S \ B : m <= y
  <2>1. S \ B \subseteq Nat /\ S \ B # {}
    BY Zenon, <1>4
  <2>. HIDE DEF B
  <2>. QED
    BY Zenon, <2>1, LeastExists
<1>6. below(m) = B
  <2>1. ASSUME NEW j \in S, j < m PROVE j \in B
    <3>1. j \in Nat /\ m \in Nat
      OBVIOUS
    <3>2. ~(m <= j)
      BY <2>1, <3>1
    <3>. QED
      BY <1>5, <3>2
  <2>2. ASSUME NEW j \in B PROVE j < m
    <3>1. j \in Nat /\ m \in Nat /\ place(j) \in Nat /\ place(m) \in Nat /\ j \in S /\ m \in S
      BY Zenon, <1>1
    <3>2. place(j) < k /\ ~(place(m) < k)
      OBVIOUS
    <3>3. ~(m < j) /\ m # j
      BY <1>2, <3>1, <3>2
    <3>. QED
      BY <3>1, <3>3
  <2>. QED
    BY Zenon, <2>1, <2>2
<1>7. place(m) <= k
  BY Zenon, <1>3, <1>6 DEF place
<1>8. place(m) \in Nat /\ ~(place(m) < k)
  BY Zenon, <1>1
<1>9. place(m) = k
  BY <1>7, <1>8
<1>. QED
  BY <1>9 DEF place

\* A ticket that can be drawn among n threads is one of theirs.
LEMMA DrawnTicket ==
    ASSUME NEW n \in Nat, NEW k \in Draws(n)
    PROVE  k \in Nat /\ k < n
<1>1. PICK r \in 0 .. n * NTICKET - 2 : k = r \div NTICKET
  BY DEF Draws
<1>2. NTICKET \in Nat \ {0}
  BY UThreadAssumption
<1>3. r \in Int /\ n * NTICKET \in Nat
  BY <1>2
<1>4. k \in Int /\ r % NTICKET \in 0 .. NTICKET - 1 /\ r = NTICKET * k + (r % NTICKET)
  BY <1>1, <1>2, <1>3, DivMod
<1>5. r >= 0 /\ r < n * NTICKET
  BY <1>3
<1>6. k >= 0
  <2>. SUFFICES ASSUME k <= -1 PROVE FALSE
    BY <1>4
  <2>1. NTICKET * k <= NTICKET * (-1)
    BY <1>2, <1>4
  <2>. QED
    BY <1>2, <1>4, <1>5, <2>1
<1>7. k < n
  <2>. SUFFICES ASSUME k >= n PROVE FALSE
    BY <1>4
  <2>1. NTICKET * k >= NTICKET * n
    BY <1>2, <1>4
  <2>2. NTICKET * k >= n * NTICKET
    BY <1>2, <2>1
  <2>. QED
    BY <1>2, <1>3, <1>4, <1>5, <2>2
<1>. QED
  BY <1>4, <1>6, <1>7

\* uthread_yield() draws a ticket: it belongs to a RUNNABLE thread.
LEMMA WinnerIsRunnable ==
    ASSUME TypeOK, OneRunning, Top.at = "pick", NEW j \in Winners
    PROVE  j \in Runnable \/ (j = MAX_THREADS /\ Live = {})
<1>1. Live = Runnable
  <2>1. \A i \in Pool : state[i] \in States /\ state[i] # "RUNNING"
    BY DEF TypeOK, OneRunning
  <2>. QED
    BY <2>1 DEF Live, Runnable, States
<1>2. CASE Live = {}
  BY <1>2 DEF Winners
<1>3. CASE Live # {}
  <2>1. PICK k \in Draws(Cardinality(Live)) :
            j \in IF Numbered(k) = {} THEN {MAX_THREADS} ELSE Numbered(k)
    BY <1>3 DEF Winners
  <2>2. Runnable \in SUBSET Pool /\ IsFiniteSet(Pool) /\ Pool \subseteq Nat
    <3>1. 0 \in Int /\ MAX_THREADS - 1 \in Int
      BY UThreadAssumption
    <3>2. IsFiniteSet(0 .. MAX_THREADS - 1)
      BY <3>1, FS_Interval
    <3>3. Runnable \in SUBSET Pool
      BY DEF Runnable
    <3>. QED
      BY <3>1, <3>2, <3>3 DEF Pool
  <2>3. IsFiniteSet(Runnable) /\ Runnable \subseteq Nat
    BY Zenon, <2>2, FS_Subset
  <2>4. Cardinality(Runnable) \in Nat
    BY <2>3, FS_CardinalityType
  <2>5. k \in Nat /\ k < Cardinality(Runnable)
    BY <1>1, <2>1, <2>4, DrawnTicket
  <2>6. Numbered(k) # {}
    <3>1. PICK i \in Runnable : Cardinality({m \in Runnable : m < i}) = k
      BY Zenon, <2>3, <2>5, PlaceTaken
    <3>. QED
      BY <3>1 DEF Numbered
  <2>. QED
    BY Zenon, <2>1, <2>6 DEF Numbered
<1>. QED
  BY <1>2, <1>3

\* uthread_yield() draws the ticket and picks its owner.
LEMMA YieldPicksInv ==
    ASSUME Inv, YieldPicks
    PROVE  Inv'
<1>0. TypeOK /\ OffCpu /\ OnCpu /\ OneRunning /\ Quiet
  BY DEF Inv
<1>1. Top.fn = "yield" /\ Top.at = "pick" /\ ~pending /\ ~pending' /\ sp \in Pool
  BY <1>0 DEF YieldPicks, In, Quiet, NoTrap, TypeOK
<1>2. PICK j \in Winners :
        /\ c_uthread_index' = j
        /\ state' = [i \in Pool |-> IF i = j THEN "RUNNING" ELSE state[i]]
  BY DEF YieldPicks
<1>3. sp' = sp /\ next_tid' = next_tid /\ esp' = esp /\ Goto("load")
  BY DEF YieldPicks
<1>4. /\ calls' \in [Pool -> Seq(Frames)] /\ calls'[sp] # <<>>
      /\ Top'.fn = "yield" /\ Top'.at = "load"
      /\ \A i \in Pool : i # sp => calls'[i] = calls[i]
      /\ Len(calls'[sp]) = Len(calls[sp])
      /\ Resumes(sp) => Resumes(sp)'
  BY <1>0, <1>1, <1>3, GotoTop DEF Places
<1>5. j \in Runnable \/ (j = MAX_THREADS /\ Live = {})
  BY <1>0, <1>1, <1>2, WinnerIsRunnable
<1>6. \A i \in Pool : state'[i] = IF i = j THEN "RUNNING" ELSE state[i]
  BY <1>2
<1>7. TypeOK'
  <2>1. state' \in [Pool -> States]
    BY <1>0, <1>2 DEF TypeOK, States
  <2>2. j \in 0 .. MAX_THREADS
    BY <1>5, UThreadAssumption DEF Runnable, Pool
  <2>. QED
    BY SMTT(30), <1>0, <1>1, <1>2, <1>3, <1>4, <2>1, <2>2 DEF TypeOK
<1>8. OffCpu'
  <2>. SUFFICES ASSUME NEW i \in Pool, state'[i] # "FREE"
                PROVE  (Fresh(i) \/ Yielded(i))'
    BY DEF OffCpu
  <2>1. state[i] # "FREE"
    BY <1>5, <1>6, UThreadAssumption DEF Runnable, Pool
  <2>2. Fresh(i) \/ Yielded(i)
    BY Zenon, <1>0, <1>1, <2>1 DEF OffCpu, Switching
  <2>3. ~Zeroing(i) /\ esp'[i] = esp[i]
    BY Zenon, <1>1, <1>3 DEF Zeroing
  <2>4. CASE i = sp
    <3>1. ~Loaded(i)
      <4>. SUFFICES ASSUME Loaded(i) PROVE FALSE
        BY Zenon
      <4>1. Top = Call("thread", "start")
        <5>1. calls[sp] = <<Call("thread", "start")>>
          BY <2>4 DEF Loaded
        <5>2. Len(<<Call("thread", "start")>>) = 1
          OBVIOUS
        <5>3. calls[sp][1] = Call("thread", "start") /\ Len(calls[sp]) = 1
          BY <5>1, <5>2
        <5>. QED
          BY <5>3 DEF Top
      <4>. QED
        BY <1>1, <4>1 DEF Call
    <3>2. Yielded(i)
      BY <2>2, <3>1 DEF Fresh
    <3>3. Resumes(sp)' /\ esp'[i] = <<i, Len(calls'[i])>>
      BY SMTT(30), <1>4, <2>3, <2>4, <3>2 DEF Yielded
    <3>4. calls'[i][Len(calls'[i])].fn = "yield"
      BY <1>3, <1>4, <2>4 DEF Top
    <3>. QED
      BY <1>3, <2>4, <3>3, <3>4 DEF Yielded
  <2>5. CASE i # sp
    <3>1. calls'[i] = calls[i]
      BY <1>4, <2>5
    <3>2. CASE Fresh(i)
      BY <2>3, <3>1, <3>2 DEF Fresh, Loaded
    <3>3. CASE Yielded(i)
      BY SMTT(30), <2>3, <3>1, <3>3 DEF Yielded, Resumes
    <3>. QED
      BY <2>2, <3>2, <3>3
  <2>. QED
    BY <2>4, <2>5
<1>9. OnCpu' /\ BeingCreated' /\ Quiet'
  BY SMTT(30), <1>1, <1>4 DEF OnCpu, Switching, BeingCreated, Zeroing, Quiet
<1>10. OneRunning'
  BY SMTT(30), <1>0, <1>1, <1>2, <1>4, <1>6 DEF OneRunning
<1>11. TicketOwned'
  <2>. SUFFICES ASSUME j \notin Pool PROVE Live' = {}
    BY <1>2 DEF TicketOwned
  <2>1. Live = {}
    BY <1>5 DEF Runnable
  <2>2. \A i \in Pool : state'[i] = state[i]
    BY SMTT(30), <1>6
  <2>. QED
    BY <2>1, <2>2 DEF Live
<1>. QED
  BY <1>7, <1>8, <1>9, <1>10, <1>11 DEF Inv

\* uthread_yield() continues on the winner's stack.
LEMMA YieldLoadsInv ==
    ASSUME Inv, YieldLoads
    PROVE  Inv'
<1>0. TypeOK /\ OffCpu /\ OnCpu /\ OneRunning /\ Quiet
  BY DEF Inv
<1>1. Top.fn = "yield" /\ Top.at = "load" /\ ~pending /\ ~pending'
  BY <1>0 DEF YieldLoads, In, Quiet, NoTrap
<1>. DEFINE c == c_uthread_index
<1>2. /\ c \in Pool /\ state' = state /\ esp' = esp /\ next_tid' = next_tid
      /\ c_uthread_index' = c
  BY DEF YieldLoads, poolVars
<1>3. state[c] = "RUNNING"
  BY <1>0, <1>1, <1>2 DEF OneRunning
<1>4. /\ \A i \in Pool : ~Zeroing(i)
      /\ \A i \in Pool : state[i] # "FREE" => Fresh(i) \/ Yielded(i)
  BY SMTT(30), <1>0, <1>1 DEF Zeroing, OffCpu, Switching
<1>5. /\ sp' = c
      /\ calls' \in [Pool -> Seq(Frames)] /\ calls'[c] # <<>>
      /\ \A i \in Pool : i # c => calls'[i] = calls[i]
      /\ Top'.at \in {"start", "on"} /\ Top'.fn \in {"thread", "yield"}
      /\ Resumes(c)'
  <2>1. CASE Fresh(c)
    <3>1. esp[c] = Null /\ calls[c] = <<Call("thread", "start")>>
      BY <1>2, <1>4, <2>1 DEF Fresh, Loaded
    <3>2. sp' = c /\ calls' = calls
      BY <3>1 DEF YieldLoads
    <3>3. calls'[c] = <<Call("thread", "start")>> /\ Top' = Call("thread", "start")
      <4>1. calls'[sp'] = <<Call("thread", "start")>> /\ sp' = c
        BY <3>1, <3>2
      <4>2. Len(<<Call("thread", "start")>>) = 1
        OBVIOUS
      <4>3. calls'[sp'][1] = Call("thread", "start") /\ Len(calls'[sp']) = 1
        BY <4>1, <4>2
      <4>. QED
        BY <4>1, <4>3 DEF Top
    <3>4. Resumes(c)'
      <4>1. Len(calls'[c]) = 1 /\ calls'[c][1].fn = "thread"
        BY <3>3 DEF Call
      <4>. QED
        BY <1>2, <4>1 DEF Resumes
    <3>5. calls' \in [Pool -> Seq(Frames)]
      BY <1>0, <3>2 DEF TypeOK
    <3>6. calls'[c] # <<>>
      BY <3>3
    <3>7. Top'.at = "start" /\ Top'.fn = "thread"
      BY <3>3 DEF Call
    <3>. QED
      BY SMTT(30), <3>2, <3>4, <3>5, <3>6, <3>7
  <2>2. CASE Yielded(c)
    <3>. DEFINE n == Len(calls[c])
    <3>. DEFINE y == Call("yield", "on")
    <3>. DEFINE b == SubSeq(calls[c], 1, n - 1)
    <3>1. /\ calls \in [Pool -> Seq(Frames)] /\ calls[c] \in Seq(Frames) /\ n \in Nat /\ n >= 1
          /\ esp[c] = <<c, n>> /\ calls[c][n].fn = "yield" /\ calls[c][1].fn = "thread"
      BY <1>0, <1>2, <2>2 DEF TypeOK, Yielded, Resumes
    <3>2. esp[c] # Null /\ esp[c][1] = c /\ esp[c][2] = n
      BY <3>1 DEF Null
    <3>3. sp' = c /\ calls' = [calls EXCEPT ![c] = Append(b, y)]
      BY Zenon, <3>2 DEF YieldLoads
    <3>4. y \in Frames /\ y.fn = "yield" /\ y.at = "on"
      BY DEF Call, Frames, Places, Functions
    <3>. HIDE DEF y
    <3>5. /\ b \in Seq(Frames) /\ Len(b) = n - 1
          /\ \A d \in 1 .. n - 1 : b[d] = calls[c][d]
      BY <3>1
    <3>. HIDE DEF b
    <3>6. /\ Append(b, y) \in Seq(Frames) /\ Len(Append(b, y)) = n
          /\ Append(b, y)[n] = y
          /\ \A d \in 1 .. n - 1 : Append(b, y)[d] = b[d]
      BY <3>1, <3>4, <3>5
    <3>7. calls'[c] = Append(b, y) /\ \A i \in Pool : i # c => calls'[i] = calls[i]
      BY Zenon, <1>2, <3>1, <3>3
    <3>8. calls' \in [Pool -> Seq(Frames)]
      BY Zenon, <1>2, <3>1, <3>3, <3>6
    <3>9. Top' = y
      BY SMTT(30), <3>3, <3>6, <3>7 DEF Top
    <3>10. Resumes(c)'
      <4>1. n # 1
        BY <3>1
      <4>2. \A d \in 1 .. n - 1 : calls'[c][d] = calls[c][d]
        BY <3>5, <3>6, <3>7
      <4>3. Len(calls'[c]) = n
        BY <3>6, <3>7
      <4>4. \A d \in 1 .. n - 1 : calls[c][d].at \in Resumable
        BY <2>2 DEF Yielded, Resumes
      <4>. HIDE DEF n
      <4>5. 1 \in 1 .. n - 1
        BY <3>1, <4>1
      <4>. QED
        BY SMTT(30), <1>2, <3>1, <4>2, <4>3, <4>4, <4>5 DEF Resumes, Resumable
    <3>11. calls'[c] # <<>>
      <4>1. Len(calls'[c]) # 0
        BY <3>1, <3>6, <3>7
      <4>. QED
        BY <4>1
    <3>. QED
      BY SMTT(30), <3>3, <3>4, <3>7, <3>8, <3>9, <3>10, <3>11
  <2>. QED
    BY <1>2, <1>3, <1>4, <2>1, <2>2
<1>6. TypeOK'
  BY Zenon, <1>0, <1>2, <1>5 DEF TypeOK
<1>7. OffCpu'
  <2>. SUFFICES ASSUME NEW i \in Pool, state'[i] # "FREE", i # c
                PROVE  (Fresh(i) \/ Yielded(i))'
    BY <1>5 DEF OffCpu, Switching
  <2>1. calls'[i] = calls[i] /\ esp'[i] = esp[i] /\ ~Zeroing(i) /\ (Fresh(i) \/ Yielded(i))
    BY SMTT(30), <1>2, <1>4, <1>5
  <2>2. CASE Fresh(i)
    BY Zenon, <2>1, <2>2 DEF Fresh, Loaded
  <2>3. CASE Yielded(i)
    BY <2>1, <2>3 DEF Yielded, Resumes
  <2>. QED
    BY Zenon, <2>1, <2>2, <2>3
<1>8. OnCpu'
  BY SMTT(30), <1>2, <1>3, <1>5 DEF OnCpu
<1>9. OneRunning' /\ Quiet' /\ TicketOwned' /\ BeingCreated'
  BY <1>0, <1>1, <1>2, <1>5 DEF OneRunning, Quiet, TicketOwned, BeingCreated, Zeroing
<1>. QED
  BY <1>6, <1>7, <1>8, <1>9 DEF Inv

-----------------------------------------------------------------------------
(* The alarm, and the steps together *)

\* No thread, stack or call changes.
LEMMA StacksKept ==
    ASSUME Inv, state' = state, esp' = esp, next_tid' = next_tid,
           c_uthread_index' = c_uthread_index, calls' = calls, sp' = sp, Quiet'
    PROVE  Inv'
<1>1. Top' = Top
  BY Zenon DEF Top
<1>2. \A i \in Pool : /\ Zeroing(i)' <=> Zeroing(i)
                      /\ Loaded(i)' <=> Loaded(i)
                      /\ Resumes(i)' <=> Resumes(i)
  BY <1>1 DEF Loaded, Zeroing, Resumes, Resumable
<1>3. \A i \in Pool : /\ Fresh(i)' <=> Fresh(i)
                      /\ Yielded(i)' <=> Yielded(i)
  BY <1>2 DEF Fresh, Yielded
<1>4. TypeOK'
  BY DEF Inv, TypeOK
<1>5. OffCpu'
  BY <1>1, <1>3 DEF Inv, OffCpu, Switching
<1>6. BeingCreated'
  BY <1>2 DEF Inv, BeingCreated
<1>7. OnCpu'
  BY <1>1, <1>2, <1>4 DEF Inv, OnCpu, Switching, TypeOK
<1>8. OneRunning' /\ TicketOwned'
  BY <1>1 DEF Inv, OneRunning, TicketOwned, Live
<1>. QED
  BY <1>4, <1>5, <1>6, <1>7, <1>8 DEF Inv

\* The alarm expires before a call has switched it off.
LEMMA TickInv ==
    ASSUME Inv, Tick, ~breached'
    PROVE  Inv'
<1>1. /\ state' = state /\ esp' = esp /\ next_tid' = next_tid /\ c_uthread_index' = c_uthread_index
      /\ calls' = calls /\ sp' = sp /\ Top.at \in {"run", "off"}
  BY DEF Tick, poolVars
<1>2. Quiet'
  BY <1>1 DEF Quiet, Top
<1>. QED
  BY <1>1, <1>2, StacksKept

\* Nothing changes.
LEMMA StutterInv ==
    ASSUME Inv, UNCHANGED vars
    PROVE  Inv'
<1>1. /\ state' = state /\ esp' = esp /\ next_tid' = next_tid /\ c_uthread_index' = c_uthread_index
      /\ calls' = calls /\ sp' = sp /\ pending' = pending /\ trapped' = trapped
  BY DEF vars, poolVars, signalVars
<1>2. Quiet'
  BY <1>1 DEF Inv, Quiet, Top
<1>. QED
  BY <1>1, <1>2, StacksKept

\* After uthread_init().
LEMMA InitInv ==
    ASSUME Init
    PROVE  Inv
<1>0. 0 \in Pool /\ MAX_THREADS \in Nat
  BY UThreadAssumption DEF Pool
<1>1. /\ \A i \in Pool : state[i] = IF i = 0 THEN "RUNNING" ELSE "FREE"
      /\ sp = 0 /\ c_uthread_index = 0 /\ pending = FALSE
      /\ calls[sp] = <<Call("thread", "run")>>
  BY <1>0 DEF Init
<1>2. Len(calls[sp]) = 1 /\ calls[sp][1] = Call("thread", "run")
  <2>1. Len(<<Call("thread", "run")>>) = 1
    OBVIOUS
  <2>. QED
    BY <1>1, <2>1
<1>3. Top = Call("thread", "run")
  BY <1>2 DEF Top
<1>4. Top.fn = "thread" /\ Top.at = "run" /\ Top \in Frames
  BY <1>3 DEF Call, Frames, Functions, Places
<1>5. TypeOK
  <2>1. state \in [Pool -> States] /\ esp \in [Pool -> {Null} \cup (Pool \X Nat)]
    BY DEF Init, States
  <2>2. calls \in [Pool -> Seq(Frames)]
    <3>1. Call("thread", "run") \in Frames
      BY <1>3, <1>4
    <3>2. <<Call("thread", "run")>> \in Seq(Frames) /\ <<>> \in Seq(Frames)
      BY <3>1
    <3>. QED
      BY <3>2 DEF Init
  <2>3. calls[sp] # <<>>
    BY <1>1
  <2>. QED
    BY <1>0, <1>1, <2>1, <2>2, <2>3 DEF Init, TypeOK
<1>6. OffCpu /\ BeingCreated
  BY <1>1, <1>4 DEF OffCpu, Switching, BeingCreated, Zeroing
<1>7. OnCpu
  <2>1. Resumes(sp)
    BY <1>2, <1>3, <1>4 DEF Resumes
  <2>. QED
    BY <1>0, <1>1, <1>4, <2>1 DEF OnCpu
<1>8. OneRunning /\ Quiet /\ TicketOwned
  BY <1>1, <1>4 DEF OneRunning, Quiet, TicketOwned
<1>. QED
  BY <1>5, <1>6, <1>7, <1>8 DEF Inv

\* Every step of the library, of a thread and of the kernel keeps the invariant.
LEMMA NextInv ==
    ASSUME Inv, [Next]_vars, ~breached'
    PROVE  Inv'
<1>1. ASSUME NEW fn \in {"create", "exit", "yield"}, ThreadCalls(Call(fn, "off")) PROVE Inv'
  <2>1. Call(fn, "off") \in Frames /\ Call(fn, "off").at = "off"
    BY DEF Call, Frames, Functions, Places
  <2>. QED
    BY <1>1, <2>1, ThreadCallsInv
<1>2. ASSUME NEW t \in 0 .. next_tid - 1, ThreadCalls([Call("join", "off") EXCEPT !.arg = t]) PROVE Inv'
  <2>. DEFINE k == [Call("join", "off") EXCEPT !.arg = t]
  <2>1. t \in Int
    BY DEF Inv, TypeOK
  <2>2. k \in Frames /\ k.at = "off"
    BY <2>1 DEF Call, Frames, Functions, Places
  <2>. HIDE DEF k
  <2>3. ThreadCalls(k)
    BY <1>2 DEF k
  <2>. QED
    BY <2>2, <2>3, ThreadCallsInv
<1>3. CASE ThreadStarts
  <2>1. /\ Goto("run") /\ Top.at = "start" /\ Top.fn = "thread"
        /\ UNCHANGED poolVars /\ sp' = sp /\ pending' = pending /\ trapped' = TRUE
    BY <1>3 DEF ThreadStarts, In, Alarm
  <2>. QED
    BY <2>1, GoesOnInv
<1>4. ASSUME NEW fn \in {"create", "exit", "join"}, SwitchingOff(fn, "body") PROVE Inv'
  <2>1. /\ Goto("body") /\ Top.at = "off" /\ Top.fn = fn
        /\ UNCHANGED poolVars /\ sp' = sp /\ pending' = pending /\ trapped' = TRUE
    BY <1>4 DEF SwitchingOff, In, Alarm
  <2>. QED
    BY <2>1, GoesOnInv
<1>5. CASE SwitchingOff("yield", "save")
  <2>1. /\ Goto("save") /\ Top.at = "off" /\ Top.fn = "yield"
        /\ UNCHANGED poolVars /\ sp' = sp /\ pending' = pending /\ trapped' = TRUE
    BY <1>5 DEF SwitchingOff, In, Alarm
  <2>. QED
    BY <2>1, GoesOnInv
<1>6. ASSUME NEW fn \in {"create", "join", "yield"}, SwitchingOn(fn) PROVE Inv'
  BY <1>6, SwitchingOnInv
<1>7. CASE CreateLoads \/ CreateZeroes \/ ExitFrees \/ ExitLeaves \/ JoinScans
  BY <1>7, CreateLoadsInv, CreateZeroesInv, ExitFreesInv, ExitLeavesInv, JoinScansInv
<1>8. CASE YieldSaves \/ YieldPicks \/ YieldLoads
  BY <1>8, YieldSavesInv, YieldPicksInv, YieldLoadsInv
<1>9. CASE Tick \/ Deliver
  BY Zenon, <1>9, TickInv, DeliverInv
<1>10. CASE OffPool \/ Done \/ UNCHANGED vars
  BY <1>10, StutterInv DEF OffPool, Done
<1>. QED
  BY Zenon, <1>1, <1>2, <1>3, <1>4, <1>5, <1>6, <1>7, <1>8, <1>9, <1>10 DEF Next

\* What has happened stays so.
LEMMA BreachStays ==
    ASSUME breached, [Next]_vars
    PROVE  breached'
  BY DEF Next, vars, signalVars, Alarm, NoTrap, ThreadCalls, ThreadStarts, SwitchingOff, SwitchingOn,
         CreateLoads, CreateZeroes, ExitFrees, ExitLeaves, JoinScans, YieldSaves, YieldPicks,
         YieldLoads, Tick, Deliver, OffPool, Done

\* In every state, until an alarm expires in what alarm(0) is there to protect.
THEOREM Invariance == Spec => [](breached \/ Inv)
<1>1. Init => breached \/ Inv
  BY InitInv
<1>2. (breached \/ Inv) /\ [Next]_vars => (breached \/ Inv)'
  BY ZenonT(60), NextInv, BreachStays
<1>. QED
  BY <1>1, <1>2, PTL DEF Spec

\* uthread_yield(), for every pool and any number of threads created, joined
\* and preempted: while a thread runs, the CPU is on that thread's own stack,
\* until an alarm expires between the alarm(0) and the end of a library call.
THEOREM ThreadsKeepTheirStacks == Spec => []OwnStackUntilBreach
<1>1. breached \/ Inv => OwnStackUntilBreach
  BY DEF Inv, OnCpu, Switching, RunsOnOwnStack, OwnStackUntilBreach
<1>. QED
  BY <1>1, Invariance, PTL

\* uthread_yield(): what it loads is where the thread it picked called yield.
THEOREM SwitchesResume == Spec => []SwitchResumesThread
<1>1. breached \/ Inv => SwitchResumesThread
  <2>. SUFFICES ASSUME Inv, Top.at = "load", c_uthread_index \in Pool, esp[c_uthread_index] # Null
                PROVE  /\ esp[c_uthread_index][1] = c_uthread_index
                       /\ Len(calls[c_uthread_index]) = esp[c_uthread_index][2]
                       /\ calls[c_uthread_index][esp[c_uthread_index][2]].fn = "yield"
    BY Zenon DEF SwitchResumesThread
  <2>1. state[c_uthread_index] = "RUNNING"
    BY Zenon DEF Inv, OneRunning
  <2>2. Yielded(c_uthread_index)
    <3>1. Fresh(c_uthread_index) \/ Yielded(c_uthread_index)
      BY <2>1 DEF Inv, OffCpu, Switching
    <3>. QED
      BY <3>1 DEF Fresh, Zeroing
  <2>. QED
    BY <2>2 DEF Yielded
<1>. QED
  BY <1>1, Invariance, PTL

\* uthread_yield(): the ticket drawn belongs to a RUNNABLE thread, however many
\* threads and tickets there are.
THEOREM LotteryHasWinner == Spec => []TicketHasOwner
<1>1. breached \/ Inv => TicketHasOwner
  BY DEF Inv, TicketOwned, TicketHasOwner
<1>. QED
  BY <1>1, Invariance, PTL
=============================================================================
