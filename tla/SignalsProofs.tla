---------------------------- MODULE SignalsProofs ----------------------------
(* Signals: for any number of signals, handlers and alarms, no signal that   *)
(* was sent is forgotten, and the frames of the handlers balance, until an   *)
(* interrupt pushes a frame inside pushHandlingSig().                        *)
(*                                                                           *)
(* Both follow from the shape of the user stack: whatever a return address   *)
(* on it pops lies right below it, and what handling_signal() overwrites in  *)
(* the trap frame has been pushed.                                           *)
EXTENDS Signals, SequenceTheorems, TLAPS

Loop == {"none", "test", "claim", "print", "clear", "push"}
Places == Loop \cup {"load", "reserve", "store", "divert"}
Acts == [at : Places, sig : Sigs, pushed : 0 .. 3, esp : Nat]

HandlerWords == {Handler(i) : i \in Sigs}
Backs == {Back(n) : n \in 0 .. 2}
ArgWords == {Arg(v) : v \in Int}
Codes == {Main, Stub, SigRet} \cup Backs \cup HandlerWords
Words == Codes \cup ArgWords \cup {Unwritten}

TypeOK ==
    /\ pending \in [Sigs -> BOOLEAN]
    /\ owed \in [Sigs -> {"no", "yes", "dropped"}]
    /\ act \in [Levels -> Acts]
    /\ eip \in Words
    /\ ustack \in Seq(Words)

\* The system call's activation lives from its return to user mode.
InCall == mode # "return" => act["syscall"] = Idle

\* The words an activation has put on the stack, the one it has made room for
\* included, and the stack below them.
Built(l) == act[l].pushed + (IF act[l].at = "store" THEN 1 ELSE 0)
Base == Len(ustack) - Built("syscall") - Built("interrupt")

\* How far pushHandlingSig() is, and what it has built on top of the stack.
Stage(l) ==
    /\ act[l].at \in Loop => act[l].pushed = 0
    /\ act[l].at \in {"load", "reserve", "store"} => act[l].pushed <= 2
    /\ act[l].at = "divert" => act[l].pushed = 3
    /\ act[l].at = "reserve" => act[l].esp = Len(ustack)
    /\ act[l].at = "store" => act[l].esp + 1 = Len(ustack) /\ ustack[Len(ustack)] = Unwritten
    /\ act[l].pushed >= 1 => ustack[Base + 1] = eip
    /\ act[l].pushed >= 2 => ustack[Base + 2] = Arg(act[l].sig)
    /\ act[l].pushed >= 3 => ustack[Base + 3] = SigRet

\* One activation builds at a time.
Exclusive == Built("interrupt") > 0 => ~Pushing("syscall")

\* A return to w finds on stack s, of which it leaves n - 1 words, what w pops.
Fits(s, w, n) ==
    /\ w = Main => n = 1
    /\ w = Stub => n >= 2 /\ s[n - 1] \in Backs
    /\ \A k \in 0 .. 2 : w = Back(k) => n = k + 1 /\ \A m \in 1 .. k : s[m] \in ArgWords
    /\ w = SigRet => n >= 3 /\ s[n - 1] \in ArgWords /\ s[n - 2] \in Codes
    /\ w \in HandlerWords => n >= 2 /\ s[n - 1] = SigRet

\* Every return address on the first b words of s finds what it pops, and so
\* does w above them.
Shape(s, b, w) ==
    /\ b \in 0 .. Len(s) /\ w \in Codes /\ Fits(s, w, b + 1)
    /\ \A n \in 1 .. b : Fits(s, s[n], n)

\* Where a signal that was sent is.
Remembered(i) ==
    \/ pending[i]
    \/ \E l \in Levels : act[l].sig = i /\ act[l].at \notin {"none", "test"}
    \/ eip = Handler(i)
    \/ \E n \in DOMAIN ustack : ustack[n] = Handler(i)

StackInv == Exclusive /\ Shape(ustack, Base, eip) /\ \A l \in Levels : Stage(l)
Safe == \A i \in Sigs : owed[i] = "yes" => Remembered(i)
Good == TypeOK /\ InCall /\ StackInv /\ Safe

\* Nothing is claimed once an interrupt has pushed inside pushHandlingSig().
Inv == torn \in BOOLEAN /\ (~torn => Good)

-----------------------------------------------------------------------------
(* Words, stacks and activations *)

\* The words of the user stack can be told apart.
LEMMA WordsDiffer ==
    /\ \A i : Handler(i) \notin {Main, Stub, SigRet, Unwritten}
    /\ \A i, v : Handler(i) # Arg(v) /\ Handler(i) # Back(v) /\ Back(i) # Arg(v)
    /\ \A v : Arg(v) \notin {Main, Stub, SigRet, Unwritten} /\ Back(v) \notin {Main, Stub, SigRet, Unwritten}
    /\ Main # SigRet /\ Main # Stub /\ SigRet # Stub /\ Unwritten \notin {Main, Stub, SigRet}
    /\ \A i, j : (Handler(i) = Handler(j) => i = j) /\ (Back(i) = Back(j) => i = j)
  BY DEF Handler, Main, Stub, SigRet, Unwritten, Arg, Back

\* A code address is no argument, and each kind of it is a kind of its own.
LEMMA KindsDiffer ==
    /\ \A w \in Codes : w \notin ArgWords /\ w # Unwritten
    /\ \A w \in HandlerWords : w \notin {Main, Stub, SigRet} \cup Backs
    /\ \A w \in ArgWords : w \notin Codes /\ w # Unwritten
    /\ \A w \in Backs : w \notin {Main, Stub, SigRet}
    /\ \A i : Handler(i) \in HandlerWords => i \in Sigs
    /\ \A i \in Sigs : Handler(i) \in HandlerWords
    /\ Main \notin Backs /\ Stub \notin Backs /\ SigRet \notin Backs /\ Unwritten \notin HandlerWords
  BY WordsDiffer DEF Codes, HandlerWords, Backs, ArgWords

\* Signal numbers are integers, and 0 and SIGALRM are among them.
LEMMA SigsAreNumbers == Sigs \subseteq Int /\ 0 \in Sigs /\ SIGALRM \in Sigs
  BY SignalsAssumption DEF Sigs

\* What a return address finds depends on the words below it only.
LEMMA FitsLocal ==
    ASSUME NEW s, NEW t, NEW n \in Nat \ {0}, NEW w, \A m \in 1 .. n - 1 : t[m] = s[m], Fits(s, w, n)
    PROVE  Fits(t, w, n)
<1>1. \A k \in 0 .. 2 : w = Back(k) => n = k + 1 /\ \A m \in 1 .. k : t[m] \in ArgWords
  BY DEF Fits
<1>2. w = SigRet => n >= 3 /\ t[n - 1] \in ArgWords /\ t[n - 2] \in Codes
  BY DEF Fits
<1>3. w = Stub => n >= 2 /\ t[n - 1] \in Backs
  BY DEF Fits
<1>4. w \in HandlerWords => n >= 2 /\ t[n - 1] = SigRet
  BY DEF Fits
<1> QED
  BY <1>1, <1>2, <1>3, <1>4 DEF Fits

\* So the shape of a stack up to b depends on its first b words only.
LEMMA ShapeLocal ==
    ASSUME NEW s, NEW t, NEW b \in Nat, NEW w, Len(t) \in Nat, b <= Len(t),
           \A n \in 1 .. b : t[n] = s[n], Shape(s, b, w)
    PROVE  Shape(t, b, w)
<1>1. Fits(t, w, b + 1)
  BY FitsLocal DEF Shape
<1>2. ASSUME NEW n \in 1 .. b PROVE Fits(t, t[n], n)
  BY <1>2, FitsLocal DEF Shape
<1> QED
  BY <1>1, <1>2 DEF Shape

\* Popping down to a code address leaves a stack of that shape.
LEMMA ShapePopped ==
    ASSUME NEW s, NEW b \in Nat, NEW w, Shape(s, b, w), NEW n \in 1 .. b, s[n] \in Codes
    PROVE  Shape(s, n - 1, s[n])
  BY DEF Shape

\* The types of an activation.
LEMMA ActTyped == Idle \in Acts /\ Started \in Acts /\ \A i \in Sigs : [Started EXCEPT !.sig = i] \in Acts
<1>1. Started = [at |-> "test", sig |-> 0, pushed |-> 0, esp |-> 0]
  BY DEF Started, Idle
<1>2. \A i : [Started EXCEPT !.sig = i] = [at |-> "test", sig |-> i, pushed |-> 0, esp |-> 0]
  BY <1>1
<1>3. \A i \in Sigs, a \in Places : [at |-> a, sig |-> i, pushed |-> 0, esp |-> 0] \in Acts
  BY DEF Acts
<1>4. "none" \in Places /\ "test" \in Places
  BY DEF Places, Loop
<1> QED
  BY <1>1, <1>2, <1>3, <1>4, SigsAreNumbers DEF Idle

\* What the types say of the stack.
LEMMA StackTyped ==
    ASSUME TypeOK
    PROVE  /\ Len(ustack) \in Nat /\ DOMAIN ustack = 1 .. Len(ustack)
           /\ \A n \in 1 .. Len(ustack) : ustack[n] \in Words
           /\ \A l \in Levels : act[l] \in Acts /\ act[l].pushed \in 0 .. 3 /\ act[l].sig \in Sigs
           /\ \A l \in Levels : Built(l) \in Nat
           /\ Base \in Int
<1>1. Len(ustack) \in Nat /\ DOMAIN ustack = 1 .. Len(ustack) /\ \A n \in 1 .. Len(ustack) : ustack[n] \in Words
  BY LenProperties, ElementOfSeq DEF TypeOK
<1>2. \A l \in Levels : act[l] \in Acts /\ act[l].pushed \in 0 .. 3 /\ act[l].sig \in Sigs
  BY DEF TypeOK, Acts
<1>3. \A l \in Levels : Built(l) \in Nat
  BY <1>2 DEF Built
<1> QED
  BY <1>1, <1>2, <1>3 DEF Base, Levels

\* An activation that has put nothing on the stack.
Quiet(a) == a.at \in Loop \cup {"load"} /\ a.pushed = 0

\* The steps of the loop leave the stack, the trap frame and what is being
\* built on the stack alone.
LEMMA StackKept ==
    ASSUME Good, ustack' = ustack, eip' = eip, act' \in [Levels -> Acts],
           \A l \in Levels : act'[l] = act[l] \/ (Quiet(act[l]) /\ Quiet(act'[l]))
    PROVE  StackInv'
<1>1. \A l \in Levels : Built(l)' = Built(l) /\ (Pushing(l)' <=> Pushing(l))
  BY DEF Built, Pushing, Quiet, Loop
<1>2. Base' = Base
  BY <1>1 DEF Base, Levels
<1>3. ASSUME NEW l \in Levels PROVE Stage(l)'
  <2>1. Stage(l)
    BY DEF Good, StackInv
  <2>2. CASE act'[l] = act[l]
    BY <1>2, <2>1, <2>2 DEF Stage
  <2>3. CASE Quiet(act'[l])
    BY <2>3 DEF Stage, Quiet, Loop
  <2> QED
    BY <2>2, <2>3
<1>4. Exclusive'
  BY <1>1 DEF Good, StackInv, Exclusive, Levels
<1> QED
  BY <1>2, <1>3, <1>4 DEF Good, StackInv

\* Nobody is building: the whole stack has its shape.
LEMMA ShapeIfQuiet ==
    ASSUME Good, \A l \in Levels : Quiet(act[l])
    PROVE  Base = Len(ustack) /\ Shape(ustack, Len(ustack), eip)
<1>1. \A l \in Levels : Built(l) = 0
  BY StackTyped DEF Good, Quiet, Built, Loop
<1>2. Base = Len(ustack)
  BY <1>1, StackTyped DEF Good, Base, Levels
<1> QED
  BY <1>2 DEF Good, StackInv

\* And then every stack of that shape will do.
LEMMA QuietStack ==
    ASSUME NEW s, NEW w, Len(s) \in Nat, Shape(s, Len(s), w), ustack' = s, eip' = w,
           act' \in [Levels -> Acts], \A l \in Levels : Quiet(act'[l])
    PROVE  StackInv'
<1>1. \A l \in Levels : Built(l)' = 0
  BY DEF Quiet, Built, Loop
<1>2. Base' = Len(s)
  BY <1>1 DEF Base, Levels
<1>3. \A l \in Levels : Stage(l)'
  BY DEF Stage, Quiet, Loop
<1>4. Exclusive'
  BY <1>1 DEF Exclusive, Levels
<1> QED
  BY <1>2, <1>3, <1>4 DEF StackInv

-----------------------------------------------------------------------------
(* handling_signal() *)

\* One activation moves, and keeps its signal.
LEMMA BecomesTyped ==
    ASSUME TypeOK, NEW l \in Levels, NEW a \in Places, Becomes(l, a)
    PROVE  /\ act' \in [Levels -> Acts]
           /\ act'[l] = [act[l] EXCEPT !.at = a]
           /\ act'[l].at = a /\ act'[l].sig = act[l].sig /\ act'[l].pushed = act[l].pushed
           /\ act'[l].esp = act[l].esp
           /\ \A m \in Levels : m # l => act'[m] = act[m]
  BY DEF TypeOK, Becomes, Acts

\* The loop goes on to the next signal, or ends.
LEMMA AdvanceTyped ==
    ASSUME TypeOK, NEW l \in Levels, Advance(l)
    PROVE  /\ act' \in [Levels -> Acts]
           /\ act'[l].at \in {"none", "test"} /\ Quiet(act'[l])
           /\ \A m \in Levels : m # l => act'[m] = act[m]
<1> DEFINE a == IF act[l].sig = NUMSIG - 1 THEN Idle ELSE [Started EXCEPT !.sig = act[l].sig + 1]
<1>1. act' = [act EXCEPT ![l] = a] /\ act \in [Levels -> Acts]
  BY DEF Advance, TypeOK
<1>2. act[l].sig \in Sigs
  BY StackTyped
<1>3. act[l].sig # NUMSIG - 1 => act[l].sig + 1 \in Sigs
  BY <1>2, SignalsAssumption DEF Sigs, SignalsAssumption
<1>4. a \in Acts
  BY <1>3, ActTyped
<1>5. a.at \in {"none", "test"} /\ Quiet(a)
  BY DEF Idle, Started, Quiet, Loop
<1> HIDE DEF a
<1> QED
  BY <1>1, <1>4, <1>5

\* Idle is no place to be at but "none".
LEMMA AtIsActive ==
    ASSUME Good, NEW l \in Levels, NEW a \in Places \ {"none"}, At(l, a)
    PROVE  /\ act[l].at = a
           /\ l = "syscall" => act["interrupt"] = Idle /\ mode = "return"
<1>1. Idle.at = "none"
  BY DEF Idle
<1> QED
  BY <1>1 DEF At, Good, InCall

\* What each step of the loop leaves of Good, when it is quiet.
LEMMA LoopStep ==
    ASSUME Good, NEW l \in Levels, act[l].at \in Loop, act' \in [Levels -> Acts],
           mode' = mode, mode = "return" \/ l = "interrupt",
           \A m \in Levels : m # l => act'[m] = act[m],
           Quiet(act'[l]), pending' \in [Sigs -> BOOLEAN], owed' \in [Sigs -> {"no", "yes", "dropped"}],
           UNCHANGED <<eip, ustack>>, Safe'
    PROVE  Good'
<1>1. Quiet(act[l])
  BY DEF Good, StackInv, Stage, Quiet
<1>2. StackInv'
  BY <1>1, StackKept
<1>3. TypeOK'
  BY DEF Good, TypeOK
<1>4. InCall'
  BY DEF Good, InCall, Levels
<1> QED
  BY <1>2, <1>3, <1>4 DEF Good

\* handling_signal()'s test of p->pending.
LEMMA TestGood ==
    ASSUME Good, NEW l \in Levels, Test(l)
    PROVE  Good'
<1>1. act[l].at = "test" /\ (mode = "return" \/ l = "interrupt")
  BY AtIsActive DEF Test, Levels, Places, Loop
<1>2. /\ act' \in [Levels -> Acts] /\ Quiet(act'[l])
      /\ \A m \in Levels : m # l => act'[m] = act[m]
  <2>1. CASE Becomes(l, "claim")
    <3>1. "claim" \in Places
      BY DEF Places, Loop
    <3>2. act[l].pushed = 0
      BY <1>1 DEF Good, StackInv, Stage, Loop
    <3> QED
      BY <2>1, <3>1, <3>2, BecomesTyped DEF Good, Quiet, Loop
  <2>2. CASE Advance(l)
    BY <2>2, AdvanceTyped DEF Good
  <2> QED
    BY <2>1, <2>2 DEF Test
<1>3. UNCHANGED <<mode, pending, owed, eip, ustack>>
  BY DEF Test, sigVars, userVars
<1>4. Safe'
  <2> SUFFICES ASSUME NEW i \in Sigs, owed[i] = "yes", Remembered(i) PROVE Remembered(i)'
    BY <1>3 DEF Good, Safe
  <2> QED
    BY <1>1, <1>2, <1>3 DEF Remembered
<1> QED
  BY <1>1, <1>2, <1>3, <1>4, LoopStep DEF Good, TypeOK, Loop

\* pending = 0, and the choice between the two kinds of handler.
LEMMA ClaimGood ==
    ASSUME Good, NEW l \in Levels, Claim(l)
    PROVE  Good'
<1>1. act[l].at = "claim" /\ (mode = "return" \/ l = "interrupt")
  BY AtIsActive DEF Claim, Levels, Places, Loop
<1>2. /\ act' \in [Levels -> Acts] /\ Quiet(act'[l]) /\ act'[l].sig = act[l].sig
      /\ act'[l].at \notin {"none", "test"}
      /\ \A m \in Levels : m # l => act'[m] = act[m]
  <2>1. PICK a \in {"print", "push"} : Becomes(l, a)
    BY DEF Claim
  <2>2. act[l].pushed = 0 /\ a \in Places
    BY <1>1 DEF Good, StackInv, Stage, Loop, Places
  <2> QED
    BY <2>1, <2>2, BecomesTyped DEF Good, Quiet, Loop
<1>3. /\ UNCHANGED <<mode, owed, eip, ustack>>
      /\ pending' = [pending EXCEPT ![act[l].sig] = FALSE]
  BY DEF Claim, userVars
<1>4. Safe'
  <2> SUFFICES ASSUME NEW i \in Sigs, owed[i] = "yes", Remembered(i) PROVE Remembered(i)'
    BY <1>3 DEF Good, Safe
  <2>1. CASE i = act[l].sig
    BY <1>2, <2>1 DEF Remembered
  <2>2. CASE i # act[l].sig
    BY <1>1, <1>2, <1>3, <2>2 DEF Remembered, Good, TypeOK
  <2> QED
    BY <2>1, <2>2
<1>5. pending' \in [Sigs -> BOOLEAN]
  BY <1>3 DEF Good, TypeOK
<1> QED
  BY <1>1, <1>2, <1>3, <1>4, <1>5, LoopStep DEF Good, TypeOK, Loop

\* defaultSigHandler().
LEMMA DefaultSigHandlerGood ==
    ASSUME Good, NEW l \in Levels, DefaultSigHandler(l)
    PROVE  Good'
<1>1. act[l].at = "print" /\ (mode = "return" \/ l = "interrupt")
  BY AtIsActive DEF DefaultSigHandler, Levels, Places, Loop
<1>2. /\ act' \in [Levels -> Acts] /\ Quiet(act'[l]) /\ act'[l].sig = act[l].sig
      /\ act'[l].at = "clear"
      /\ \A m \in Levels : m # l => act'[m] = act[m]
  <2>1. act[l].pushed = 0 /\ "clear" \in Places
    BY <1>1 DEF Good, StackInv, Stage, Loop, Places
  <2> QED
    BY <2>1, BecomesTyped DEF DefaultSigHandler, Good, Quiet, Loop
<1>3. /\ UNCHANGED <<mode, pending, eip, ustack>>
      /\ owed' = [owed EXCEPT ![act[l].sig] = "no"]
  BY DEF DefaultSigHandler, userVars
<1>4. owed' \in [Sigs -> {"no", "yes", "dropped"}]
  BY <1>3 DEF Good, TypeOK
<1>5. Safe'
  <2> SUFFICES ASSUME NEW i \in Sigs, owed'[i] = "yes" PROVE Remembered(i)'
    BY DEF Safe
  <2>1. owed[i] = "yes" /\ i # act[l].sig
    BY <1>3 DEF Good, TypeOK
  <2>2. Remembered(i)
    BY <2>1 DEF Good, Safe
  <2> QED
    BY <1>1, <1>2, <1>3, <2>2 DEF Remembered
<1> QED
  BY <1>1, <1>2, <1>3, <1>4, <1>5, LoopStep DEF Good, TypeOK, Loop

\* The second pending = 0.
LEMMA ClearAgainGood ==
    ASSUME Good, NEW l \in Levels, ClearAgain(l)
    PROVE  Good'
<1>1. act[l].at = "clear" /\ (mode = "return" \/ l = "interrupt")
  BY AtIsActive DEF ClearAgain, Levels, Places, Loop
<1>2. /\ act' \in [Levels -> Acts] /\ Quiet(act'[l])
      /\ \A m \in Levels : m # l => act'[m] = act[m]
  BY AdvanceTyped DEF ClearAgain, Good
<1>3. /\ UNCHANGED <<mode, eip, ustack>>
      /\ pending' = [pending EXCEPT ![act[l].sig] = FALSE]
      /\ owed' = [owed EXCEPT ![act[l].sig] = IF owed[act[l].sig] = "yes" THEN "dropped" ELSE owed[act[l].sig]]
  BY DEF ClearAgain, userVars
<1>4. pending' \in [Sigs -> BOOLEAN] /\ owed' \in [Sigs -> {"no", "yes", "dropped"}]
  BY <1>3 DEF Good, TypeOK
<1>5. Safe'
  <2> SUFFICES ASSUME NEW i \in Sigs, owed'[i] = "yes" PROVE Remembered(i)'
    BY DEF Safe
  <2>1. owed[i] = "yes" /\ i # act[l].sig
    BY <1>3 DEF Good, TypeOK
  <2>2. Remembered(i)
    BY <2>1 DEF Good, Safe
  <2> QED
    BY <1>1, <1>2, <1>3, <2>1, <2>2 DEF Remembered, Good, TypeOK
<1> QED
  BY <1>1, <1>2, <1>3, <1>4, <1>5, LoopStep DEF Good, TypeOK, Loop

\* pushHandlingSig() clears pending.
LEMMA ClearPendingGood ==
    ASSUME Good, NEW l \in Levels, ClearPending(l)
    PROVE  Good'
<1>1. act[l].at = "push" /\ (mode = "return" \/ l = "interrupt")
  BY AtIsActive DEF ClearPending, Levels, Places, Loop
<1>2. /\ act' \in [Levels -> Acts] /\ Quiet(act'[l]) /\ act'[l].sig = act[l].sig
      /\ act'[l].at = "load"
      /\ \A m \in Levels : m # l => act'[m] = act[m]
  <2>1. act[l].pushed = 0 /\ "load" \in Places
    BY <1>1 DEF Good, StackInv, Stage, Loop, Places
  <2> QED
    BY <2>1, BecomesTyped DEF ClearPending, Good, Quiet, Loop
<1>3. /\ UNCHANGED <<mode, owed, eip, ustack>>
      /\ pending' = [pending EXCEPT ![act[l].sig] = FALSE]
  BY DEF ClearPending, userVars
<1>4. Safe'
  <2> SUFFICES ASSUME NEW i \in Sigs, owed[i] = "yes", Remembered(i) PROVE Remembered(i)'
    BY <1>3 DEF Good, Safe
  <2>1. CASE i = act[l].sig
    BY <1>2, <2>1 DEF Remembered
  <2>2. CASE i # act[l].sig
    BY <1>1, <1>2, <1>3, <2>2 DEF Remembered, Good, TypeOK
  <2> QED
    BY <2>1, <2>2
<1>5. pending' \in [Sigs -> BOOLEAN]
  BY <1>3 DEF Good, TypeOK
<1> QED
  BY <1>1, <1>2, <1>3, <1>4, <1>5, LoopStep DEF Good, TypeOK, Loop

-----------------------------------------------------------------------------
(* pushHandlingSig() *)

\* While one activation writes to the stack, the other is quiet.
LEMMA OtherIsQuiet ==
    ASSUME Good, NEW l \in Levels, NEW a \in Places \ {"none"}, At(l, a),
           Built(l) > 0 \/ \A m \in Levels \ {l} : ~Pushing(m)
    PROVE  /\ \A m \in Levels : m # l => Quiet(act[m]) /\ Built(m) = 0
           /\ Base = Len(ustack) - Built(l)
<1>1. CASE l = "syscall"
  <2>1. act["interrupt"] = Idle
    BY <1>1, AtIsActive
  <2>2. Quiet(Idle) /\ Idle.at # "store" /\ Idle.pushed = 0
    BY DEF Idle, Quiet, Loop
  <2>3. \A m \in Levels : m # l => Quiet(act[m]) /\ Built(m) = 0
    BY <1>1, <2>1, <2>2 DEF Levels, Built
  <2> QED
    BY <1>1, <2>3, StackTyped DEF Base, Levels, Good
<1>2. CASE l = "interrupt"
  <2>1. ~Pushing("syscall")
    BY <1>2 DEF Good, StackInv, Exclusive, Levels
  <2>2. \/ act["syscall"].at \in Loop
        \/ act["syscall"].at = "load" /\ act["syscall"].pushed = 0
    <3>1. act["syscall"].at \in Places /\ act["syscall"].pushed \in 0 .. 3
      BY StackTyped DEF Good, Levels, Acts
    <3> QED
      BY <2>1, <3>1 DEF Pushing, Places
  <2>3. Stage("syscall")
    BY DEF Good, StackInv, Levels
  <2>4. Quiet(act["syscall"]) /\ Built("syscall") = 0
    BY <2>2, <2>3 DEF Stage, Quiet, Built, Loop
  <2> QED
    BY <1>2, <2>4, StackTyped DEF Base, Levels, Good
<1> QED
  BY <1>1, <1>2 DEF Levels

\* tf->esp is loaded.
LEMMA LoadEspGood ==
    ASSUME Good, NEW l \in Levels, LoadEsp(l)
    PROVE  Good'
<1>1. act[l].at = "load" /\ (mode = "return" \/ l = "interrupt")
  BY AtIsActive DEF LoadEsp, Levels, Places, Loop
<1>2. /\ UNCHANGED <<mode, pending, owed, eip, ustack>>
      /\ act' = [act EXCEPT ![l].at = "reserve", ![l].esp = Len(ustack)]
  BY DEF LoadEsp, sigVars, userVars
<1>3. /\ act' \in [Levels -> Acts]
      /\ act'[l].at = "reserve" /\ act'[l].sig = act[l].sig /\ act'[l].pushed = act[l].pushed
      /\ act'[l].esp = Len(ustack)
      /\ \A m \in Levels : m # l => act'[m] = act[m]
  <2>1. "reserve" \in Places /\ Len(ustack) \in Nat
    BY StackTyped DEF Places, Good
  <2> QED
    BY <1>2, <2>1 DEF Good, TypeOK, Acts
<1>4. \A m \in Levels : Built(m)' = Built(m)
  BY <1>1, <1>3 DEF Built
<1>5. Base' = Base
  BY <1>2, <1>4 DEF Base, Levels
<1>6. ASSUME NEW m \in Levels PROVE Stage(m)'
  <2>1. Stage(m)
    BY DEF Good, StackInv
  <2>2. CASE m = l
    BY <1>1, <1>2, <1>3, <1>5, <2>1, <2>2 DEF Stage, Loop
  <2>3. CASE m # l
    BY <1>2, <1>3, <1>5, <2>1, <2>3 DEF Stage
  <2> QED
    BY <2>2, <2>3
<1>7. Exclusive'
  <2>1. CASE l = "interrupt"
    BY <1>3, <1>4, <2>1 DEF Good, StackInv, Exclusive, Pushing, Levels
  <2>2. CASE l = "syscall"
    <3>1. act["interrupt"] = Idle
      BY <2>2, AtIsActive DEF LoadEsp, Places
    <3> QED
      BY <1>4, <3>1 DEF Exclusive, Built, Idle, Levels
  <2> QED
    BY <2>1, <2>2 DEF Levels
<1>8. Safe'
  <2> SUFFICES ASSUME NEW i \in Sigs, owed[i] = "yes", Remembered(i) PROVE Remembered(i)'
    BY <1>2 DEF Good, Safe
  <2> QED
    BY <1>2, <1>3 DEF Remembered
<1>9. TypeOK' /\ InCall'
  BY <1>1, <1>2, <1>3 DEF Good, TypeOK, InCall, Levels
<1> QED
  BY <1>2, <1>5, <1>6, <1>7, <1>8, <1>9 DEF Good, StackInv

\* A step that writes the next word of a frame, or makes room for it.
LEMMA BuildStep ==
    ASSUME Good, NEW l \in Levels, Stage(l)', Safe', ~Pushing("syscall") \/ l = "syscall",
           \A m \in Levels : m # l => Quiet(act[m]) /\ act'[m] = act[m],
           l = "syscall" => mode = "return", mode' = mode,
           act' \in [Levels -> Acts], ustack' \in Seq(Words), UNCHANGED <<pending, owed, eip>>,
           Base' = Base, \A n \in 1 .. Base : ustack'[n] = ustack[n], Base <= Len(ustack')
    PROVE  Good'
<1>1. ASSUME NEW m \in Levels PROVE Stage(m)'
  <2>1. CASE m # l
    BY <2>1 DEF Stage, Quiet, Loop
  <2> QED
    BY <2>1
<1>2. Shape(ustack, Base, eip) /\ Base \in Nat /\ Len(ustack') \in Nat
  BY LenProperties, StackTyped DEF Good, StackInv, Shape
<1>3. Shape(ustack', Base, eip)
  BY <1>2, ShapeLocal
<1>4. Exclusive'
  <2>1. CASE l = "syscall"
    BY <2>1 DEF Exclusive, Quiet, Built, Loop, Levels
  <2>2. CASE l = "interrupt"
    BY <2>2 DEF Exclusive, Pushing, Levels
  <2> QED
    BY <2>1, <2>2 DEF Levels
<1>5. TypeOK' /\ InCall'
  BY DEF Good, TypeOK, InCall, Levels
<1> QED
  BY <1>1, <1>3, <1>4, <1>5 DEF Good, StackInv

\* The last n words of a stack of L words, n at least 1 or 2, are on it.
LEMMA WordsOnTop ==
    ASSUME NEW L \in Nat, NEW n \in Nat, NEW B \in Nat, B = L - n
    PROVE  /\ n >= 1 => B + 1 \in 1 .. L
           /\ n >= 2 => B + 2 \in 1 .. L
  OBVIOUS

\* tf->esp -= 4 is stored.
LEMMA StoreEspGood ==
    ASSUME Good, NEW l \in Levels, StoreEsp(l), ~torn'
    PROVE  Good'
<1>1. act[l].at = "reserve" /\ (l = "syscall" => mode = "return")
  BY AtIsActive DEF StoreEsp, Levels, Places
<1>2. Stage(l) /\ act[l].esp = Len(ustack) /\ act[l].pushed \in 0 .. 2
  BY <1>1, StackTyped DEF Good, StackInv, Stage
<1>3. UNCHANGED <<mode, pending, owed, eip>> /\ ustack' = Append(ustack, Unwritten)
  <2>1. SubSeq(ustack, 1, Len(ustack)) = ustack
    BY SubSeqFull DEF Good, TypeOK
  <2> QED
    BY <1>2, <2>1 DEF StoreEsp, sigVars
<1>4. /\ \A m \in Levels : m # l => Quiet(act[m]) /\ Built(m) = 0
      /\ Base = Len(ustack) - Built(l)
      /\ \A m \in Levels \ {l} : ~Pushing(m)
  BY OtherIsQuiet DEF StoreEsp, Places
<1>5. /\ act' \in [Levels -> Acts]
      /\ act'[l].at = "store" /\ act'[l].sig = act[l].sig /\ act'[l].pushed = act[l].pushed
      /\ act'[l].esp = act[l].esp
      /\ \A m \in Levels : m # l => act'[m] = act[m]
  BY BecomesTyped DEF StoreEsp, Good, Places
<1>6. /\ ustack' \in Seq(Words) /\ Len(ustack) \in Nat /\ Len(ustack') = Len(ustack) + 1
      /\ ustack'[Len(ustack')] = Unwritten
      /\ \A n \in 1 .. Len(ustack) : ustack'[n] = ustack[n]
  BY <1>3 DEF Good, TypeOK, Words
<1>7. Built(l) = act[l].pushed /\ Built(l)' = act[l].pushed + 1
  BY <1>1, <1>5, StackTyped DEF Built, Good
<1>8. Base' = Base /\ Base \in 0 .. Len(ustack)
  <2>1. \A m \in Levels : m # l => Built(m)' = 0
    BY <1>4, <1>5 DEF Built
  <2>2. Base' = Len(ustack') - Built(l)'
    BY <1>6, <1>7, <1>2, <2>1 DEF Base, Levels
  <2> QED
    BY <1>2, <1>4, <1>6, <1>7, <2>2 DEF Good, StackInv, Shape
<1>9. Stage(l)'
  <2>1. /\ act[l].pushed >= 1 => ustack'[Base + 1] = eip
        /\ act[l].pushed >= 2 => ustack'[Base + 2] = Arg(act[l].sig)
    <3>1. /\ act[l].pushed >= 1 => ustack[Base + 1] = eip
          /\ act[l].pushed >= 2 => ustack[Base + 2] = Arg(act[l].sig)
      BY <1>2 DEF Stage
    <3>2. /\ act[l].pushed >= 1 => Base + 1 \in 1 .. Len(ustack)
          /\ act[l].pushed >= 2 => Base + 2 \in 1 .. Len(ustack)
      <4>1. Base = Len(ustack) - act[l].pushed /\ Base \in Nat
        BY <1>4, <1>7, <1>8
      <4>2. act[l].pushed \in Nat /\ Len(ustack) \in Nat
        BY <1>2, <1>6
      <4> QED
        BY Zenon, <4>1, <4>2, WordsOnTop
    <3> QED
      BY <1>6, <3>1, <3>2
  <2>2. act[l].esp + 1 = Len(ustack')
    BY <1>2, <1>6
  <2>3. /\ act'[l].pushed >= 1 => ustack'[Base'+ 1] = eip'
        /\ act'[l].pushed >= 2 => ustack'[Base' + 2] = Arg(act'[l].sig)
        /\ act'[l].pushed \in 0 .. 2
    BY <1>2, <1>3, <1>5, <1>8, <2>1
  <2> QED
    BY <1>5, <1>6, <2>2, <2>3 DEF Stage, Loop
<1>10. Safe'
  <2> SUFFICES ASSUME NEW i \in Sigs, owed[i] = "yes", Remembered(i) PROVE Remembered(i)'
    BY <1>3 DEF Good, Safe
  <2>1. DOMAIN ustack = 1 .. Len(ustack) /\ DOMAIN ustack' = 1 .. Len(ustack')
    BY <1>6, LenProperties, StackTyped DEF Good
  <2> QED
    BY <1>3, <1>5, <1>6, <2>1 DEF Remembered
<1>11. ~Pushing("syscall") \/ l = "syscall"
  BY <1>4 DEF Levels
<1> QED
  BY <1>1, <1>3, <1>4, <1>5, <1>6, <1>8, <1>9, <1>10, <1>11, BuildStep

\* A word of the frame is stored.
LEMMA StoreWordGood ==
    ASSUME Good, NEW l \in Levels, StoreWord(l)
    PROVE  Good'
<1> DEFINE k == act[l].pushed
           w == Frame(l)[k + 1]
<1>1. act[l].at = "store" /\ (l = "syscall" => mode = "return")
  BY AtIsActive DEF StoreWord, Levels, Places
<1>2. /\ Stage(l) /\ k \in 0 .. 2 /\ Len(ustack) \in Nat
      /\ act[l].esp + 1 = Len(ustack) /\ ustack[Len(ustack)] = Unwritten
  BY <1>1, StackTyped DEF Good, StackInv, Stage
<1>3. /\ UNCHANGED <<mode, pending, owed, eip>>
      /\ ustack' = [ustack EXCEPT ![Len(ustack)] = w]
      /\ act' = [act EXCEPT ![l].at = IF k = 2 THEN "divert" ELSE "load", ![l].pushed = k + 1]
  BY <1>2 DEF StoreWord, sigVars
<1>4. Built(l) = k + 1
  BY <1>1 DEF Built
<1>5. /\ \A m \in Levels : m # l => Quiet(act[m]) /\ Built(m) = 0
      /\ Base = Len(ustack) - (k + 1)
  BY <1>2, <1>4, OtherIsQuiet DEF StoreWord, Places
<1>6. /\ act' \in [Levels -> Acts]
      /\ act'[l].at = (IF k = 2 THEN "divert" ELSE "load") /\ act'[l].sig = act[l].sig
      /\ act'[l].pushed = k + 1
      /\ \A m \in Levels : m # l => act'[m] = act[m]
  <2>1. "divert" \in Places /\ "load" \in Places /\ k + 1 \in 0 .. 3
    BY <1>2 DEF Places
  <2> QED
    BY <1>3, <2>1 DEF Good, TypeOK, Acts
<1>7. w \in Words /\ (k = 0 => w = eip) /\ (k = 1 => w = Arg(act[l].sig)) /\ (k = 2 => w = SigRet)
  <2>1. eip \in Words /\ Arg(act[l].sig) \in Words /\ SigRet \in Words
    BY StackTyped, SigsAreNumbers DEF Good, TypeOK, Words, Codes, ArgWords
  <2> QED
    BY <1>2, <2>1 DEF Frame
<1> HIDE DEF w
<1>8. 1 <= Len(ustack) /\ Base \in 0 .. Len(ustack)
  BY <1>2, <1>5 DEF Good, StackInv, Shape
<1>9. /\ ustack' \in Seq(Words) /\ Len(ustack') = Len(ustack)
      /\ ustack'[Len(ustack)] = w
      /\ \A n \in 1 .. Len(ustack) - 1 : ustack'[n] = ustack[n]
  BY <1>2, <1>3, <1>7, <1>8, ExceptSeq DEF Good, TypeOK
<1>10. Base' = Base
  <2>1. \A m \in Levels : m # l => Built(m)' = 0
    BY <1>5, <1>6 DEF Built
  <2>2. Built(l)' = k + 1
    BY <1>2, <1>6 DEF Built
  <2> QED
    BY <1>2, <1>5, <1>9, <2>1, <2>2 DEF Base, Levels
<1>11. Stage(l)'
  <2>1. /\ k >= 1 => ustack[Base + 1] = eip
        /\ k >= 2 => ustack[Base + 2] = Arg(act[l].sig)
    BY <1>2 DEF Stage
  <2>2. /\ ustack'[Base + 1] = eip
        /\ k >= 1 => ustack'[Base + 2] = Arg(act[l].sig)
        /\ k >= 2 => ustack'[Base + 3] = SigRet
    <3>1. CASE k = 0
      BY <1>2, <1>5, <1>7, <1>9, <3>1
    <3>2. CASE k = 1
      BY <1>2, <1>5, <1>7, <1>8, <1>9, <2>1, <3>2
    <3>3. CASE k = 2
      <4>1. Base + 1 \in 1 .. Len(ustack) - 1 /\ Base + 2 \in 1 .. Len(ustack) - 1 /\ Base + 3 = Len(ustack)
        BY <1>2, <1>5, <1>8, <3>3
      <4> QED
        BY <1>7, <1>9, <2>1, <3>3, <4>1
    <3> QED
      BY <1>2, <3>1, <3>2, <3>3
  <2> QED
    BY <1>2, <1>3, <1>6, <1>10, <2>2 DEF Stage, Loop
<1>12. Safe'
  <2> SUFFICES ASSUME NEW i \in Sigs, owed[i] = "yes", Remembered(i) PROVE Remembered(i)'
    BY <1>3 DEF Good, Safe
  <2>1. DOMAIN ustack = 1 .. Len(ustack) /\ DOMAIN ustack' = 1 .. Len(ustack)
    BY <1>9, LenProperties, StackTyped DEF Good
  <2>2. ustack[Len(ustack)] # Handler(i)
    BY <1>2, WordsDiffer
  <2>3. \A n \in DOMAIN ustack : ustack[n] = Handler(i) => ustack'[n] = Handler(i)
    BY <1>2, <1>9, <2>1, <2>2
  <2>4. CASE \E m \in Levels : act[m].sig = i /\ act[m].at \notin {"none", "test"}
    BY <1>6, <2>4 DEF Remembered
  <2> QED
    BY <1>3, <2>1, <2>3, <2>4 DEF Remembered
<1>13. ~Pushing("syscall") \/ l = "syscall"
  <2>1. Levels = {"syscall", "interrupt"}
    BY DEF Levels
  <2> QED
    BY <1>5, <2>1 DEF Pushing, Quiet, Loop
<1>14. \A n \in 1 .. Base : ustack'[n] = ustack[n]
  BY <1>2, <1>5, <1>9
<1> QED
  BY <1>1, <1>3, <1>5, <1>6, <1>8, <1>9, <1>10, <1>11, <1>12, <1>13, <1>14, BuildStep

\* tf->eip is set to the handler, above a complete frame.
LEMMA DivertGood ==
    ASSUME Good, NEW l \in Levels, Divert(l)
    PROVE  Good'
<1> DEFINE b == Base
           h == Handler(act[l].sig)
<1>1. act[l].at = "divert" /\ (l = "syscall" => mode = "return")
  BY AtIsActive DEF Divert, Levels, Places
<1>2. Stage(l) /\ act[l].pushed = 3 /\ Len(ustack) \in Nat /\ act[l].sig \in Sigs
  BY <1>1, StackTyped DEF Good, StackInv, Stage
<1>3. UNCHANGED <<mode, pending, owed, ustack>> /\ eip' = h
  BY DEF Divert, sigVars
<1>4. Built(l) = 3
  BY <1>1, <1>2 DEF Built
<1>5. /\ \A m \in Levels : m # l => Quiet(act[m])
      /\ Len(ustack) = b + 3 /\ b \in Nat
  BY <1>2, <1>4, OtherIsQuiet DEF Divert, Places, Good, StackInv, Shape
<1>6. /\ act' \in [Levels -> Acts] /\ \A m \in Levels : Quiet(act'[m])
      /\ \A m \in Levels : m # l => act'[m] = act[m]
  BY <1>5, AdvanceTyped DEF Divert, Good
<1>7. /\ ustack[b + 1] = eip /\ ustack[b + 2] = Arg(act[l].sig) /\ ustack[b + 3] = SigRet
      /\ Shape(ustack, b, eip)
  BY <1>2 DEF Stage, Good, StackInv
<1> HIDE DEF b
<1>8. Arg(act[l].sig) \in ArgWords /\ h \in HandlerWords
  BY <1>2, SigsAreNumbers DEF ArgWords, HandlerWords
<1>9. Shape(ustack, b + 3, h)
  <2>1. Fits(ustack, Arg(act[l].sig), b + 2)
    BY <1>8, WordsDiffer, KindsDiffer DEF Fits, Codes
  <2>2. Fits(ustack, SigRet, b + 3)
    BY <1>5, <1>7, <1>8, WordsDiffer, KindsDiffer DEF Fits, Shape, HandlerWords
  <2>3. Fits(ustack, h, b + 4)
    BY <1>5, <1>7, <1>8, WordsDiffer DEF Fits
  <2>4. ASSUME NEW n \in 1 .. b + 3 PROVE Fits(ustack, ustack[n], n)
    <3>1. n \in 1 .. b \/ n = b + 1 \/ n = b + 2 \/ n = b + 3
      BY <1>5
    <3> QED
      BY <1>7, <2>1, <2>2, <3>1 DEF Shape
  <2>5. h \in Codes
    BY <1>8 DEF Codes
  <2> QED
    BY <1>5, <2>3, <2>4, <2>5 DEF Shape
<1>10. StackInv'
  BY <1>2, <1>3, <1>5, <1>6, <1>9, QuietStack
<1>11. Safe'
  <2> SUFFICES ASSUME NEW i \in Sigs, owed[i] = "yes", Remembered(i) PROVE Remembered(i)'
    BY <1>3 DEF Good, Safe
  <2>1. CASE i = act[l].sig
    BY <1>3, <2>1 DEF Remembered
  <2>2. CASE eip = Handler(i)
    <3>1. b + 1 \in DOMAIN ustack
      BY <1>5, StackTyped DEF Good
    <3> QED
      BY <1>3, <1>7, <2>2, <3>1 DEF Remembered
  <2>3. CASE i # act[l].sig /\ eip # Handler(i)
    BY <1>3, <1>6, <2>3 DEF Remembered
  <2> QED
    BY <2>1, <2>2, <2>3
<1>12. TypeOK' /\ InCall'
  BY <1>1, <1>3, <1>6, <1>8 DEF Good, TypeOK, InCall, Words, Codes, Levels
<1> QED
  BY <1>10, <1>11, <1>12 DEF Good

-----------------------------------------------------------------------------
(* Other CPUs, system calls and user mode *)

\* A step that leaves the stack and the activations alone and, of pending and
\* owed, only sets one.
LEMMA SentGood ==
    ASSUME Good, UNCHANGED <<eip, ustack, act, mode>>, NEW j \in Sigs, NEW o \in {"no", "yes", "dropped"},
           \/ pending' = [pending EXCEPT ![j] = TRUE] /\ owed' = [owed EXCEPT ![j] = o]
           \/ UNCHANGED <<pending, owed>>
    PROVE  Good'
<1>1. StackInv'
  BY StackKept DEF Good, TypeOK
<1>2. TypeOK' /\ InCall'
  BY DEF Good, TypeOK, InCall
<1>3. Safe'
  <2> SUFFICES ASSUME NEW i \in Sigs, owed'[i] = "yes" PROVE Remembered(i)'
    BY DEF Safe
  <2>1. CASE i = j /\ pending' = [pending EXCEPT ![j] = TRUE]
    BY <2>1 DEF Remembered, Good, TypeOK
  <2>2. CASE i # j \/ UNCHANGED <<pending, owed>>
    <3>1. owed[i] = "yes" /\ pending'[i] = pending[i]
      BY <2>2 DEF Good, TypeOK
    <3>2. Remembered(i)
      BY <3>1 DEF Good, Safe
    <3> QED
      BY <3>1, <3>2 DEF Remembered
  <2> QED
    BY <2>1, <2>2
<1> QED
  BY <1>1, <1>2, <1>3 DEF Good

\* sigsend().
LEMMA SigsendGood == ASSUME Good, NEW i \in Sigs, Sigsend(i) PROVE Good'
<1>1. /\ UNCHANGED <<eip, ustack, act, mode>>
      /\ pending' = [pending EXCEPT ![i] = TRUE] /\ owed' = [owed EXCEPT ![i] = "yes"]
  BY DEF Sigsend, userVars
<1> QED
  BY <1>1, SentGood

\* Alarm().
LEMMA AlarmGood == ASSUME Good, AlarmReads \/ AlarmWrites PROVE Good'
<1>1. CASE AlarmReads
  <2>1. UNCHANGED <<eip, ustack, act, mode, pending, owed>>
    BY <1>1 DEF AlarmReads, sigVars, userVars
  <2> QED
    BY <2>1, SentGood, SigsAreNumbers
<1>2. CASE AlarmWrites
  <2>1. /\ UNCHANGED <<eip, ustack, act, mode>>
        /\ pending' = [pending EXCEPT ![SIGALRM] = pending[SIGALRM] \/ timer = 1]
        /\ owed' = [owed EXCEPT ![SIGALRM] = IF timer = 1 THEN "yes" ELSE owed[SIGALRM]]
    BY <1>2 DEF AlarmWrites, userVars
  <2>2. CASE timer = 1
    <3>1. pending' = [pending EXCEPT ![SIGALRM] = TRUE] /\ owed' = [owed EXCEPT ![SIGALRM] = "yes"]
      BY <2>1, <2>2
    <3> QED
      BY <2>1, <3>1, SentGood, SigsAreNumbers
  <2>3. CASE timer # 1
    <3>1. UNCHANGED <<pending, owed>>
      BY Zenon, <2>1, <2>3, SigsAreNumbers DEF Good, TypeOK
    <3> QED
      BY <2>1, <3>1, SentGood, SigsAreNumbers
  <2> QED
    BY <2>2, <2>3
<1> QED
  BY <1>1, <1>2

\* An activation starts where none was.
LEMMA StartGood ==
    ASSUME Good, NEW l \in Levels, act[l] = Idle, act' = [act EXCEPT ![l] = Started],
           UNCHANGED <<pending, owed, eip, ustack>>,
           mode' = "return" \/ (l = "interrupt" /\ mode' = mode)
    PROVE  Good'
<1>1. /\ act' \in [Levels -> Acts] /\ act'[l] = Started
      /\ \A m \in Levels : m # l => act'[m] = act[m]
  BY ActTyped DEF Good, TypeOK
<1>2. Quiet(Idle) /\ Quiet(Started) /\ Idle.at = "none"
  BY DEF Idle, Started, Quiet, Loop
<1>3. StackInv'
  BY <1>1, <1>2, StackKept
<1>4. TypeOK' /\ InCall'
  BY <1>1 DEF Good, TypeOK, InCall, Levels
<1>5. Safe'
  <2> SUFFICES ASSUME NEW i \in Sigs, owed[i] = "yes", Remembered(i) PROVE Remembered(i)'
    BY DEF Good, Safe
  <2> QED
    BY <1>1, <1>2 DEF Remembered
<1> QED
  BY <1>3, <1>4, <1>5 DEF Good

\* An interrupt.
LEMMA InterruptGood == ASSUME Good, Interrupt PROVE Good'
  BY StartGood DEF Interrupt, sigVars, userVars, Levels

\* The end of a system call.
LEMMA CompletesGood ==
    ASSUME Good, NEW name, NEW from \in {"syscall", "asleep"}, Completes(name, from)
    PROVE  Good'
<1>1. act["syscall"] = Idle /\ "syscall" \in Levels
  BY DEF Completes, Good, InCall, Levels
<1>2. /\ act' = [act EXCEPT !["syscall"] = Started] /\ mode' = "return"
      /\ UNCHANGED <<pending, owed, eip, ustack>>
  BY DEF Completes, userVars
<1> QED
  BY <1>1, <1>2, StartGood

\* Steps of the system call that only change its mode.
LEMMA ModeGood == ASSUME Good, Sleep \/ ToUser PROVE Good'
<1>1. UNCHANGED <<eip, ustack, act, pending, owed>>
  BY DEF Sleep, ToUser, sigVars, userVars
<1>2. InCall'
  BY DEF Sleep, ToUser, Good, InCall, Levels
<1>3. StackInv'
  BY <1>1, StackKept DEF Good, TypeOK
<1>4. TypeOK' /\ Safe'
  BY <1>1 DEF Good, TypeOK, Safe, Remembered
<1> QED
  BY <1>2, <1>3, <1>4 DEF Good

\* In user mode nobody builds a frame.
LEMMA UserIsQuiet ==
    ASSUME Good, InUser
    PROVE  /\ \A l \in Levels : act[l] = Idle /\ Quiet(act[l])
           /\ Shape(ustack, Len(ustack), eip) /\ Len(ustack) \in Nat
<1>1. \A l \in Levels : act[l] = Idle
  BY DEF Good, InCall, InUser, Levels
<1>2. Quiet(Idle)
  BY DEF Idle, Quiet, Loop
<1> QED
  BY <1>1, <1>2, ShapeIfQuiet, StackTyped DEF Good

\* A step of user mode, to a stack of the right shape.
LEMMA UserGood ==
    ASSUME Good, InUser, NEW s \in Seq(Words), NEW w, Shape(s, Len(s), w),
           ustack' = s, eip' = w, UNCHANGED <<act, pending>>, mode' \in {"user", "syscall"},
           owed' \in [Sigs -> {"no", "yes", "dropped"}], Safe'
    PROVE  Good'
<1>1. Len(s) \in Nat /\ act' \in [Levels -> Acts] /\ w \in Words
  BY LenProperties DEF Good, TypeOK, Shape, Words
<1>2. StackInv'
  BY <1>1, UserIsQuiet, QuietStack
<1>3. TypeOK' /\ InCall'
  BY <1>1, UserIsQuiet DEF Good, TypeOK, InCall, Levels
<1> QED
  BY <1>2, <1>3 DEF Good

\* A call: its arguments, at most two of them, and the address it returns to.
LEMMA EnterGood ==
    ASSUME Good, NEW name, NEW args \in Seq(ArgWords), Len(args) \in 0 .. 2, Enter(name, args)
    PROVE  Good'
<1> DEFINE k == Len(args)
           s == Append(args, Back(k))
<1>1. Shape(ustack, Len(ustack), Main) /\ Len(ustack) \in Nat
  BY UserIsQuiet DEF Enter
<1>2. ustack = <<>>
  <2>1. Len(ustack) = 0
    BY <1>1 DEF Shape, Fits
  <2> QED
    BY <2>1, EmptySeq DEF Good, TypeOK
<1>3. args \in Seq(Words) /\ Back(k) \in Words /\ Back(k) \in Backs
  <2>1. ArgWords \subseteq Words
    BY DEF Words
  <2> QED
    BY <2>1, SeqMonotonic DEF Words, Codes, Backs
<1>4. ustack' = s
  <2>1. <<>> \o args = args
    BY <1>3, ConcatEmptySeq
  <2> QED
    BY <1>2, <2>1 DEF Enter
<1>5. /\ s \in Seq(Words) /\ Len(s) = k + 1 /\ s[k + 1] = Back(k)
      /\ \A n \in 1 .. k : s[n] \in ArgWords
  BY <1>3
<1>6. Shape(s, Len(s), Stub)
  <2>1. Fits(s, Back(k), k + 1)
    <3>1. \A m \in 0 .. 2 : Back(k) = Back(m) => m = k
      BY WordsDiffer
    <3> QED
      BY <1>3, <1>5, <3>1, WordsDiffer, KindsDiffer DEF Fits
  <2>2. ASSUME NEW n \in 1 .. k PROVE Fits(s, s[n], n)
    <3>1. s[n] \in ArgWords
      BY <1>5
    <3>2. s[n] \notin {Main, Stub, SigRet} \cup Backs \cup HandlerWords
      BY <3>1, KindsDiffer DEF Codes
    <3> QED
      BY <3>2 DEF Fits, Backs
  <2>3. Fits(s, Stub, k + 2)
    BY <1>3, <1>5, WordsDiffer, KindsDiffer DEF Fits
  <2>4. \A n \in 1 .. k + 1 : Fits(s, s[n], n)
    BY <1>5, <2>1, <2>2
  <2>5. Stub \in Codes
    BY DEF Codes
  <2> QED
    BY <1>5, <2>3, <2>4, <2>5 DEF Shape
<1> HIDE DEF s
<1>7. UNCHANGED <<act, pending, owed>> /\ mode' = "syscall" /\ eip' = Stub /\ eip = Main /\ InUser
  BY DEF Enter, sigVars
<1>8. Safe'
  <2> SUFFICES ASSUME NEW i \in Sigs, owed[i] = "yes", Remembered(i) PROVE Remembered(i)'
    BY <1>7 DEF Good, Safe
  <2>1. DOMAIN ustack = {}
    BY <1>2
  <2>2. eip # Handler(i)
    BY <1>7, WordsDiffer
  <2> QED
    BY <1>7, <2>1, <2>2 DEF Remembered
<1> QED
  BY <1>4, <1>5, <1>6, <1>7, <1>8, UserGood DEF Good, TypeOK

\* The three calls.
LEMMA CallsGood ==
    ASSUME Good,
           \/ \E n \in 0 .. MaxTicks : CallAlarm(n)
           \/ \E i \in Sigs, h \in Handlers : CallSignal(i, h)
           \/ CallWait
    PROVE  Good'
<1>1. ASSUME NEW n \in 0 .. MaxTicks, CallAlarm(n) PROVE Good'
  <2>1. Arg(n) \in ArgWords
    BY SignalsAssumption DEF ArgWords, SignalsAssumption
  <2>2. <<Arg(n)>> \in Seq(ArgWords) /\ Len(<<Arg(n)>>) \in 0 .. 2
    BY <2>1
  <2> QED
    BY Zenon, <1>1, <2>2, EnterGood DEF CallAlarm
<1>2. ASSUME NEW i \in Sigs, NEW h \in Handlers, CallSignal(i, h) PROVE Good'
  <2>1. Arg(i) \in ArgWords /\ Arg(Address(h)) \in ArgWords
    BY SigsAreNumbers DEF ArgWords, Address
  <2>2. <<Arg(Address(h)), Arg(i)>> \in Seq(ArgWords) /\ Len(<<Arg(Address(h)), Arg(i)>>) \in 0 .. 2
    BY <2>1
  <2> QED
    BY Zenon, <1>2, <2>2, EnterGood DEF CallSignal
<1>3. CASE CallWait
  <2>1. <<>> \in Seq(ArgWords) /\ Len(<<>>) \in 0 .. 2
    BY EmptySeq
  <2> QED
    BY Zenon, <1>3, <2>1, EnterGood DEF CallWait
<1> QED
  BY <1>1, <1>2, <1>3

\* Popping n words, none of them a handler, and returning to a code address.
LEMMA ReturnGood ==
    ASSUME Good, InUser, NEW n \in Nat, Return(n),
           ustack[Len(ustack) - n] \in Codes,
           \A m \in Len(ustack) - n + 1 .. Len(ustack) : ustack[m] \notin HandlerWords,
           owed' \in [Sigs -> {"no", "yes", "dropped"}],
           \A i \in Sigs : owed'[i] = "yes" => owed[i] = "yes" /\ eip # Handler(i)
    PROVE  Good'
<1> DEFINE b == Len(ustack) - n
           s == SubSeq(ustack, 1, b - 1)
<1>1. /\ Shape(ustack, Len(ustack), eip) /\ Len(ustack) \in Nat /\ b \in 1 .. Len(ustack)
      /\ DOMAIN ustack = 1 .. Len(ustack)
  <2>1. Shape(ustack, Len(ustack), eip) /\ Len(ustack) \in Nat /\ DOMAIN ustack = 1 .. Len(ustack)
    BY Zenon, UserIsQuiet, StackTyped DEF Good
  <2>2. Len(ustack) > n
    BY Zenon DEF Return
  <2>3. b \in 1 .. Len(ustack)
    BY <2>1, <2>2
  <2> QED
    BY Zenon, <2>1, <2>3
<1>2. eip' = ustack[b] /\ ustack' = s /\ UNCHANGED <<mode, pending, act>>
  BY <1>1 DEF Return
<1>3. s \in Seq(Words) /\ Len(s) = b - 1 /\ \A m \in 1 .. b - 1 : s[m] = ustack[m]
  <2>1. ustack \in Seq(Words) /\ b - 1 \in 0 .. Len(ustack)
    BY <1>1 DEF Good, TypeOK
  <2> HIDE DEF b
  <2> QED
    BY <1>1, <2>1, SMTT(30)
<1>n. b - 1 \in Nat /\ ustack[b] \in Codes
  BY <1>1
<1> HIDE DEF s, b
<1>4. Shape(s, Len(s), ustack[b])
  <2>1. Shape(ustack, b - 1, ustack[b])
    BY <1>1, <1>n, ShapePopped
  <2> QED
    BY <1>3, <1>n, <2>1, ShapeLocal
<1>5. Safe'
  <2> SUFFICES ASSUME NEW i \in Sigs, owed[i] = "yes", eip # Handler(i) PROVE Remembered(i)'
    BY DEF Safe
  <2>1. Remembered(i)
    BY DEF Good, Safe
  <2>2. ASSUME NEW m \in DOMAIN ustack, ustack[m] = Handler(i) PROVE Remembered(i)'
    <3>1. m \in 1 .. b
      <4>1. Handler(i) \in HandlerWords
        BY KindsDiffer
      <4> QED
        BY <1>1, <2>2, <4>1 DEF b
    <3>2. CASE m = b
      BY <1>2, <2>2, <3>2 DEF Remembered
    <3>3. CASE m # b
      <4>1. m \in 1 .. b - 1
        BY <1>1, <3>1, <3>3
      <4>2. DOMAIN s = 1 .. b - 1
        BY <1>3, LenProperties
      <4> QED
        BY <1>2, <1>3, <2>2, <4>1, <4>2 DEF Remembered
    <3> QED
      BY <3>2, <3>3
  <2> QED
    BY <1>2, <2>1, <2>2 DEF Remembered
<1> QED
  BY <1>2, <1>3, <1>4, <1>5, UserGood DEF InUser

\* A handler, sigretimplicit and the stub return, and the program goes on.
LEMMA UserStepGood == ASSUME Good, UserStep PROVE Good'
<1>1. InUser
  BY DEF UserStep, HandlerRuns, SigRetImplicit, StubReturns, CallerPops
<1>2. Shape(ustack, Len(ustack), eip) /\ Len(ustack) \in Nat
  BY <1>1, UserIsQuiet
<1>3. Fits(ustack, eip, Len(ustack) + 1) /\ SigRet \in Codes /\ Backs \subseteq Codes
  BY <1>2 DEF Shape, Codes
<1>4. ASSUME NEW i \in Sigs, HandlerRuns(i) PROVE Good'
  <2>1. eip = Handler(i) /\ Return(0) /\ owed' = [owed EXCEPT ![i] = "no"]
    BY <1>4 DEF HandlerRuns
  <2>2. ustack[Len(ustack) - 0] \in Codes
    BY <1>2, <1>3, <2>1, KindsDiffer DEF Fits
  <2>3. \A j \in Sigs : owed'[j] = "yes" => owed[j] = "yes" /\ eip # Handler(j)
    BY <2>1, WordsDiffer DEF Good, TypeOK
  <2>4. owed' \in [Sigs -> {"no", "yes", "dropped"}]
    BY <2>1 DEF Good, TypeOK
  <2>5. \A m \in Len(ustack) - 0 + 1 .. Len(ustack) : ustack[m] \notin HandlerWords
    BY <1>2
  <2> QED
    BY <1>1, <2>1, <2>2, <2>3, <2>4, <2>5, ReturnGood
<1>5. CASE SigRetImplicit
  <2>1. eip = SigRet /\ Return(1) /\ UNCHANGED owed
    BY <1>5 DEF SigRetImplicit
  <2>2. ustack[Len(ustack) - 1] \in Codes /\ ustack[Len(ustack)] \in ArgWords
    BY <1>2, <1>3, <2>1 DEF Fits
  <2>3. \A m \in Len(ustack) - 1 + 1 .. Len(ustack) : ustack[m] \notin HandlerWords
    BY <1>2, <2>2, KindsDiffer DEF Codes
  <2>4. \A i \in Sigs : eip # Handler(i)
    BY <2>1, WordsDiffer
  <2> QED
    BY <1>1, <2>1, <2>2, <2>3, <2>4, ReturnGood DEF Good, TypeOK
<1>6. CASE StubReturns
  <2>1. eip = Stub /\ Return(0) /\ UNCHANGED owed
    BY <1>6 DEF StubReturns
  <2>2. ustack[Len(ustack) - 0] \in Codes
    BY <1>2, <1>3, <2>1 DEF Fits
  <2>3. \A m \in Len(ustack) - 0 + 1 .. Len(ustack) : ustack[m] \notin HandlerWords
    BY <1>2
  <2>4. \A i \in Sigs : eip # Handler(i)
    BY <2>1, WordsDiffer
  <2> QED
    BY <1>1, <2>1, <2>2, <2>3, <2>4, ReturnGood DEF Good, TypeOK
<1>7. ASSUME NEW n \in 0 .. 2, CallerPops(n) PROVE Good'
  <2>1. /\ eip = Back(n) /\ eip' = Main /\ ustack' = SubSeq(ustack, 1, Len(ustack) - n)
        /\ UNCHANGED <<mode, act, pending, owed>>
    BY <1>7 DEF CallerPops, sigVars
  <2>2. Len(ustack) = n /\ \A m \in 1 .. n : ustack[m] \in ArgWords
    BY <1>2, <1>3, <2>1 DEF Fits
  <2>3. ustack' = <<>>
    BY <2>1, <2>2, SubSeqEmpty
  <2>4. <<>> \in Seq(Words) /\ Shape(<<>>, Len(<<>>), Main)
    <3>1. Len(<<>>) = 0 /\ <<>> \in Seq(Words) /\ Main \in Codes
      BY EmptySeq DEF Codes
    <3>2. Fits(<<>>, Main, 1)
      BY WordsDiffer, KindsDiffer DEF Fits
    <3> QED
      BY <3>1, <3>2 DEF Shape
  <2>5. Safe'
    <3> SUFFICES ASSUME NEW i \in Sigs, owed[i] = "yes", Remembered(i) PROVE Remembered(i)'
      BY <2>1 DEF Good, Safe
    <3>1. \A m \in DOMAIN ustack : ustack[m] # Handler(i)
      BY <2>2, StackTyped, KindsDiffer DEF Good, Codes
    <3>2. eip # Handler(i)
      BY <2>1, WordsDiffer
    <3> QED
      BY <2>1, <3>1, <3>2 DEF Remembered
  <2> QED
    BY <1>1, <2>1, <2>3, <2>4, <2>5, UserGood DEF Good, TypeOK, InUser
<1> QED
  BY <1>4, <1>5, <1>6, <1>7 DEF UserStep

-----------------------------------------------------------------------------
(* The theorems *)

\* Every step keeps Good, or an interrupt pushes inside pushHandlingSig().
LEMMA GoodStep == ASSUME Good, [Next]_vars, ~torn' PROVE Good'
<1>1. ASSUME NEW l \in Levels, HandlingSignal(l) PROVE Good'
  BY <1>1, TestGood, ClaimGood, DefaultSigHandlerGood, ClearAgainGood, ClearPendingGood,
     LoadEspGood, StoreEspGood, StoreWordGood, DivertGood
  DEF HandlingSignal
<1>2. ASSUME SysStep \/ Wakeup PROVE Good'
  BY <1>2, CompletesGood, ModeGood DEF SysStep, SysAlarm, SysSignal, SysWait, Wakeup
<1>3. ASSUME UNCHANGED vars PROVE Good'
  <2>1. UNCHANGED <<eip, ustack, act, mode, pending, owed>>
    BY <1>3 DEF vars, sigVars, userVars
  <2> QED
    BY <2>1, SentGood, SigsAreNumbers
<1> QED
  BY <1>1, <1>2, <1>3, SigsendGood, AlarmGood, InterruptGood, CallsGood, UserStepGood DEF Next

\* The history only ever becomes true.
LEMMA TornStep == ASSUME torn \in BOOLEAN, [Next]_vars PROVE torn' \in BOOLEAN /\ (torn => torn')
<1>1. \/ torn' = torn
      \/ \E l \in Levels : torn' = (torn \/ \E m \in Levels \ {l} : Pushing(m))
  BY DEF Next, vars, userVars, Sigsend, AlarmReads, AlarmWrites, HandlingSignal, Test, Claim,
         DefaultSigHandler, ClearAgain, ClearPending, LoadEsp, StoreEsp, StoreWord, Divert, Interrupt,
         CallAlarm, CallSignal, CallWait, Enter, SysStep, SysAlarm, SysSignal, SysWait, Sleep, ToUser,
         Wakeup, Completes, UserStep, HandlerRuns, SigRetImplicit, StubReturns, CallerPops, Return
<1> QED
  BY <1>1

\* The invariant for every number of signals.
THEOREM Invariance == Spec => []Inv
<1>1. Init => Inv
  <2> SUFFICES ASSUME Init PROVE Good
    BY DEF Inv, Init
  <2>1. /\ act \in [Levels -> Acts] /\ \A l \in Levels : act[l] = Idle
        /\ ustack = <<>> /\ eip = Main /\ mode = "user"
    BY ActTyped DEF Init
  <2>2. Len(<<>>) = 0 /\ <<>> \in Seq(Words) /\ Main \in Codes
    BY EmptySeq DEF Codes
  <2>3. TypeOK /\ InCall /\ Safe
    BY <2>1, <2>2 DEF Init, TypeOK, InCall, Safe, Words, Levels
  <2>4. \A l \in Levels : Built(l) = 0 /\ Stage(l)
    BY <2>1 DEF Built, Stage, Idle, Loop
  <2>5. Base = 0
    BY <2>1, <2>2, <2>4 DEF Base, Levels
  <2>6. Fits(<<>>, Main, 1)
    BY WordsDiffer, KindsDiffer DEF Fits
  <2>7. StackInv
    BY <2>1, <2>2, <2>4, <2>5, <2>6 DEF StackInv, Exclusive, Shape, Levels
  <2> QED
    BY <2>3, <2>7 DEF Good
<1>2. Inv /\ [Next]_vars => Inv'
  BY GoodStep, TornStep DEF Inv
<1> QED
  BY <1>1, <1>2, PTL DEF Spec

\* sigsend(), handling_signal(): for any number of signals, handlers and calls,
\* a signal that was sent is pending, being handled, or its handler is in the
\* trap frame or on the user stack, unless the second clearing dropped it or an
\* interrupt pushed a frame inside pushHandlingSig().
THEOREM SignalsAreNotLost == Spec => []NoSignalLost
<1>1. Inv => NoSignalLost
  BY DEF Inv, Good, Safe, Remembered, NoSignalLost
<1> QED
  BY <1>1, Invariance, PTL

\* pushHandlingSig(), sigretimplicit: however many handlers interrupted each
\* other, every return finds a code address and the program finds its stack as
\* it left it, unless an interrupt pushed a frame inside pushHandlingSig().
THEOREM FramesBalance == Spec => []StackBalanced
<1>1. Inv => StackBalanced
  <2> SUFFICES ASSUME Good, InUser
               PROVE  (eip = Main => ustack = <<>>) /\ eip[1] \notin {"arg", "unwritten"}
    BY DEF Inv, StackBalanced
  <2>1. Shape(ustack, Len(ustack), eip) /\ Len(ustack) \in Nat
    BY UserIsQuiet
  <2>2. ASSUME eip = Main PROVE ustack = <<>>
    <3>1. Len(ustack) = 0
      BY <2>1, <2>2 DEF Shape, Fits
    <3> QED
      BY <3>1, EmptySeq DEF Good, TypeOK
  <2>3. eip \in Codes
    BY <2>1 DEF Shape
  <2>4. eip[1] \in {"main", "stub", "sigretimplicit", "back", "handler"}
    BY <2>3 DEF Codes, Backs, HandlerWords, Main, Stub, SigRet, Back, Handler
  <2> QED
    BY <2>2, <2>4
<1> QED
  BY <1>1, Invariance, PTL
=============================================================================
