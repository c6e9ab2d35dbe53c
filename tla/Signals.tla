------------------------------ MODULE Signals ------------------------------
(* Signals and alarms of one process: sigsend() and Alarm() on other CPUs, *)
(* handling_signal() on the way out of every trap, the frames it pushes on *)
(* the user stack, and the handlers that run from them.                    *)
(*                                                                         *)
(* trapasm.S calls handling_signal() after system calls and after          *)
(* interrupts, also after an interrupt that arrived inside a system call.  *)
(* System calls enter through a trap gate and stay interruptible; all      *)
(* other vectors are interrupt gates, so at most two activations nest.     *)
(* handling_signal() and pushHandlingSig() hold no lock: every access they *)
(* make to p->pending, to the trap frame or to the user stack is a step,   *)
(* and tf->esp -= 4 is two, a load and a store.                            *)
EXTENDS Integers, Sequences

CONSTANTS
    NUMSIG,     \* signal numbers are 0 .. NUMSIG - 1
    SIGALRM,
    Handlers,   \* what the program installs, a subset of {"default", "user"}
    MaxTicks,   \* bound: largest argument of alarm()
    MaxStack    \* bound: nothing is sent or called while the user stack is longer

ASSUME SignalsAssumption ==
    /\ NUMSIG \in Nat \ {0} /\ SIGALRM \in 0 .. NUMSIG - 1
    /\ Handlers \subseteq {"default", "user"}
    /\ MaxTicks \in Nat /\ MaxStack \in Nat

VARIABLES
    mode,         \* "user", "syscall", "asleep" (in it) or "return" (from it)
    call,         \* the system call in progress
    pending,      \* p->pending
    sighandlers,  \* p->sighandlers
    alarm,        \* p->alarm_ticks_num
    timer,        \* Alarm() on CPU 0: the count it has read
    eip,          \* p->tf->eip, or the program counter in user mode
    ustack,       \* user stack, top last
    act,          \* the activations of handling_signal(): where it is, sigIdx,
                  \* the words it has pushed, and the %esp it has loaded
    torn,         \* history: an interrupt has pushed a frame inside the
                  \* pushHandlingSig() of the system call it interrupted
    owed          \* history: "yes" for a signal whose handler has not run since it
                  \* was sent, "dropped" when handling_signal() cleared it after
                  \* the default handler had run for an earlier one

sigVars == <<pending, sighandlers, owed>>
userVars == <<eip, ustack, torn>>
vars == <<mode, call, sigVars, alarm, timer, userVars, act>>

Sigs == 0 .. NUMSIG - 1
Levels == {"syscall", "interrupt"}

\* Words on the user stack and program counters: the program, the ret of a
\* stub of usys.S, the program where a call with n arguments returns to.
Main == <<"main">>
Stub == <<"stub">>
Back(n) == <<"back", n>>
Handler(i) == <<"handler", i>>
SigRet == <<"sigretimplicit">>
Arg(v) == <<"arg", v>>
Unwritten == <<"unwritten">>

Idle == [at |-> "none", sig |-> 0, pushed |-> 0, esp |-> 0]
Started == [Idle EXCEPT !.at = "test"]

-----------------------------------------------------------------------------
\* A program that has installed some handlers.
Init ==
    /\ mode = "user"
    /\ call = "none"
    /\ pending = [i \in Sigs |-> FALSE]
    /\ sighandlers \in [Sigs -> Handlers]
    /\ alarm = 0
    /\ timer = 0
    /\ eip = Main
    /\ ustack = <<>>
    /\ torn = FALSE
    /\ act = [l \in Levels |-> Idle]
    /\ owed = [i \in Sigs |-> "no"]

InUser == mode = "user" /\ act["interrupt"] = Idle

-----------------------------------------------------------------------------
(* Other CPUs *)

\* sigsend(), under ptable.lock.  A sleeping process is not woken.
Sigsend(i) ==
    /\ Len(ustack) <= MaxStack
    /\ pending' = [pending EXCEPT ![i] = TRUE]
    /\ owed' = [owed EXCEPT ![i] = "yes"]
    /\ UNCHANGED <<mode, call, sighandlers, alarm, timer, userVars, act>>

\* Alarm(): p->alarm_ticks_num is read and written under ptable.lock, which
\* sys_alarm() does not take.
AlarmReads ==
    /\ timer = 0 /\ alarm > 0
    /\ timer' = alarm
    /\ UNCHANGED <<mode, call, sigVars, alarm, userVars, act>>

AlarmWrites ==
    /\ timer > 0
    /\ alarm' = timer - 1
    /\ timer' = 0
    /\ pending' = [pending EXCEPT ![SIGALRM] = @ \/ timer = 1]
    /\ owed' = [owed EXCEPT ![SIGALRM] = IF timer = 1 THEN "yes" ELSE @]
    /\ UNCHANGED <<mode, call, sighandlers, userVars, act>>

-----------------------------------------------------------------------------
(* handling_signal() *)

At(l, a) ==
    /\ act[l].at = a
    /\ l = "syscall" => act["interrupt"] = Idle

Becomes(l, a) == act' = [act EXCEPT ![l].at = a]

\* Mutant: the loop runs one signal too short.
AdvanceTooShort(l) ==
    act' = [act EXCEPT ![l] =
                IF @.sig >= NUMSIG - 2 THEN Idle ELSE [Started EXCEPT !.sig = act[l].sig + 1]]

\* The next round of the loop, or its end.
Advance(l) ==
    act' = [act EXCEPT ![l] =
                IF @.sig = NUMSIG - 1 THEN Idle ELSE [Started EXCEPT !.sig = act[l].sig + 1]]

Test(l) ==
    /\ At(l, "test")
    /\ IF pending[act[l].sig] THEN Becomes(l, "claim") ELSE Advance(l)
    /\ UNCHANGED <<mode, call, sigVars, alarm, timer, userVars>>

\* Mutant: all of p->pending is cleared, not one bit of it.
ClaimAll(l) ==
    /\ At(l, "claim")
    /\ pending' = [i \in Sigs |-> FALSE]
    /\ Becomes(l, IF sighandlers[act[l].sig] = "default" THEN "print" ELSE "push")
    /\ UNCHANGED <<mode, call, sighandlers, owed, alarm, timer, userVars>>

Claim(l) ==
    /\ At(l, "claim")
    /\ pending' = [pending EXCEPT ![act[l].sig] = FALSE]
    /\ Becomes(l, IF sighandlers[act[l].sig] = "default" THEN "print" ELSE "push")
    /\ UNCHANGED <<mode, call, sighandlers, owed, alarm, timer, userVars>>

\* defaultSigHandler(): the signal has been acted on.
DefaultSigHandler(l) ==
    /\ At(l, "print")
    /\ owed' = [owed EXCEPT ![act[l].sig] = "no"]
    /\ Becomes(l, "clear")
    /\ UNCHANGED <<mode, call, pending, sighandlers, alarm, timer, userVars>>

\* pending is cleared again, also when the signal has come once more meanwhile.
ClearAgain(l) ==
    /\ At(l, "clear")
    /\ pending' = [pending EXCEPT ![act[l].sig] = FALSE]
    /\ owed' = [owed EXCEPT ![act[l].sig] = IF @ = "yes" THEN "dropped" ELSE @]
    /\ Advance(l)
    /\ UNCHANGED <<mode, call, sighandlers, alarm, timer, userVars>>

\* pushHandlingSig() clears pending again.
ClearPending(l) ==
    /\ At(l, "push")
    /\ pending' = [pending EXCEPT ![act[l].sig] = FALSE]
    /\ Becomes(l, "load")
    /\ UNCHANGED <<mode, call, sighandlers, owed, alarm, timer, userVars>>

\* It pushes three words, each by tf->esp -= 4 and a store.
Frame(l) == <<eip, Arg(act[l].sig), SigRet>>

\* pushHandlingSig() has begun to use the trap frame.
Pushing(l) ==
    \/ act[l].at \in {"reserve", "store", "divert"}
    \/ act[l].at = "load" /\ act[l].pushed > 0

LoadEsp(l) ==
    /\ At(l, "load")
    /\ act' = [act EXCEPT ![l].at = "reserve", ![l].esp = Len(ustack)]
    /\ UNCHANGED <<mode, call, sigVars, alarm, timer, userVars>>

\* What was pushed since the load is overrun.
StoreEsp(l) ==
    /\ At(l, "reserve")
    /\ ustack' = Append(SubSeq(ustack, 1, act[l].esp), Unwritten)
    /\ torn' = (torn \/ \E m \in Levels \ {l} : Pushing(m))
    /\ Becomes(l, "store")
    /\ UNCHANGED <<mode, call, sigVars, alarm, timer, eip>>

StoreWord(l) ==
    /\ At(l, "store")
    /\ ustack' = [ustack EXCEPT ![act[l].esp + 1] = Frame(l)[act[l].pushed + 1]]
    /\ act' = [act EXCEPT ![l].at = IF act[l].pushed = 2 THEN "divert" ELSE "load",
                          ![l].pushed = @ + 1]
    /\ UNCHANGED <<mode, call, sigVars, alarm, timer, eip, torn>>

\* The handler's address goes to tf->eip, whatever is there by now.
Divert(l) ==
    /\ At(l, "divert")
    /\ eip' = Handler(act[l].sig)
    /\ Advance(l)
    /\ UNCHANGED <<mode, call, sigVars, alarm, timer, ustack, torn>>

HandlingSignal(l) ==
    \/ Test(l) \/ Claim(l) \/ DefaultSigHandler(l) \/ ClearAgain(l)
    \/ ClearPending(l) \/ LoadEsp(l) \/ StoreEsp(l) \/ StoreWord(l) \/ Divert(l)

\* An interrupt, in user mode or in an interruptible system call, on its way
\* out through trapret.
Interrupt ==
    /\ act["interrupt"] = Idle /\ mode # "asleep"
    /\ act' = [act EXCEPT !["interrupt"] = Started]
    /\ UNCHANGED <<mode, call, sigVars, alarm, timer, userVars>>

-----------------------------------------------------------------------------
(* System calls: the caller pushes the arguments, last one first, and its  *)
(* return address, and the stub in usys.S traps.                           *)

Enter(name, args) ==
    /\ InUser /\ eip = Main /\ Len(ustack) <= MaxStack
    /\ mode' = "syscall"
    /\ call' = name
    /\ ustack' = Append(ustack \o args, Back(Len(args)))
    /\ eip' = Stub
    /\ UNCHANGED <<sigVars, alarm, timer, torn, act>>

\* signal(i, h): the handler's address is a number too.
Address(h) == IF h = "default" THEN 0 ELSE 1

CallAlarm(n) == Enter("alarm", <<Arg(n)>>)
CallSignal(i, h) == Enter("signal", <<Arg(Address(h)), Arg(i)>>)
CallWait == Enter("wait", <<>>)

\* argint(n): the word at %esp + 4 + 4n.  It is the caller's argument unless an
\* interrupt has pushed a frame since the call.
ArgInt(n) == ustack[Len(ustack) - 1 - n]

\* The system call returns; trapret runs handling_signal().
Completes(name, from) ==
    /\ call = name /\ mode = from /\ act["interrupt"] = Idle
    /\ mode' = "return"
    /\ call' = "none"
    /\ act' = [act EXCEPT !["syscall"] = Started]
    /\ UNCHANGED <<pending, owed, timer, userVars>>

\* sys_alarm(): no lock.
SysAlarm ==
    /\ Completes("alarm", "syscall")
    /\ alarm' = ArgInt(0)[2]
    /\ UNCHANGED sighandlers

SysSignal ==
    /\ Completes("signal", "syscall")
    /\ sighandlers' = IF ArgInt(0)[2] \notin Sigs THEN sighandlers
                      ELSE [sighandlers EXCEPT ![ArgInt(0)[2]] =
                                IF ArgInt(1) = Arg(Address("default")) THEN "default" ELSE "user"]
    /\ UNCHANGED alarm

\* wait() has no child, or finds one that has exited.
SysWait == Completes("wait", "syscall") /\ UNCHANGED <<sighandlers, alarm>>

\* Or it sleeps.  sigsend() does not wake it; a child that exits does, and
\* wait() finds that child.
Sleep ==
    /\ call = "wait" /\ mode = "syscall" /\ act["interrupt"] = Idle
    /\ mode' = "asleep"
    /\ UNCHANGED <<call, sigVars, alarm, timer, userVars, act>>

Wakeup == Completes("wait", "asleep") /\ UNCHANGED <<sighandlers, alarm>>

ToUser ==
    /\ mode = "return" /\ act = [l \in Levels |-> Idle]
    /\ mode' = "user"
    /\ UNCHANGED <<call, sigVars, alarm, timer, userVars, act>>

-----------------------------------------------------------------------------
(* User mode.  A word that is no code address, or a stack that is too      *)
(* short, stops the program: what it would do there is unknown.            *)

\* addl $4*n, %esp and ret.
Return(n) ==
    /\ Len(ustack) > n
    /\ eip' = ustack[Len(ustack) - n]
    /\ ustack' = SubSeq(ustack, 1, Len(ustack) - n - 1)
    /\ UNCHANGED <<mode, call, pending, sighandlers, alarm, timer, torn, act>>

\* A handler runs and returns.
HandlerRuns(i) ==
    /\ InUser /\ eip = Handler(i)
    /\ owed' = [owed EXCEPT ![i] = "no"]
    /\ Return(0)

\* Mutant: sigretimplicit does not drop the signal number.
SigRetKeepsArg == InUser /\ eip = SigRet /\ Return(0) /\ UNCHANGED owed

\* sigretimplicit drops the signal number and returns to the word above.
SigRetImplicit == InUser /\ eip = SigRet /\ Return(1) /\ UNCHANGED owed

StubReturns == InUser /\ eip = Stub /\ Return(0) /\ UNCHANGED owed

\* The program pops its arguments and goes on.
CallerPops(n) ==
    /\ InUser /\ eip = Back(n) /\ Len(ustack) >= n
    /\ eip' = Main
    /\ ustack' = SubSeq(ustack, 1, Len(ustack) - n)
    /\ UNCHANGED <<mode, call, sigVars, alarm, timer, torn, act>>

UserStep ==
    \/ \E i \in Sigs : HandlerRuns(i)
    \/ SigRetImplicit \/ StubReturns
    \/ \E n \in 0 .. 2 : CallerPops(n)

SysStep == SysAlarm \/ SysSignal \/ SysWait \/ Sleep \/ ToUser

Next ==
    \/ \E i \in Sigs : Sigsend(i)
    \/ AlarmReads \/ AlarmWrites
    \/ \E l \in Levels : HandlingSignal(l)
    \/ Interrupt
    \/ \E n \in 0 .. MaxTicks : CallAlarm(n)
    \/ \E i \in Sigs, h \in Handlers : CallSignal(i, h)
    \/ CallWait
    \/ SysStep \/ Wakeup \/ UserStep

Spec == Init /\ [][Next]_vars

\* Interrupts keep coming while the process is not asleep.  Between two of them
\* the CPU executes instructions of what they interrupted, so system calls and
\* handlers get on as well.  Nothing wakes a process that waits.
LiveSpec ==
    /\ Spec
    /\ WF_vars(Interrupt)
    /\ \A l \in Levels : SF_vars(HandlingSignal(l))
    /\ SF_vars(SysStep)
    /\ SF_vars(UserStep)

-----------------------------------------------------------------------------
(* Properties *)

\* sigsend(): "signal sent successfully".  A signal that was sent is pending,
\* or about to be acted on by handling_signal(), or its handler is the next
\* thing to run or sits in a frame on the user stack.  Two things lose one: the
\* second clearing after the default handler, and an interrupt whose frame
\* lands inside pushHandlingSig(), which overwrites the eip that it left.
NoSignalLost ==
    ~torn =>
        \A i \in Sigs : owed[i] = "yes" =>
            \/ pending[i]
            \/ \E l \in Levels : act[l].sig = i /\ act[l].at \notin {"none", "test"}
            \/ eip = Handler(i)
            \/ \E n \in DOMAIN ustack : ustack[n] = Handler(i)

\* pushHandlingSig(), sigretimplicit: every ret of a handler, of sigretimplicit
\* and of a stub finds a code address, and when the program itself runs, all
\* frames have been popped.  Except: an interrupt inside pushHandlingSig() pushes
\* a frame that is overrun, or covers the one being built.
StackBalanced ==
    InUser /\ ~torn =>
        /\ eip = Main => ustack = <<>>
        /\ eip[1] \notin {"arg", "unwritten"}

\* handling_signal(): a signal that was sent is eventually acted on (or dropped
\* as above), unless the process sleeps for ever, which no signal ends, or
\* another signal keeps arriving: handlers run last in first out, so one frame
\* can stay buried.
SignalsHandled ==
    \A i \in Sigs :
        (\A j \in Sigs \ {i} : <>[]~pending[j]) /\ []<>(mode # "asleep") =>
            (owed[i] = "yes" ~> owed[i] # "yes" \/ torn)
=============================================================================
