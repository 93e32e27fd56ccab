---------------------------- MODULE ContextProof ----------------------------
(***************************************************************************)
(* Registers survive system calls, interrupts and context switches, for    *)
(* every set of tasks: the invariant says what the registers, the kernel   *)
(* stack and the saved context of every task hold at each level.  And the  *)
(* system call that spends its time in between, sleep, lasts as asked.     *)
(***************************************************************************)
EXTENDS Context, SleepCall, WordArith, SequenceTheorems, TLAPS

\* All that a user program sees is what it computed last.
UserImage(t, r) ==
    /\ r.scratch = Own(t, "user") /\ r.r8 = Own(t, "user") /\ r.callee = Own(t, "user")
    /\ r.usr = Own(t, "user") /\ r.pc = Own(t, "user")

\* At the bottom of the kernel stack of t: the frame of its system call.
CallFrame(t) ==
    /\ Len(stack[t]) >= 1
    /\ UserImage(t, stack[t][1]) /\ stack[t][1].spsr = "user"

\* The registers and stack pointer of t in the handler of a system call.
InSwi(t, callee, r8, s) ==
    /\ callee = Own(t, "call") /\ r8 = global_data
    /\ s = [of |-> t, frames |-> 1]
    /\ CallFrame(t)

\* In the handler of an interrupt, which leaves r4-r11 in the registers: one that
\* came in user mode, and one that came inside a system call.
InIrqOfUser(t, callee, r8, s) ==
    /\ callee = Own(t, "user") /\ r8 = global_data
    /\ s = [of |-> t, frames |-> 1]
    /\ Len(stack[t]) >= 1
    /\ stack[t][1].scratch = Own(t, "user") /\ stack[t][1].r8 = Own(t, "user")
    /\ stack[t][1].usr = Own(t, "user") /\ stack[t][1].pc = Own(t, "user")
    /\ stack[t][1].spsr = "user"

InIrqOfCall(t, callee, r8, s) ==
    /\ callee = Own(t, "call") /\ r8 = global_data
    /\ s = [of |-> t, frames |-> 2]
    /\ CallFrame(t)
    /\ Len(stack[t]) = 2
    /\ stack[t][2].scratch = Own(t, "call") /\ stack[t][2].r8 = global_data
    /\ stack[t][2].pc = Own(t, "call") /\ stack[t][2].lr = Own(t, "call")
    /\ stack[t][2].spsr = "call"

InIrq(t, callee, r8, s) == InIrqOfUser(t, callee, r8, s) \/ InIrqOfCall(t, callee, r8, s)

\* The saved context leads back to where t was switched out, or starts it.
Resumable(t, saved) ==
    \/ saved.lr = "launch_task" /\ saved.callee[1] = t /\ saved.sp = KstackHigh(t)
    \/ saved.lr = "swi" /\ InSwi(t, saved.callee, saved.r8, saved.sp)
    \/ saved.lr = "irq" /\ InIrq(t, saved.callee, saved.r8, saved.sp)

InCall(t) ==
    /\ regs.scratch = Own(t, "call") /\ regs.pc = Own(t, "call") /\ regs.lr = Own(t, "call")
    /\ InSwi(t, regs.callee, regs.r8, sp)

RunnerInv ==
    /\ at = "user" => UserImage(cur, regs) /\ sp = KstackHigh(cur)
    /\ at = "call" => InCall(cur)
    /\ at = "swi"  => InSwi(cur, regs.callee, regs.r8, sp)
    /\ at = "irq"  => InIrq(cur, regs.callee, regs.r8, sp)

SuspendedInv == \A t \in set \ {cur} : Resumable(t, context[t])

StackType ==
    /\ stack \in [Owner -> Seq(Regs)]
    /\ \A t \in Owner : Len(stack[t]) <= 2

ContextInv ==
    /\ TypeOK /\ StackType
    /\ cur \in set \cup {MAIN}
    /\ RunnerInv
    /\ SuspendedInv

-----------------------------------------------------------------------------
(* Values, frames and what stays as it is.                                 *)

LEMMA Values ==
    /\ Junk \in Value /\ global_data \in Value
    /\ MAIN \in Owner /\ Task \subseteq Owner
    /\ \A t \in Owner, level \in {"user", "call"}, k \in {0, 1} : <<t, level, k>> \in Value
BY DEF Junk, global_data, Value, Owner

LEMMA OwnIsValue ==
    ASSUME TypeOK, NEW t \in Owner, NEW level \in {"user", "call"}
    PROVE  Own(t, level) \in Value
<1>1. turn[<<t, level>>] \in {0, 1}
  BY DEF TypeOK
<1> QED BY <1>1, Values DEF Own

\* A pushed frame is the last one, on top of those that count.
LEMMA PushFrame ==
    ASSUME StackType, sp \in Sp, sp.frames \in 0..1, sp.frames <= Len(stack[sp.of]),
           NEW f \in Regs, Push(f)
    PROVE  /\ StackType'
           /\ Len(stack'[sp.of]) = sp.frames + 1 /\ stack'[sp.of][sp.frames + 1] = f
           /\ \A k \in 1..sp.frames : stack'[sp.of][k] = stack[sp.of][k]
           /\ \A u \in Owner \ {sp.of} : stack'[u] = stack[u]
           /\ sp' = [of |-> sp.of, frames |-> sp.frames + 1]
<1> DEFINE t   == sp.of
           n   == sp.frames
           s   == stack[t]
           low == SubSeq(s, 1, n)
           new == Append(low, f)
<1>0. t \in Owner /\ n \in 0..1 /\ n <= Len(s)
  BY DEF Sp
<1>1. s \in Seq(Regs)
  BY DEF StackType, Sp
<1>2. \A k \in 1..n : s[k] \in Regs
  <2> HIDE DEF s
  <2>1. \A k \in 1..Len(s) : s[k] \in Regs
    BY <1>1, ElementOfSeq
  <2>2. Len(s) \in Nat
    BY <1>1
  <2> QED BY <1>0, <2>1, <2>2 DEF s
<1>3. low \in Seq(Regs) /\ Len(low) = n /\ \A k \in 1..n : low[k] = s[k]
  <2> HIDE DEF s, n
  <2>1. \A k \in 1..n : s[k] \in Regs
    BY <1>2
  <2> QED BY <1>0, <2>1, SubSeqProperties
<1>4. /\ new \in Seq(Regs) /\ Len(new) = n + 1 /\ new[n + 1] = f
      /\ \A k \in 1..n : new[k] = s[k]
  <2> HIDE DEF low, s, n
  <2> QED BY <1>0, <1>3, AppendProperties
<1>5. stack' = [stack EXCEPT ![t] = new] /\ sp' = [of |-> t, frames |-> n + 1]
  BY DEF Push, Sp
<1> HIDE DEF new, low, s, n, t
<1>6. stack'[t] = new /\ \A u \in Owner \ {t} : stack'[u] = stack[u]
  BY <1>0, <1>5 DEF StackType
<1>7. stack' \in [Owner -> Seq(Regs)]
  BY <1>0, <1>4, <1>5 DEF StackType
<1>8. \A u \in Owner : Len(stack'[u]) <= 2
  BY <1>0, <1>4, <1>6 DEF StackType
<1> QED BY <1>4, <1>5, <1>6, <1>7, <1>8 DEF StackType, s, n, t

\* Taking a frame off leaves those below it.
LEMMA PopFrame ==
    ASSUME StackType, sp \in Sp, sp.frames \in 1..2, sp.frames <= Len(stack[sp.of]), Pop
    PROVE  /\ StackType'
           /\ Len(stack'[sp.of]) = sp.frames - 1
           /\ \A k \in 1..(sp.frames - 1) : stack'[sp.of][k] = stack[sp.of][k]
           /\ \A u \in Owner \ {sp.of} : stack'[u] = stack[u]
           /\ sp' = [of |-> sp.of, frames |-> sp.frames - 1]
<1> DEFINE t   == sp.of
           n   == sp.frames
           s   == stack[t]
           low == SubSeq(s, 1, n - 1)
<1>0. t \in Owner /\ n \in 1..2 /\ n <= Len(s)
  BY DEF Sp
<1>1. s \in Seq(Regs)
  BY DEF StackType, Sp
<1>2. \A k \in 1..(n - 1) : s[k] \in Regs
  <2> HIDE DEF s
  <2>1. \A k \in 1..Len(s) : s[k] \in Regs
    BY <1>1, ElementOfSeq
  <2>2. Len(s) \in Nat
    BY <1>1
  <2> QED BY <1>0, <2>1, <2>2 DEF s
<1>3. low \in Seq(Regs) /\ Len(low) = n - 1 /\ \A k \in 1..(n - 1) : low[k] = s[k]
  <2> HIDE DEF s, n
  <2>1. \A k \in 1..(n - 1) : s[k] \in Regs
    BY <1>2
  <2>2. 1 \in Int /\ n - 1 \in Int /\ (n - 1) - 1 + 1 = n - 1
    BY <1>0
  <2> QED BY <1>0, <2>1, <2>2, SubSeqProperties
<1>4. stack' = [stack EXCEPT ![t] = low] /\ sp' = [of |-> t, frames |-> n - 1]
  BY DEF Pop, Sp
<1> HIDE DEF low, s, n, t
<1>5. stack'[t] = low /\ \A u \in Owner \ {t} : stack'[u] = stack[u]
  BY <1>0, <1>4 DEF StackType
<1>6. stack' \in [Owner -> Seq(Regs)]
  BY <1>0, <1>3, <1>4 DEF StackType
<1>7. \A u \in Owner : Len(stack'[u]) <= 2
  <2>1. Len(low) <= 2
    BY <1>0, <1>3
  <2> QED BY <2>1, <1>5 DEF StackType
<1> QED BY <1>3, <1>4, <1>5, <1>6, <1>7 DEF StackType, s, n, t

\* What TypeOK says of the frames follows from the type of the stacks.
LEMMA FramesTyped ==
    ASSUME NEW st \in [Owner -> Seq(Regs)], \A t \in Owner : Len(st[t]) <= 2
    PROVE  \A t \in Owner : Len(st[t]) <= 2 /\ \A k \in 1..Len(st[t]) : st[t][k] \in Regs
<1> TAKE t \in Owner
<1> DEFINE s == st[t]
<1>1. s \in Seq(Regs) /\ Len(s) <= 2
  OBVIOUS
<1> HIDE DEF s
<1>2. \A k \in 1..Len(s) : s[k] \in Regs
  BY <1>1, ElementOfSeq
<1> QED BY <1>1, <1>2 DEF s

\* A switched-out task stays resumable while nobody touches what is its own.
LEMMA StaysResumable ==
    ASSUME NEW t \in Task, Resumable(t, context[t]),
           context'[t] = context[t], stack'[t] = stack[t],
           turn'[<<t, "user">>] = turn[<<t, "user">>], turn'[<<t, "call">>] = turn[<<t, "call">>]
    PROVE  Resumable(t, context[t])'
BY DEF Resumable, InSwi, InIrq, InIrqOfUser, InIrqOfCall, CallFrame, UserImage, Own

\* Between two switches nothing but the stack of the running task changes.
LEMMA OthersStay ==
    ASSUME ContextInv, UNCHANGED <<cur, context, set>>,
           \A u \in Owner \ {cur} : stack'[u] = stack[u],
           \A u \in Owner \ {cur} : turn'[<<u, "user">>] = turn[<<u, "user">>] /\ turn'[<<u, "call">>] = turn[<<u, "call">>]
    PROVE  SuspendedInv'
<1> SUFFICES ASSUME NEW t \in set \ {cur} PROVE Resumable(t, context[t])'
  BY DEF SuspendedInv
<1>1. t \in Task /\ t \in Owner \ {cur}
  BY Values DEF ContextInv, TypeOK
<1>2. Resumable(t, context[t])
  BY DEF ContextInv, SuspendedInv
<1> QED BY <1>1, <1>2, StaysResumable

-----------------------------------------------------------------------------
(* One lemma per action.                                                   *)

LEMMA InitContext == Init => ContextInv
<1> SUFFICES ASSUME Init PROVE ContextInv
  OBVIOUS
<1> DEFINE mine == <<MAIN, "user", 0>>
<1>1. mine \in Value
  BY Values
<1>2. turn = [x \in Owner \X {"user", "call"} |-> 0] /\ Own(MAIN, "user") = mine
  BY Values DEF Init, Own
<1>3. StackType
  <2>1. \A t \in Owner : stack[t] = <<>>
    BY DEF Init
  <2>2. <<>> \in Seq(Regs) /\ Len(<<>>) = 0
    OBVIOUS
  <2>3. stack = [t \in Owner |-> <<>>]
    BY DEF Init
  <2> QED BY <2>1, <2>2, <2>3 DEF StackType
<1>4. regs \in Regs /\ sp \in Sp /\ context \in [Task -> Saved]
  <2> HIDE DEF mine
  <2> QED BY <1>1, Values DEF Init, Regs, Sp, Saved, KstackHigh, mine
<1>5. TypeOK
  BY <1>2, <1>3, <1>4, FramesTyped, Values DEF Init, TypeOK, StackType
<1>6. RunnerInv
  BY <1>2 DEF Init, RunnerInv, UserImage
<1>7. cur \in set \cup {MAIN} /\ SuspendedInv
  BY DEF Init, SuspendedInv
<1> QED BY <1>3, <1>5, <1>6, <1>7 DEF ContextInv

\* The running task is an owner of a stack.
LEMMA CurIsOwner == ContextInv => cur \in Owner
BY DEF ContextInv, TypeOK

LEMMA ComputedFields ==
    ASSUME regs \in Regs, NEW v \in Value
    PROVE  /\ LET r == Computed("user", v)
              IN  r \in Regs /\ r = [regs EXCEPT !.scratch = v, !.r8 = v, !.callee = v, !.usr = v, !.pc = v]
           /\ LET r == Computed("call", v)
              IN  /\ r \in Regs /\ r = [regs EXCEPT !.scratch = v, !.callee = v, !.pc = v, !.lr = v]
                  /\ r.scratch = v /\ r.callee = v /\ r.pc = v /\ r.lr = v
BY DEF Computed, Regs

LEMMA ComputeKeeps ==
    ASSUME ContextInv, Compute
    PROVE  ContextInv'
<1> DEFINE v == <<cur, at, 1 - turn[<<cur, at>>]>>
<1>1. /\ cur \in Owner /\ at \in {"user", "call"} /\ regs \in Regs
      /\ turn \in [Owner \X {"user", "call"} -> {0, 1}]
      /\ UNCHANGED <<cur, at, sp, stack, context, set>>
  BY CurIsOwner DEF ContextInv, TypeOK, Compute
<1>2. /\ turn' = [turn EXCEPT ![<<cur, at>>] = 1 - turn[<<cur, at>>]]
      /\ turn' \in [Owner \X {"user", "call"} -> {0, 1}]
      /\ turn'[<<cur, at>>] = 1 - turn[<<cur, at>>]
  BY <1>1 DEF Compute
<1>3. \A u \in Owner, level \in {"user", "call"} :
          <<u, level>> # <<cur, at>> => turn'[<<u, level>>] = turn[<<u, level>>]
  BY <1>1, <1>2
<1>4. v \in Value /\ regs' = Computed(at, v) /\ v = Own(cur, at)'
  BY <1>1, <1>2, Values DEF Compute, Own
<1> HIDE DEF v
<1>5. regs' \in Regs
  BY <1>1, <1>4, ComputedFields
<1>6. TypeOK' /\ StackType'
  BY <1>1, <1>2, <1>5 DEF ContextInv, TypeOK, StackType
<1>7. SuspendedInv'
  BY <1>1, <1>3, OthersStay
<1>8. RunnerInv'
  <2>1. CASE at = "user"
    <3>1. regs' = [regs EXCEPT !.scratch = v, !.r8 = v, !.callee = v, !.usr = v, !.pc = v]
      BY <1>1, <1>4, <2>1, ComputedFields
    <3>2. UserImage(cur, regs)'
      BY <1>1, <1>4, <2>1, <3>1 DEF UserImage, Regs
    <3>3. sp' = KstackHigh(cur')
      BY <1>1, <2>1 DEF ContextInv, RunnerInv
    <3> QED BY <1>1, <2>1, <3>2, <3>3 DEF RunnerInv
  <2>2. CASE at = "call"
    <3>1. regs' = [regs EXCEPT !.scratch = v, !.callee = v, !.pc = v, !.lr = v]
      BY <1>1, <1>4, <2>2, ComputedFields
    <3>2. InCall(cur)
      BY <2>2 DEF ContextInv, RunnerInv
    <3>3. Own(cur, "user")' = Own(cur, "user")
      BY <1>1, <1>3, <2>2 DEF Own
    <3>4. CallFrame(cur)'
      BY <1>1, <3>2, <3>3 DEF InCall, InSwi, CallFrame, UserImage
    <3>5. InCall(cur)'
      BY <1>1, <1>4, <2>2, <3>1, <3>2, <3>4 DEF InCall, InSwi, Regs
    <3> QED BY <1>1, <2>2, <3>5 DEF RunnerInv
  <2> QED BY <1>1, <2>1, <2>2
<1> QED BY <1>1, <1>6, <1>7, <1>8 DEF ContextInv

LEMMA SwiWrapperKeeps ==
    ASSUME ContextInv, swi_wrapper
    PROVE  ContextInv'
<1> DEFINE f == [regs EXCEPT !.spsr = "user", !.lr = Junk]
<1>1. /\ cur \in Owner /\ at = "user" /\ at' = "swi" /\ regs \in Regs
      /\ UNCHANGED <<cur, context, set, turn>>
      /\ UserImage(cur, regs) /\ sp = [of |-> cur, frames |-> 0]
      /\ StackType
  BY CurIsOwner DEF ContextInv, TypeOK, swi_wrapper, RunnerInv, KstackHigh
<1>2. f \in Regs /\ Push(f)
  BY <1>1, Values DEF swi_wrapper, Regs
<1>3. f.spsr = "user" /\ UserImage(cur, f)
  BY <1>1 DEF UserImage, Regs
<1> HIDE DEF f
<1>4. /\ StackType' /\ Len(stack'[cur]) = 1 /\ stack'[cur][1] = f
      /\ \A u \in Owner \ {cur} : stack'[u] = stack[u]
      /\ sp' = [of |-> cur, frames |-> 1]
  <2>1. sp.of = cur /\ sp.frames = 0 /\ sp \in Sp
    BY <1>1 DEF Sp
  <2>2. 0 <= Len(stack[cur]) /\ 0 \in 0..1
    BY <1>1 DEF StackType
  <2>3. /\ StackType' /\ Len(stack'[cur]) = 0 + 1 /\ stack'[cur][0 + 1] = f
        /\ \A u \in Owner \ {cur} : stack'[u] = stack[u]
        /\ sp' = [of |-> cur, frames |-> 0 + 1]
    BY <1>1, <1>2, <2>1, <2>2, PushFrame
  <2> QED BY <2>3
<1>5. Own(cur, "call") \in Value /\ Own(cur, "call")' = Own(cur, "call")
      /\ Own(cur, "user")' = Own(cur, "user")
  BY <1>1, OwnIsValue DEF ContextInv, Own
<1>6. /\ regs' \in Regs
      /\ regs'.callee = Own(cur, "call") /\ regs'.r8 = global_data
  <2> DEFINE v == Own(cur, "call")
             c == Computed("call", v)
  <2>1. v \in Value
    BY <1>5
  <2>2. c \in Regs /\ c.callee = v
    <3> HIDE DEF v
    <3> QED BY <1>1, <2>1, ComputedFields DEF Regs
  <2>3. regs' = [c EXCEPT !.scratch = Junk, !.pc = Junk, !.lr = Junk, !.spsr = "user", !.r8 = global_data]
    BY DEF swi_wrapper
  <2> HIDE DEF c, v
  <2>4. regs' \in Regs /\ regs'.callee = v /\ regs'.r8 = global_data
    BY <2>2, <2>3, Values DEF Regs
  <2> QED BY <2>4 DEF v
<1>7. sp' \in Sp
  BY <1>1, <1>4 DEF Sp
<1>8. TypeOK'
  <2>1. \A t \in Owner : Len(stack'[t]) <= 2 /\ \A k \in 1..Len(stack'[t]) : stack'[t][k] \in Regs
    BY <1>4, FramesTyped DEF StackType
  <2> QED BY <1>1, <1>6, <1>7, <2>1 DEF ContextInv, TypeOK
<1>9. RunnerInv'
  <2>1. CallFrame(cur)'
    BY <1>1, <1>3, <1>4, <1>5 DEF CallFrame, UserImage
  <2>2. InSwi(cur, regs.callee, regs.r8, sp)'
    BY <1>1, <1>4, <1>5, <1>6, <2>1 DEF InSwi, global_data
  <2> QED BY <1>1, <2>2 DEF RunnerInv
<1>10. SuspendedInv'
  BY <1>1, <1>4, OthersStay
<1> QED BY <1>1, <1>4, <1>8, <1>9, <1>10 DEF ContextInv

LEMMA SwiReturnKeeps ==
    ASSUME ContextInv, swi_return
    PROVE  ContextInv'
<1> DEFINE f == stack[cur][1]
<1>1. /\ cur \in Owner /\ at = "swi" /\ regs \in Regs
      /\ UNCHANGED <<cur, context, set, turn>>
      /\ sp = [of |-> cur, frames |-> 1] /\ CallFrame(cur)
      /\ StackType
  BY CurIsOwner DEF ContextInv, TypeOK, swi_return, RunnerInv, InSwi
<1>2. f = Frame /\ f \in Regs /\ UserImage(cur, f) /\ f.spsr = "user"
  BY <1>1, FramesTyped DEF Frame, CallFrame, StackType
<1>3. /\ StackType' /\ sp' = [of |-> cur, frames |-> 0]
      /\ \A u \in Owner \ {cur} : stack'[u] = stack[u]
  <2>1. sp.of = cur /\ sp.frames = 1 /\ sp \in Sp
    BY <1>1 DEF Sp
  <2>2. 1 \in 1..2 /\ 1 <= Len(stack[cur]) /\ Pop
    BY <1>1 DEF CallFrame, swi_return
  <2>3. /\ StackType' /\ sp' = [of |-> cur, frames |-> 1 - 1]
        /\ \A u \in Owner \ {cur} : stack'[u] = stack[u]
    BY <1>1, <2>1, <2>2, PopFrame
  <2> QED BY <2>3
<1> HIDE DEF f
<1>4. /\ regs' \in Regs /\ regs'.spsr = "user" /\ at' = "user"
      /\ UserImage(cur, regs')
  BY <1>1, <1>2 DEF swi_return, spsr_saved, UserImage, Regs
<1>5. TypeOK'
  <2>1. \A t \in Owner : Len(stack'[t]) <= 2 /\ \A k \in 1..Len(stack'[t]) : stack'[t][k] \in Regs
    BY <1>3, FramesTyped DEF StackType
  <2>2. sp' \in Sp
    BY <1>1, <1>3 DEF Sp
  <2> QED BY <1>1, <1>4, <2>1, <2>2 DEF ContextInv, TypeOK
<1>6. RunnerInv'
  BY <1>1, <1>3, <1>4 DEF RunnerInv, UserImage, Own, KstackHigh
<1>7. SuspendedInv'
  BY <1>1, <1>3, OthersStay
<1> QED BY <1>1, <1>3, <1>5, <1>6, <1>7 DEF ContextInv

LEMMA EnableKeeps ==
    ASSUME ContextInv, enable_interrupts
    PROVE  ContextInv'
<1>1. /\ cur \in Owner /\ at = "swi" /\ at' = "call" /\ regs \in Regs
      /\ UNCHANGED <<cur, sp, stack, context, set, turn>>
      /\ InSwi(cur, regs.callee, regs.r8, sp)
  BY CurIsOwner DEF ContextInv, TypeOK, enable_interrupts, RunnerInv
<1>2. /\ regs' \in Regs
      /\ regs' = [regs EXCEPT !.scratch = Own(cur, "call"), !.callee = Own(cur, "call"),
                              !.pc = Own(cur, "call"), !.lr = Own(cur, "call")]
  <2> DEFINE v == Own(cur, "call")
  <2>1. v \in Value
    BY <1>1, OwnIsValue DEF ContextInv
  <2>2. regs' = Computed("call", v)
    BY DEF enable_interrupts
  <2> HIDE DEF v
  <2>3. regs' \in Regs /\ regs' = [regs EXCEPT !.scratch = v, !.callee = v, !.pc = v, !.lr = v]
    BY <1>1, <2>1, <2>2, ComputedFields
  <2> QED BY <2>3 DEF v
<1>3. InCall(cur)'
  BY <1>1, <1>2 DEF InCall, InSwi, CallFrame, UserImage, Own, Regs
<1>4. TypeOK' /\ StackType'
  BY <1>1, <1>2 DEF ContextInv, TypeOK, StackType
<1>5. SuspendedInv'
  BY <1>1, OthersStay
<1> QED BY <1>1, <1>3, <1>4, <1>5 DEF ContextInv, RunnerInv

LEMMA DisableKeeps ==
    ASSUME ContextInv, disable_interrupts
    PROVE  ContextInv'
<1>1. /\ cur \in Owner /\ at = "call" /\ at' = "swi" /\ regs \in Regs
      /\ UNCHANGED <<cur, sp, stack, context, set, turn>>
      /\ InCall(cur)
  BY CurIsOwner DEF ContextInv, TypeOK, disable_interrupts, RunnerInv
<1>2. /\ regs' \in Regs
      /\ regs'.callee = regs.callee /\ regs'.r8 = regs.r8
  BY <1>1, Values DEF disable_interrupts, Regs
<1>3. InSwi(cur, regs.callee, regs.r8, sp)'
  BY <1>1, <1>2 DEF InCall, InSwi, CallFrame, UserImage, Own
<1>4. TypeOK' /\ StackType'
  BY <1>1, <1>2 DEF ContextInv, TypeOK, StackType
<1>5. SuspendedInv'
  BY <1>1, OthersStay
<1> QED BY <1>1, <1>3, <1>4, <1>5 DEF ContextInv, RunnerInv

LEMMA IrqWrapperKeeps ==
    ASSUME ContextInv, irq_wrapper
    PROVE  ContextInv'
<1> DEFINE f == [regs EXCEPT !.callee = Junk, !.spsr = at]
<1>1. /\ cur \in Owner /\ at \in {"user", "call"} /\ at' = "irq" /\ regs \in Regs /\ sp \in Sp
      /\ UNCHANGED <<cur, context, set, turn>>
      /\ StackType /\ sp.of = cur /\ sp.frames = IF at = "user" THEN 0 ELSE 1
      /\ sp.frames <= Len(stack[cur])
  <2>1. cur \in Owner /\ regs \in Regs /\ sp \in Sp /\ StackType /\ at \in {"user", "call"}
    BY CurIsOwner DEF ContextInv, TypeOK, irq_wrapper, Unmasked
  <2>2. CASE at = "user"
    <3>1. sp = [of |-> cur, frames |-> 0]
      BY <2>2 DEF ContextInv, RunnerInv, KstackHigh
    <3>2. 0 <= Len(stack[cur])
      BY <2>1 DEF StackType
    <3> QED BY <2>1, <2>2, <3>1, <3>2 DEF irq_wrapper
  <2>3. CASE at = "call"
    BY <2>1, <2>3 DEF irq_wrapper, ContextInv, RunnerInv, InCall, InSwi, CallFrame
  <2> QED BY <2>1, <2>2, <2>3
<1>2. f \in Regs /\ Push(f)
  BY <1>1, Values DEF irq_wrapper, Regs
<1>3. /\ StackType' /\ Len(stack'[cur]) = sp.frames + 1 /\ stack'[cur][sp.frames + 1] = f
      /\ \A k \in 1..sp.frames : stack'[cur][k] = stack[cur][k]
      /\ \A u \in Owner \ {cur} : stack'[u] = stack[u]
      /\ sp' = [of |-> cur, frames |-> sp.frames + 1]
  <2> HIDE DEF f
  <2>1. sp.frames \in 0..1
    BY <1>1
  <2> QED BY <1>1, <1>2, <2>1, PushFrame
<1>4. /\ regs' \in Regs
      /\ regs'.callee = regs.callee /\ regs'.r8 = global_data
  BY <1>1, Values DEF irq_wrapper, Regs
<1>5. /\ f.scratch = regs.scratch /\ f.r8 = regs.r8 /\ f.usr = regs.usr /\ f.pc = regs.pc
      /\ f.lr = regs.lr /\ f.spsr = at
  BY <1>1 DEF Regs
<1> HIDE DEF f
<1>6. TypeOK'
  <2>1. \A t \in Owner : Len(stack'[t]) <= 2 /\ \A k \in 1..Len(stack'[t]) : stack'[t][k] \in Regs
    BY <1>3, FramesTyped DEF StackType
  <2>2. sp' \in Sp
    BY <1>1, <1>3 DEF Sp
  <2> QED BY <1>1, <1>4, <2>1, <2>2 DEF ContextInv, TypeOK
<1>7. InIrq(cur, regs.callee, regs.r8, sp)'
  <2>1. CASE at = "user"
    <3>1. UserImage(cur, regs)
      BY <2>1 DEF ContextInv, RunnerInv
    <3>2. Len(stack'[cur]) = 1 /\ stack'[cur][1] = f /\ sp' = [of |-> cur, frames |-> 1]
      BY <1>1, <1>3, <2>1
    <3>3. InIrqOfUser(cur, regs.callee, regs.r8, sp)'
      BY <1>1, <1>4, <1>5, <2>1, <3>1, <3>2 DEF InIrqOfUser, UserImage, Own, global_data
    <3> QED BY <3>3 DEF InIrq
  <2>2. CASE at = "call"
    <3>1. InCall(cur)
      BY <2>2 DEF ContextInv, RunnerInv
    <3>2. /\ Len(stack'[cur]) = 2 /\ stack'[cur][2] = f /\ stack'[cur][1] = stack[cur][1]
          /\ sp' = [of |-> cur, frames |-> 2]
      BY <1>1, <1>3, <2>2
    <3>3. CallFrame(cur)'
      BY <1>1, <3>1, <3>2 DEF InCall, InSwi, CallFrame, UserImage, Own
    <3>4. InIrqOfCall(cur, regs.callee, regs.r8, sp)'
      BY <1>1, <1>4, <1>5, <2>2, <3>1, <3>2, <3>3 DEF InIrqOfCall, InCall, InSwi, Own, global_data
    <3> QED BY <3>4 DEF InIrq
  <2> QED BY <1>1, <2>1, <2>2
<1>8. SuspendedInv'
  BY <1>1, <1>3, OthersStay
<1> QED BY <1>1, <1>3, <1>6, <1>7, <1>8 DEF ContextInv, RunnerInv

LEMMA IrqReturnKeeps ==
    ASSUME ContextInv, irq_return
    PROVE  ContextInv'
<1> DEFINE f == stack[cur][sp.frames]
<1>1. /\ cur \in Owner /\ at = "irq" /\ regs \in Regs /\ sp \in Sp
      /\ UNCHANGED <<cur, context, set, turn>>
      /\ StackType /\ InIrq(cur, regs.callee, regs.r8, sp)
      /\ sp.of = cur /\ sp.frames \in 1..2 /\ sp.frames <= Len(stack[cur])
  <2>1. cur \in Owner /\ regs \in Regs /\ sp \in Sp /\ StackType /\ at = "irq"
        /\ InIrq(cur, regs.callee, regs.r8, sp)
    BY CurIsOwner DEF ContextInv, TypeOK, irq_return, RunnerInv
  <2>2. sp.of = cur /\ sp.frames \in 1..2 /\ sp.frames <= Len(stack[cur])
    BY <2>1 DEF InIrq, InIrqOfUser, InIrqOfCall
  <2> QED BY <2>1, <2>2 DEF irq_return
<1>2. f = Frame /\ f \in Regs
  <2>1. \A k \in 1..Len(stack[cur]) : stack[cur][k] \in Regs
    BY <1>1, FramesTyped DEF StackType
  <2>2. Len(stack[cur]) \in Nat
    BY <1>1 DEF StackType
  <2> QED BY <1>1, <2>1, <2>2 DEF Frame
<1>3. /\ StackType' /\ sp' = [of |-> cur, frames |-> sp.frames - 1]
      /\ Len(stack'[cur]) = sp.frames - 1
      /\ \A k \in 1..(sp.frames - 1) : stack'[cur][k] = stack[cur][k]
      /\ \A u \in Owner \ {cur} : stack'[u] = stack[u]
  <2> HIDE DEF f
  <2>1. Pop
    BY DEF irq_return
  <2> QED BY <1>1, <2>1, PopFrame
<1>4. /\ regs' = [f EXCEPT !.callee = regs.callee] /\ at' = regs'.spsr
      /\ regs' \in Regs
  BY <1>1, <1>2 DEF irq_return, Regs
<1>5. /\ regs'.scratch = f.scratch /\ regs'.r8 = f.r8 /\ regs'.usr = f.usr /\ regs'.pc = f.pc
      /\ regs'.lr = f.lr /\ at' = f.spsr /\ regs'.callee = regs.callee
  <2> HIDE DEF f
  <2> QED BY <1>2, <1>4 DEF Regs
<1>6. TypeOK'
  <2>1. \A t \in Owner : Len(stack'[t]) <= 2 /\ \A k \in 1..Len(stack'[t]) : stack'[t][k] \in Regs
    BY <1>3, FramesTyped DEF StackType
  <2>2. sp' \in Sp
    BY <1>1, <1>3 DEF Sp
  <2>3. at' \in {"user", "call", "swi", "irq"}
    BY <1>2, <1>5 DEF Regs
  <2> QED BY <1>1, <1>4, <2>1, <2>2, <2>3 DEF ContextInv, TypeOK
<1>7. RunnerInv'
  <2>1. CASE InIrqOfUser(cur, regs.callee, regs.r8, sp)
    <3>1. sp.frames = 1 /\ f.spsr = "user"
      BY <2>1 DEF InIrqOfUser
    <3>2. UserImage(cur, regs')
      BY <1>5, <2>1, <3>1 DEF InIrqOfUser, UserImage
    <3>3. at' = "user" /\ sp' = [of |-> cur, frames |-> 0]
      BY <1>3, <1>5, <3>1
    <3> QED BY <1>1, <3>2, <3>3 DEF RunnerInv, UserImage, Own, KstackHigh
  <2>2. CASE InIrqOfCall(cur, regs.callee, regs.r8, sp)
    <3>1. sp.frames = 2 /\ f = stack[cur][2]
      BY <2>2 DEF InIrqOfCall
    <3>2. /\ at' = "call" /\ sp' = [of |-> cur, frames |-> 1]
          /\ Len(stack'[cur]) = 1 /\ stack'[cur][1] = stack[cur][1]
      BY <1>3, <1>5, <2>2, <3>1 DEF InIrqOfCall
    <3>3. CallFrame(cur)'
      <4>1. stack'[cur'] = stack'[cur] /\ cur' = cur /\ Own(cur, "user")' = Own(cur, "user")
        BY <1>1 DEF Own
      <4>2. CallFrame(cur)
        BY <2>2, Zenon DEF InIrqOfCall
      <4> HIDE DEF Own
      <4> QED BY <3>2, <4>1, <4>2 DEF CallFrame, UserImage
    <3>4. InCall(cur)'
      BY <1>1, <1>5, <2>2, <3>1, <3>2, <3>3 DEF InIrqOfCall, InCall, InSwi, Own, global_data
    <3> QED BY <1>1, <3>2, <3>4 DEF RunnerInv
  <2> QED BY <1>1, <2>1, <2>2 DEF InIrq
<1>8. SuspendedInv'
  BY <1>1, <1>3, OthersStay
<1> QED BY <1>1, <1>3, <1>6, <1>7, <1>8 DEF ContextInv

\* Loading a resumable context puts its task where it was, or at its start.
LEMMA SwitchRuns ==
    ASSUME ContextInv, NEW u \in Task, NEW saved \in Saved, Resumable(u, saved),
           ctx_switch_half(u, saved), UNCHANGED <<stack, turn>>
    PROVE  /\ RunnerInv' /\ cur' = u
           /\ regs' \in Regs /\ sp' \in Sp /\ at' \in {"user", "call", "swi", "irq"}
<1>1. regs \in Regs /\ u \in Owner /\ cur' = u /\ sp' = saved.sp /\ saved.sp \in Sp
  BY Values DEF ContextInv, TypeOK, ctx_switch_half, Saved
<1>2. CASE saved.lr = "launch_task"
  <2> DEFINE v == Own(u, "user")
  <2>1. saved.callee[1] = u /\ saved.sp = KstackHigh(u)
    BY <1>2 DEF Resumable
  <2>2. at' = "user" /\ regs' = Computed("user", v)
    BY <1>2, <2>1 DEF ctx_switch_half, Own
  <2>3. v \in Value
    BY <1>1, OwnIsValue DEF ContextInv
  <2>4. /\ regs' \in Regs
        /\ regs' = [regs EXCEPT !.scratch = v, !.r8 = v, !.callee = v, !.usr = v, !.pc = v]
    <3> HIDE DEF v
    <3> QED BY <1>1, <2>2, <2>3, ComputedFields
  <2>5. v' = v
    BY DEF Own
  <2>6. UserImage(cur, regs)'
    <3> HIDE DEF v
    <3>1. /\ regs'.scratch = v /\ regs'.r8 = v /\ regs'.callee = v /\ regs'.usr = v /\ regs'.pc = v
      BY <1>1, <2>4 DEF Regs
    <3> QED BY <1>1, <2>5, <3>1 DEF UserImage, v
  <2>7. sp' = KstackHigh(cur')
    BY <1>1, <2>1 DEF KstackHigh
  <2>8. RunnerInv'
    BY <2>2, <2>6, <2>7 DEF RunnerInv
  <2> QED BY <1>1, <2>2, <2>4, <2>8
<1>3. CASE saved.lr # "launch_task"
  <2>1. at' = saved.lr /\ at' \in {"swi", "irq"}
    BY <1>3 DEF ctx_switch_half, Saved
  <2>2. /\ regs' = [regs EXCEPT !.callee = saved.callee, !.r8 = saved.r8]
        /\ regs' \in Regs /\ regs'.callee = saved.callee /\ regs'.r8 = saved.r8
    BY <1>1, <1>3 DEF ctx_switch_half, Saved, Regs
  <2>3. CASE saved.lr = "swi"
    <3>1. InSwi(u, saved.callee, saved.r8, saved.sp)
      BY <2>3 DEF Resumable
    <3>2. InSwi(cur, regs.callee, regs.r8, sp)'
      BY <1>1, <2>2, <3>1 DEF InSwi, CallFrame, UserImage, Own, global_data
    <3> QED BY <1>1, <2>1, <2>2, <2>3, <3>2 DEF RunnerInv
  <2>4. CASE saved.lr = "irq"
    <3>1. InIrq(u, saved.callee, saved.r8, saved.sp)
      BY <2>4 DEF Resumable
    <3>2. InIrq(cur, regs.callee, regs.r8, sp)'
      BY <1>1, <2>2, <3>1 DEF InIrq, InIrqOfUser, InIrqOfCall, CallFrame, UserImage, Own, global_data
    <3> QED BY <1>1, <2>1, <2>2, <2>4, <3>2 DEF RunnerInv
  <2> QED BY <2>1, <2>3, <2>4
<1> QED BY <1>2, <1>3

\* Switching from one task of the set to another, in either handler.
LEMMA FullSwitchKeeps ==
    ASSUME ContextInv, NEW u \in set \ {cur}, cur # MAIN, at \in {"swi", "irq"},
           ctx_switch_full(u, at), UNCHANGED <<stack, set, turn>>
    PROVE  ContextInv'
<1>1. /\ cur \in Task /\ cur \in set /\ u \in Task /\ regs \in Regs /\ sp \in Sp
      /\ context \in [Task -> Saved] /\ set \subseteq Task
  BY DEF ContextInv, TypeOK
<1>2. saved_context(at) \in Saved
  BY <1>1 DEF saved_context, Saved, Regs
<1>3. /\ context' \in [Task -> Saved]
      /\ context'[cur] = saved_context(at)
      /\ \A t \in Task \ {cur} : context'[t] = context[t]
  BY <1>1, <1>2 DEF ctx_switch_full
<1>4. Resumable(u, context[u]) /\ context[u] \in Saved
  BY <1>1 DEF ContextInv, SuspendedInv
<1>5. /\ RunnerInv' /\ cur' = u
      /\ regs' \in Regs /\ sp' \in Sp /\ at' \in {"user", "call", "swi", "irq"}
  BY <1>1, <1>4, SwitchRuns DEF ctx_switch_full
<1>6. TypeOK' /\ StackType' /\ cur' \in set' \cup {MAIN}
  BY <1>1, <1>3, <1>5, Values DEF ContextInv, TypeOK, StackType
<1>7. Resumable(cur, context'[cur])
  BY <1>3 DEF ContextInv, RunnerInv, Resumable, saved_context
<1>8. ASSUME NEW t \in set \ {u} PROVE Resumable(t, context[t])'
  <2>1. CASE t = cur
    BY <1>7, <2>1
       DEF Resumable, InSwi, InIrq, InIrqOfUser, InIrqOfCall, CallFrame, UserImage, Own, KstackHigh
  <2>2. CASE t # cur
    <3>1. t \in Task /\ Resumable(t, context[t]) /\ context'[t] = context[t]
      BY <1>1, <1>3, <2>2 DEF ContextInv, SuspendedInv
    <3> QED BY <3>1, StaysResumable
  <2> QED BY <2>1, <2>2
<1>9. SuspendedInv'
  BY <1>5, <1>8 DEF SuspendedInv
<1> QED BY <1>5, <1>6, <1>9 DEF ContextInv

LEMMA TaskCreateKeeps ==
    ASSUME ContextInv, NEW new \in SUBSET Task, NEW u \in new, task_create(new, u)
    PROVE  ContextInv'
<1>1. /\ regs \in Regs /\ u \in Task /\ context \in [Task -> Saved]
      /\ set' = new /\ UNCHANGED <<stack, turn>>
  BY DEF ContextInv, TypeOK, task_create
<1>2. \A t \in new : <<t, "launch", 0>> \in Value /\ KstackHigh(t) \in Sp
  BY DEF Value, Owner, KstackHigh, Sp
<1>3. context' = [t \in Task |->
          IF t \in new THEN [callee |-> <<t, "launch", 0>>, r8 |-> context[t].r8,
                             sp |-> KstackHigh(t), lr |-> "launch_task"]
                       ELSE context[t]]
  BY DEF task_create
<1>4. context' \in [Task -> Saved]
  BY <1>1, <1>2, <1>3 DEF Saved
<1>5. \A t \in new : Resumable(t, context'[t])
  BY <1>1, <1>3 DEF Resumable
<1>6. /\ RunnerInv' /\ cur' = u
      /\ regs' \in Regs /\ sp' \in Sp /\ at' \in {"user", "call", "swi", "irq"}
  <2>1. Resumable(u, context'[u]) /\ context'[u] \in Saved /\ ctx_switch_half(u, context'[u])
    BY <1>1, <1>4, <1>5 DEF task_create
  <2> QED BY <1>1, <2>1, SwitchRuns
<1>7. TypeOK' /\ StackType' /\ cur' \in set' \cup {MAIN}
  BY <1>1, <1>4, <1>6, Values DEF ContextInv, TypeOK, StackType
<1>8. \A t \in new : Resumable(t, context[t])'
  BY <1>3 DEF Resumable, KstackHigh
<1>9. SuspendedInv'
  BY <1>1, <1>8 DEF SuspendedInv
<1> QED BY <1>6, <1>7, <1>9 DEF ContextInv

LEMMA StepContext == ContextInv /\ [Next]_vars => ContextInv'
<1> SUFFICES ASSUME ContextInv, [Next]_vars PROVE ContextInv'
  OBVIOUS
<1>1. CASE Compute \/ swi_wrapper \/ swi_return
  BY <1>1, ComputeKeeps, SwiWrapperKeeps, SwiReturnKeeps
<1>2. CASE enable_interrupts \/ disable_interrupts
  BY <1>2, EnableKeeps, DisableKeeps
<1>3. CASE irq_wrapper \/ irq_return
  BY <1>3, IrqWrapperKeeps, IrqReturnKeeps
<1>4. ASSUME NEW u \in Task, dispatch_sleep(u) PROVE ContextInv'
  BY <1>4, FullSwitchKeeps DEF dispatch_sleep
<1>5. ASSUME NEW u \in Task, dispatch_save(u) PROVE ContextInv'
  BY <1>5, FullSwitchKeeps DEF dispatch_save
<1>6. ASSUME NEW new \in SUBSET Task, NEW u \in new, task_create(new, u) PROVE ContextInv'
  BY <1>6, TaskCreateKeeps
<1>7. CASE UNCHANGED vars
  <2>1. UNCHANGED <<cur, at, regs, sp, stack, context, set, turn>>
    BY <1>7 DEF vars
  <2>2. TypeOK' /\ StackType'
    BY <2>1 DEF ContextInv, TypeOK, StackType
  <2>3. RunnerInv'
    BY <2>1 DEF ContextInv, RunnerInv, InCall, InSwi, InIrq, InIrqOfUser, InIrqOfCall,
                CallFrame, UserImage, Own, KstackHigh
  <2>4. SuspendedInv'
    BY <2>1, OthersStay
  <2> QED BY <2>1, <2>2, <2>3, <2>4 DEF ContextInv
<1> QED BY <1>1, <1>2, <1>3, <1>4, <1>5, <1>6, <1>7 DEF Next

LEMMA ContextInvariance == Spec => []ContextInv
BY InitContext, StepContext, PTL DEF Spec

-----------------------------------------------------------------------------
\* A program that goes on after a system call, an interrupt or a preemption finds its
\* registers as it left them and its kernel stack empty, for every set of tasks and
\* however the calls, ticks and switches follow on each other (swi_asm.S:35-44,
\* int_asm.S:66-70, ctx_switch_asm.S:45-54).
THEOREM ProgramsUndisturbed == Spec => []ProgramUndisturbed
<1>1. ContextInv => ProgramUndisturbed
  BY DEF ContextInv, RunnerInv, ProgramUndisturbed, UserImage
<1> QED BY <1>1, ContextInvariance, PTL

\* So do the handlers and an interrupted system call, and no kernel stack ever holds more
\* than a call and its interrupt (int_asm.S:32-49, 56-58).
THEOREM CallsUndisturbed == Spec => []CallUndisturbed
<1>1. ContextInv => CallUndisturbed
  <2> SUFFICES ASSUME ContextInv PROVE CallUndisturbed
    OBVIOUS
  <2>1. at = "call" => InCall(cur)
    BY DEF ContextInv, RunnerInv
  <2>2. at = "swi" => InSwi(cur, regs.callee, regs.r8, sp)
    BY DEF ContextInv, RunnerInv
  <2>3. at = "irq" => InIrq(cur, regs.callee, regs.r8, sp)
    BY DEF ContextInv, RunnerInv
  <2>4. at \in {"user", "call", "swi", "irq"}
    BY DEF ContextInv, TypeOK
  <2>5. at = "call" => /\ {regs.scratch, regs.callee, regs.pc, regs.lr} = {Own(cur, "call")}
                       /\ sp = [of |-> cur, frames |-> 1]
    BY <2>1 DEF InCall, InSwi
  <2>6. at = "swi" => regs.callee = Own(cur, "call")
    BY <2>2 DEF InSwi
  <2>7. at # "user" => regs.r8 = global_data
    BY <2>1, <2>2, <2>3, <2>4 DEF InCall, InSwi, InIrq, InIrqOfUser, InIrqOfCall
  <2>8. \A t \in Owner : Len(stack[t]) <= 2
    BY DEF ContextInv, StackType
  <2> QED BY <2>5, <2>6, <2>7, <2>8 DEF CallUndisturbed
<1> QED BY <1>1, ContextInvariance, PTL

-----------------------------------------------------------------------------
(* One call of sleep, SleepCall, from any moment on, for every tick, every *)
(* word and all durations: a sleep within the count is not cut short.      *)

\* While a task polls, the clock shows its start plus the time since, as long as
\* that time is told exactly (since stops at WORD).
ClockFollows == pc = "polling" /\ since < WORD => get_millis = (Start + since) % WORD

\* wait_time is the start plus the duration, wrapped, so Start is in the word.
SleepInv == SleepTypeOK /\ ClockFollows

LEMMA StartRange ==
    ASSUME SleepTypeOK
    PROVE  Start \in 0..(WORD - 1) /\ (Start + asked) % WORD = wait_time
<1> DEFINE x == wait_time - asked
<1>1. x \in Int /\ asked \in Int /\ x + asked = wait_time /\ WORD \in Nat \ {0}
  BY WordAssumption DEF SleepTypeOK
<1>2. wait_time \in 0..(WORD - 1)
  BY DEF SleepTypeOK
<1> HIDE DEF x
<1>3. x % WORD \in 0..(WORD - 1)
  BY <1>1, Division
<1>4. ((x % WORD) + asked) % WORD = (x + asked) % WORD
  BY <1>1, ModAdd
<1>5. wait_time % WORD = wait_time
  BY <1>1, <1>2, ModSmall
<1> QED BY <1>1, <1>3, <1>4, <1>5 DEF Start, x

LEMMA MillisRange ==
    ASSUME SleepTypeOK
    PROVE  get_millis \in 0..(WORD - 1)
<1> DEFINE x == timer * OS_TIMER_RESOLUTION
<1>1. x \in Int
  BY ResolutionAssumption DEF SleepTypeOK
<1> HIDE DEF x
<1>2. x % WORD \in 0..(WORD - 1)
  BY <1>1, WordAssumption, Division
<1> QED BY <1>2 DEF get_millis, x

LEMMA InitSleep == SleepInit => SleepInv
BY WordAssumption DEF SleepInit, SleepInv, SleepTypeOK, ClockFollows

LEMMA CallSleep ==
    ASSUME SleepInv, NEW millis \in Request, sleep_syscall(millis)
    PROVE  SleepInv'
<1>1. millis \in 0..(WORD - 1) /\ WORD \in Nat \ {0}
  BY RequestAssumption, WordAssumption
<1>2. get_millis \in 0..(WORD - 1) /\ get_millis' = get_millis
  BY MillisRange DEF SleepInv, sleep_syscall, get_millis
<1>3. wait_time' = (get_millis + millis) % WORD /\ asked' = millis /\ since' = 0
  BY DEF sleep_syscall, Deadline
<1> DEFINE x == get_millis + millis
<1>4. x \in Int /\ x - millis = get_millis
  BY <1>1, <1>2
<1>5. x % WORD \in 0..(WORD - 1)
  <2> HIDE DEF x
  <2> QED BY <1>1, <1>4, Division
<1>6. Start' = get_millis
  <2> DEFINE y == -millis
  <2>1. y \in Int /\ x + y = get_millis
    BY <1>1, <1>2
  <2>2. wait_time' - asked' = (x % WORD) + y
    <3> HIDE DEF x
    <3> QED BY <1>1, <1>3, <1>5 DEF x
  <2> HIDE DEF x, y
  <2>3. ((x % WORD) + y) % WORD = (x + y) % WORD
    BY <1>1, <1>4, <2>1, ModAdd
  <2>4. get_millis % WORD = get_millis
    BY <1>1, <1>2, ModSmall
  <2> QED BY <2>1, <2>2, <2>3, <2>4 DEF Start
<1>7. SleepTypeOK'
  <2> HIDE DEF x
  <2> QED BY <1>1, <1>3, <1>5 DEF x, SleepInv, SleepTypeOK, sleep_syscall
<1>8. (Start + since)' % WORD = get_millis'
  <2>1. Start' + since' = get_millis
    BY <1>2, <1>3, <1>6
  <2> QED BY <1>1, <1>2, <2>1, ModSmall
<1> QED BY <1>7, <1>8 DEF SleepInv, ClockFollows

LEMMA TickSleep ==
    ASSUME SleepInv, timer_handler
    PROVE  SleepInv'
<1> DEFINE R == OS_TIMER_RESOLUTION
<1>1. R \in Nat \ {0} /\ WORD \in Nat \ {0} /\ timer \in 0..(WORD - 1) /\ since \in 0..WORD
  BY ResolutionAssumption, WordAssumption DEF SleepInv, SleepTypeOK
<1>2. timer' = (timer + 1) % WORD /\ timer' \in 0..(WORD - 1)
  <2>1. timer + 1 \in Int
    BY <1>1
  <2> QED BY <1>1, <2>1, Division DEF timer_handler
<1>3. SleepTypeOK'
  BY <1>1, <1>2 DEF SleepInv, SleepTypeOK, timer_handler
<1>4. ASSUME pc' = "polling", since' < WORD
      PROVE  get_millis' = (Start' + since') % WORD
  <2>1. since' = since + R /\ since < WORD /\ Start' = Start /\ pc = "polling"
    BY <1>1, <1>4 DEF timer_handler, Start
  <2>2. get_millis = (Start + since) % WORD
    BY <2>1 DEF SleepInv, ClockFollows
  <2>3. get_millis' = (get_millis + R) % WORD
    BY <1>1, <1>2, NextTick DEF get_millis
  <2> DEFINE x == Start + since
  <2>4. x \in Int /\ R \in Int /\ x + R = Start' + since'
    BY <1>1, <2>1, StartRange DEF SleepInv
  <2> HIDE DEF x, R
  <2>5. ((x % WORD) + R) % WORD = (x + R) % WORD
    BY <1>1, <2>4, ModAdd
  <2> QED BY <2>2, <2>3, <2>4, <2>5 DEF x
<1> QED BY <1>3, <1>4 DEF SleepInv, ClockFollows

LEMMA StepSleep == SleepInv /\ [SleepNext]_sleep_vars => SleepInv'
<1> SUFFICES ASSUME SleepInv, [SleepNext]_sleep_vars PROVE SleepInv'
  OBVIOUS
<1>1. CASE Return
  BY <1>1 DEF Return, SleepInv, SleepTypeOK, ClockFollows, Start, get_millis
<1>2. CASE timer_handler
  BY <1>2, TickSleep
<1>3. ASSUME NEW millis \in Request, sleep_syscall(millis) PROVE SleepInv'
  BY <1>3, CallSleep
<1>4. CASE UNCHANGED sleep_vars
  BY <1>4 DEF sleep_vars, SleepInv, SleepTypeOK, ClockFollows, Start, get_millis
<1> QED BY <1>1, <1>2, <1>3, <1>4 DEF SleepNext

\* A task that leaves its poll has slept as long as it asked to, or its wake-up time
\* had wrapped (time.c:25-29), however the tick divides the word and whenever it polls.
THEOREM SleepLasts == SleepSpec => EarlyOnlyAcrossWrap
<1> DEFINE Kept == pc = "polling" /\ pc' = "user" => since >= asked \/ Start + asked >= WORD
<1>1. SleepInv /\ [SleepNext]_sleep_vars => [Kept]_sleep_vars
  <2> SUFFICES ASSUME SleepInv, SleepNext, pc = "polling", pc' = "user"
               PROVE  since >= asked \/ Start + asked >= WORD
    OBVIOUS
  <2>0. since \in Int /\ asked \in Int /\ Start + asked \in Int /\ WORD \in Int
    BY StartRange, WordAssumption DEF SleepInv, SleepTypeOK
  <2> SUFFICES ASSUME since < asked, Start + asked < WORD PROVE FALSE
    BY <2>0
  <2>1. get_millis >= wait_time
    BY DEF SleepNext, Return, Expired, timer_handler, sleep_syscall
  <2>2. /\ Start \in 0..(WORD - 1) /\ (Start + asked) % WORD = wait_time
        /\ asked \in 0..(WORD - 1) /\ since \in 0..WORD /\ WORD \in Nat \ {0}
    BY StartRange, WordAssumption DEF SleepInv, SleepTypeOK
  <2>3. Start + asked \in 0..(WORD - 1) /\ Start + since \in 0..(WORD - 1) /\ since < WORD
    BY <2>2
  <2>4. wait_time = Start + asked
    BY <2>2, <2>3, ModSmall
  <2>5. get_millis = Start + since
    <3>1. get_millis = (Start + since) % WORD
      BY <2>3 DEF SleepInv, ClockFollows
    <3> QED BY <2>2, <2>3, <3>1, ModSmall
  <2> QED BY <2>1, <2>2, <2>4, <2>5
<1>2. SleepSpec => []SleepInv
  BY InitSleep, StepSleep, PTL DEF SleepSpec
<1> QED BY <1>1, <1>2, PTL DEF SleepSpec, EarlyOnlyAcrossWrap
=============================================================================
