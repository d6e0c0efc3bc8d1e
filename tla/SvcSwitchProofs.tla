--------------------------- MODULE SvcSwitchProofs ---------------------------
(***************************************************************************)
(* For any tasks, call sites and tables, the switch is invisible: the      *)
(* invariants of SvcSwitch hold, and it implements SystemCalls.            *)
(***************************************************************************)
EXTENDS SvcSwitch, TLAPS

\* A thread that is off the CPU has its two frames on top of its stack.
SavedContexts ==
  \A t \in Threads : t # current =>
    LET stack == mem[t][stackTop[t].stack]
        used == stackTop[t].used
    IN /\ stack[used] \in [kind : {"switch"}, priv : BOOLEAN, r4 : Words]
       /\ stack[used - 1] \in [kind : {"exc"}, pc : Pcs, r0 : Words, r1 : Words,
                               ip : Words, lr : Words]

\* The registers of a user task wherever it is in its program or in a call, and
\* what the call has put aside on the kernel stack and in the task's struct.
UserContext(r, kern, ret) ==
  /\ r.pc.at \in UserCode \cup KernCode
  /\ r.priv <=> r.pc.at \in KernCode \ {"back"}
  /\ r.psp = IF r.pc.at = "c" THEN Sp("kern", 2)
             ELSE IF r.pc.at \in OnKernStack THEN Sp("kern", 1)
             ELSE Sp("user", 0)
  /\ r.pc.at \in {"svc", "top", "link", "psp", "call"} => r.r0 \in [arg : Sites]
  /\ r.pc.at = "svc" => r.pc.site \in Sites
  /\ r.pc.at = "c" => r.r4 \in [arg : Sites]
  /\ r.pc.at \in {"link", "psp"} => r.ip = Sp("kern", 1)
  /\ r.pc.at \in {"psp", "call", "c", "lr", "sp"} =>
       /\ kern[1] \in [kind : {"link"}, sp : Sps, lr : Words]
       /\ kern[1].sp = Sp("user", 0)
  /\ r.pc.at \in {"psp", "call", "sp"} => kern[1].lr = r.lr
  /\ r.pc.at = "c" => kern[2] \in [kind : {"call"}, r4 : Words]
  /\ r.pc.at \in KernCode => ret \in [at : {"after"}, site : Sites]
  /\ r.pc.at \in {"drop", "back"} => r.r1 = ret

UserContexts ==
  \A t \in UserTasks : UserContext(Regs(t), mem[t]["kern"], returnPc[t])

\* The other threads.
KernContexts ==
  /\ \A t \in KernTasks :
       At(t) = "task" /\ Regs(t).priv /\ Regs(t).psp = Sp("kern", 0)
  /\ current = Boot => cpu.pc.at = "main"

\* The MPU holds the table of the running task.
MpuHoldsTable ==
  /\ current \in UserTasks => mpu.on /\ mpu.regions = Table(current)
  /\ current \in KernTasks => ~mpu.on

Machine ==
  /\ TypeOK
  /\ SavedContexts
  /\ UserContexts
  /\ KernContexts
  /\ MpuHoldsTable

-----------------------------------------------------------------------------
(* A switch.                                                               *)

\* Whatever the entries of a table are, they are words the MPU takes.
LEMMA TableType ==
  ASSUME NEW t \in UserTasks
  PROVE  Table(t) \in [0 .. Slots - 1 ->
           [base : Nat, size : 0 .. LastField, enable : BOOLEAN,
            rights : SUBSET {"read", "write", "exec"}]]
<1> DEFINE Entries == [base : Nat, size : 0 .. LastField, enable : BOOLEAN,
                       rights : SUBSET {"read", "write", "exec"}]
<1>1. Blank \in Entries
  BY SwitchAssumption DEF Blank
<1>2. ASSUME NEW i \in DOMAIN Asked[t] PROVE EntrySet(Asked[t][i]) \in Entries
  <2>1. Asked[t][i].base \in Nat
    BY AskedAssumption
  <2>2. CASE SizeFields(Asked[t][i].size) = {}
    BY <1>1, <2>2 DEF EntrySet
  <2>3. CASE SizeFields(Asked[t][i].size) # {}
    <3>1. (CHOOSE k \in SizeFields(Asked[t][i].size) : TRUE) \in 0 .. LastField
      BY <2>3, SwitchAssumption DEF SizeFields
    <3>2. Rights(Asked[t][i].prot) \in SUBSET {"read", "write", "exec"}
      BY DEF Rights
    <3>3. QED
      BY <1>1, <2>1, <3>1, <3>2 DEF EntrySet
  <2>4. QED
    BY <2>2, <2>3
<1>3. QED
  BY <1>1, <1>2 DEF Table

\* The frames PendSV pushes hold the registers of the thread it interrupts.
LEMMA SaveFacts ==
  ASSUME Machine, current # Boot
  PROVE  /\ current \in Threads
         /\ cpu.psp.stack \in {"user", "kern"} /\ cpu.psp.used \in 0 .. 2
         /\ Saved \in [Threads -> [{"user", "kern"} -> [1 .. Depth -> Frames]]]
         /\ SavedTop \in [Threads -> [stack : {"user", "kern"}, used : 2 .. Depth]]
         /\ \A t \in Threads \ {current} :
              Saved[t] = mem[t] /\ SavedTop[t] = stackTop[t]
         /\ SavedTop[current] = Sp(cpu.psp.stack, cpu.psp.used + 2)
         /\ Saved[current][cpu.psp.stack][cpu.psp.used + 2] = SwitchFrame(cpu)
         /\ Saved[current][cpu.psp.stack][cpu.psp.used + 1] = ExcFrame(cpu)
         /\ \A st \in {"user", "kern"}, i \in 1 .. Depth :
              \/ st = cpu.psp.stack /\ i \in {cpu.psp.used + 1, cpu.psp.used + 2}
              \/ Saved[current][st][i] = mem[current][st][i]
         /\ Unstacked(Saved[current], SavedTop[current]) = cpu
<1>1. current \in Threads
  BY DEF Machine, TypeOK
<1>2. cpu.psp.stack \in {"user", "kern"} /\ cpu.psp.used \in 0 .. 2
  <2>1. Regs(current) = cpu
    BY DEF Regs
  <2>2. CASE current \in UserTasks
    BY <2>1, <2>2 DEF Machine, UserContexts, UserContext, Sp
  <2>3. CASE current \in KernTasks
    BY <2>1, <2>3 DEF Machine, KernContexts, Sp
  <2>4. QED
    BY <1>1, <2>2, <2>3 DEF Threads
<1>3. /\ ExcFrame(cpu) \in Frames /\ SwitchFrame(cpu) \in Frames
      /\ cpu \in Registers
  BY DEF Machine, TypeOK, Registers, ExcFrame, SwitchFrame, Frames
<1>4. cpu.psp.used + 1 \in 1 .. Depth /\ cpu.psp.used + 2 \in 2 .. Depth
  BY <1>2 DEF Depth
<1> DEFINE stack == [mem[current][cpu.psp.stack] EXCEPT
                       ![cpu.psp.used + 1] = ExcFrame(cpu),
                       ![cpu.psp.used + 2] = SwitchFrame(cpu)]
<1>5. mem \in [Threads -> [{"user", "kern"} -> [1 .. Depth -> Frames]]]
  BY DEF Machine, TypeOK
<1>5a. mem[current][cpu.psp.stack] \in [1 .. Depth -> Frames]
  BY <1>1, <1>2, <1>5
<1>5b. /\ cpu.psp.used + 1 # cpu.psp.used + 2
       /\ cpu.psp.used + 2 \in 1 .. Depth
  BY <1>2 DEF Depth
<1>6. /\ stack \in [1 .. Depth -> Frames]
      /\ stack[cpu.psp.used + 2] = SwitchFrame(cpu)
      /\ stack[cpu.psp.used + 1] = ExcFrame(cpu)
      /\ \A i \in 1 .. Depth : i \in {cpu.psp.used + 1, cpu.psp.used + 2}
           \/ stack[i] = mem[current][cpu.psp.stack][i]
  BY <1>3, <1>4, <1>5a, <1>5b
<1>7. Saved = [mem EXCEPT ![current] =
                 [mem[current] EXCEPT ![cpu.psp.stack] = stack]]
  BY <1>1, <1>2, <1>5 DEF Saved
<1> HIDE DEF stack
<1>8. /\ Saved \in [Threads -> [{"user", "kern"} -> [1 .. Depth -> Frames]]]
      /\ Saved[current][cpu.psp.stack] = stack
      /\ \A st \in {"user", "kern"} :
           st # cpu.psp.stack => Saved[current][st] = mem[current][st]
      /\ \A t \in Threads \ {current} : Saved[t] = mem[t]
  BY <1>1, <1>2, <1>5, <1>6, <1>7
<1>9. /\ SavedTop \in [Threads -> [stack : {"user", "kern"}, used : 2 .. Depth]]
      /\ \A t \in Threads \ {current} : SavedTop[t] = stackTop[t]
      /\ SavedTop[current] = Sp(cpu.psp.stack, cpu.psp.used + 2)
  BY <1>1, <1>2, <1>4 DEF Machine, TypeOK, SavedTop, Sp
<1>10. Unstacked(Saved[current], SavedTop[current]) = cpu
  <2>1. cpu = [pc |-> cpu.pc, r0 |-> cpu.r0, r1 |-> cpu.r1, ip |-> cpu.ip,
               lr |-> cpu.lr, r4 |-> cpu.r4, priv |-> cpu.priv, psp |-> cpu.psp]
    BY <1>3 DEF Registers
  <2>2. cpu.psp = [stack |-> cpu.psp.stack, used |-> cpu.psp.used]
    BY <1>3 DEF Registers, Sps
  <2>3. (cpu.psp.used + 2) - 1 = cpu.psp.used + 1
         /\ (cpu.psp.used + 2) - 2 = cpu.psp.used
    BY <1>2
  <2>4. /\ SavedTop[current].stack = cpu.psp.stack
        /\ SavedTop[current].used = cpu.psp.used + 2
    BY <1>9 DEF Sp
  <2>5. /\ Saved[current][SavedTop[current].stack][SavedTop[current].used]
             = SwitchFrame(cpu)
        /\ Saved[current][SavedTop[current].stack][SavedTop[current].used - 1]
             = ExcFrame(cpu)
        /\ Sp(SavedTop[current].stack, SavedTop[current].used - 2) = cpu.psp
    BY <1>6, <1>8, <2>2, <2>3, <2>4 DEF Sp
  <2>6. QED
    BY <2>1, <2>5 DEF Unstacked, ExcFrame, SwitchFrame
<1>11. QED
  BY <1>1, <1>2, <1>6, <1>8, <1>9, <1>10

\* The same from main, which has no stack of its own to save to.
LEMMA SaveAny ==
  ASSUME Machine
  PROVE  /\ Saved \in [Threads -> [{"user", "kern"} -> [1 .. Depth -> Frames]]]
         /\ SavedTop \in [Threads -> [stack : {"user", "kern"}, used : 2 .. Depth]]
         /\ \A t \in Threads :
              /\ Unstacked(Saved[t], SavedTop[t]) = Regs(t)
              /\ Regs(t).psp = Sp(SavedTop[t].stack, SavedTop[t].used - 2)
              /\ LET stack == Saved[t][SavedTop[t].stack]
                     used == SavedTop[t].used
                 IN /\ stack[used] \in [kind : {"switch"}, priv : BOOLEAN, r4 : Words]
                    /\ stack[used - 1] \in [kind : {"exc"}, pc : Pcs, r0 : Words,
                                            r1 : Words, ip : Words, lr : Words]
              /\ \A i \in 1 .. Depth :
                   \/ SavedTop[t].stack = "kern" /\ i > SavedTop[t].used - 2
                   \/ Saved[t]["kern"][i] = mem[t]["kern"][i]
<1>1. CASE current = Boot
  <2>1. Saved = mem /\ SavedTop = stackTop
    BY <1>1 DEF Saved, SavedTop
  <2>2. ASSUME NEW t \in Threads PROVE t # current
    BY <1>1, SwitchAssumption DEF Threads
  <2>3. QED
    BY <2>1, <2>2 DEF Machine, TypeOK, SavedContexts, Regs, Unstacked
<1>2. CASE current # Boot
  <2>1. ASSUME NEW t \in Threads, t # current
        PROVE  Saved[t] = mem[t] /\ SavedTop[t] = stackTop[t]
    BY <1>2, <2>1, SaveFacts
  <2>2. ASSUME NEW t \in Threads
        PROVE  Unstacked(Saved[t], SavedTop[t]) = Regs(t)
    BY <1>2, <2>1, SaveFacts DEF Regs
  <2>3. ASSUME NEW t \in Threads
        PROVE  Regs(t).psp = Sp(SavedTop[t].stack, SavedTop[t].used - 2)
    BY <2>2 DEF Unstacked
  <2>4. ASSUME NEW t \in Threads
        PROVE  LET stack == Saved[t][SavedTop[t].stack]
                   used == SavedTop[t].used
               IN /\ stack[used] \in [kind : {"switch"}, priv : BOOLEAN, r4 : Words]
                  /\ stack[used - 1] \in [kind : {"exc"}, pc : Pcs, r0 : Words,
                                          r1 : Words, ip : Words, lr : Words]
    <3>1. CASE t # current
      BY <2>1, <3>1 DEF Machine, SavedContexts
    <3>2. CASE t = current
      <4>1. /\ ExcFrame(cpu) \in [kind : {"exc"}, pc : Pcs, r0 : Words,
                                   r1 : Words, ip : Words, lr : Words]
            /\ SwitchFrame(cpu) \in [kind : {"switch"}, priv : BOOLEAN, r4 : Words]
        BY DEF Machine, TypeOK, Registers, ExcFrame, SwitchFrame
      <4>2. /\ SavedTop[t].stack = cpu.psp.stack
            /\ SavedTop[t].used = cpu.psp.used + 2
            /\ SavedTop[t].used - 1 = cpu.psp.used + 1
        BY <1>2, <3>2, SaveFacts DEF Sp
      <4>3. QED
        BY <1>2, <3>2, <4>1, <4>2, SaveFacts
    <3>3. QED
      BY <3>1, <3>2
  <2>5. ASSUME NEW t \in Threads, NEW i \in 1 .. Depth
        PROVE  \/ SavedTop[t].stack = "kern" /\ i > SavedTop[t].used - 2
               \/ Saved[t]["kern"][i] = mem[t]["kern"][i]
    <3>1. CASE t # current
      BY <2>1, <3>1
    <3>2. CASE t = current
      <4>1. /\ SavedTop[t].stack = cpu.psp.stack
            /\ SavedTop[t].used - 2 = cpu.psp.used
        BY <1>2, <3>2, SaveFacts DEF Sp
      <4>2. \/ cpu.psp.stack = "kern" /\ i \in {cpu.psp.used + 1, cpu.psp.used + 2}
            \/ Saved[t]["kern"][i] = mem[t]["kern"][i]
        BY <1>2, <3>2, SaveFacts
      <4>3. cpu.psp.used \in 0 .. 2
        BY <1>2, SaveFacts
      <4>4. QED
        BY <4>1, <4>2, <4>3
    <3>3. QED
      BY <3>1, <3>2
  <2>6. QED
    BY <1>2, <2>2, <2>3, <2>4, <2>5, SaveFacts
<1>3. QED
  BY <1>1, <1>2

\* A switch moves registers between the CPU and the stacks, and no thread's
\* registers change.
LEMMA SwitchInvisible ==
  ASSUME Machine, NEW next \in Threads, Switch(next)
  PROVE  /\ \A t \in Threads : Regs(t)' = Regs(t)
         /\ \A t \in Threads, i \in 1 .. Depth :
              \/ Regs(t).psp.stack = "kern" /\ i > Regs(t).psp.used
              \/ mem'[t]["kern"][i] = mem[t]["kern"][i]
         /\ TypeOK'
         /\ SavedContexts'
<1> DEFINE sp == SavedTop[next]
<1>1. sp.stack \in {"user", "kern"} /\ sp.used \in 2 .. Depth
  BY SaveAny
<1>2. /\ mem' = [Saved EXCEPT ![next] = [Saved[next] EXCEPT ![sp.stack] =
                   [Saved[next][sp.stack] EXCEPT ![sp.used] = NoFrame,
                                                 ![sp.used - 1] = NoFrame]]]
      /\ current' = next /\ stackTop' = SavedTop
      /\ cpu' = Regs(next)
  <2>1. cpu' = Regs(next)
    BY SaveAny DEF Switch, Restored
  <2>2. QED
    BY <2>1, SaveAny, <1>1 DEF Switch, Popped
<1> DEFINE left == [Saved[next][sp.stack] EXCEPT ![sp.used] = NoFrame,
                                                 ![sp.used - 1] = NoFrame]
<1>3. /\ left \in [1 .. Depth -> Frames]
      /\ \A i \in 1 .. Depth : i \in {sp.used - 1, sp.used}
                                \/ left[i] = Saved[next][sp.stack][i]
  <2>1. Saved[next][sp.stack] \in [1 .. Depth -> Frames]
    BY <1>1, SaveAny
  <2>2. NoFrame \in Frames
    BY DEF Frames
  <2>3. QED
    BY <1>1, <2>1, <2>2 DEF Depth
<1> HIDE DEF left
<1>4. mem' = [Saved EXCEPT ![next] = [Saved[next] EXCEPT ![sp.stack] = left]]
  BY <1>2 DEF left
<1> HIDE DEF sp
<1>5. /\ mem' \in [Threads -> [{"user", "kern"} -> [1 .. Depth -> Frames]]]
      /\ \A t \in Threads \ {next} : mem'[t] = Saved[t]
      /\ mem'[next][sp.stack] = left
      /\ \A st \in {"user", "kern"} :
           st # sp.stack => mem'[next][st] = Saved[next][st]
  BY <1>1, <1>3, <1>4, SaveAny
<1>6. ASSUME NEW t \in Threads PROVE Regs(t)' = Regs(t)
  <2>1. CASE t = next
    BY <1>2, <2>1 DEF Regs
  <2>2. CASE t # next
    BY <1>2, <1>5, <2>2, SaveAny DEF Regs, Unstacked
  <2>3. QED
    BY <2>1, <2>2
<1>7. ASSUME NEW t \in Threads, NEW i \in 1 .. Depth
      PROVE  \/ Regs(t).psp.stack = "kern" /\ i > Regs(t).psp.used
             \/ mem'[t]["kern"][i] = mem[t]["kern"][i]
  <2>1. /\ Regs(t).psp.stack = SavedTop[t].stack
        /\ Regs(t).psp.used = SavedTop[t].used - 2
        /\ SavedTop[t].used \in 2 .. Depth
    <3>1. Regs(t).psp = Sp(SavedTop[t].stack, SavedTop[t].used - 2)
      BY SaveAny
    <3>2. SavedTop[t].used \in 2 .. Depth
      BY SaveAny
    <3>3. QED
      BY <3>1, <3>2 DEF Sp
  <2>2. \/ Regs(t).psp.stack = "kern" /\ i > Regs(t).psp.used
        \/ Saved[t]["kern"][i] = mem[t]["kern"][i]
    BY <2>1, SaveAny
  <2>3. CASE t # next
    BY <1>5, <2>2, <2>3
  <2>4. CASE t = next
    <3>1. CASE sp.stack = "kern" /\ i \in {sp.used - 1, sp.used}
      BY <1>1, <2>1, <2>4, <3>1 DEF sp, Depth
    <3>2. CASE ~(sp.stack = "kern" /\ i \in {sp.used - 1, sp.used})
      <4>1. mem'[t]["kern"][i] = Saved[t]["kern"][i]
        BY <1>1, <1>3, <1>5, <2>4, <3>2
      <4>2. QED
        BY <2>2, <4>1
    <3>3. QED
      BY <3>1, <3>2
  <2>5. QED
    BY <2>3, <2>4
<1>8. ASSUME NEW t \in Threads, t # next
      PROVE  LET stack == mem'[t][stackTop'[t].stack]
                 used == stackTop'[t].used
             IN /\ stack[used] \in [kind : {"switch"}, priv : BOOLEAN, r4 : Words]
                /\ stack[used - 1] \in [kind : {"exc"}, pc : Pcs, r0 : Words,
                                        r1 : Words, ip : Words, lr : Words]
  BY <1>2, <1>5, <1>8, SaveAny
<1>9. Regs(next) \in Registers
  <2>1. CASE next = current
    BY <2>1 DEF Regs, Machine, TypeOK
  <2>2. CASE next # current
    <3>1. Regs(next) = Unstacked(mem[next], stackTop[next])
      BY <2>2 DEF Regs
    <3>2. stackTop[next] \in [stack : {"user", "kern"}, used : 2 .. Depth]
      BY DEF Machine, TypeOK
    <3>3. Sp(stackTop[next].stack, stackTop[next].used - 2) \in Sps
      BY <3>2 DEF Sp, Sps, Depth
    <3>4. LET stack == mem[next][stackTop[next].stack]
              used == stackTop[next].used
          IN /\ stack[used] \in [kind : {"switch"}, priv : BOOLEAN, r4 : Words]
             /\ stack[used - 1] \in [kind : {"exc"}, pc : Pcs, r0 : Words,
                                     r1 : Words, ip : Words, lr : Words]
      BY <2>2 DEF Machine, SavedContexts
    <3> DEFINE sw == mem[next][stackTop[next].stack][stackTop[next].used]
               ex == mem[next][stackTop[next].stack][stackTop[next].used - 1]
    <3>5. /\ sw.priv \in BOOLEAN /\ sw.r4 \in Words /\ ex.pc \in Pcs
          /\ ex.r0 \in Words /\ ex.r1 \in Words /\ ex.ip \in Words /\ ex.lr \in Words
      BY <3>4
    <3>6. Regs(next) = [pc |-> ex.pc, r0 |-> ex.r0, r1 |-> ex.r1, ip |-> ex.ip,
                        lr |-> ex.lr, r4 |-> sw.r4, priv |-> sw.priv,
                        psp |-> Sp(stackTop[next].stack, stackTop[next].used - 2)]
      BY <3>1 DEF Unstacked
    <3> HIDE DEF sw, ex
    <3>7. QED
      BY <3>3, <3>5, <3>6 DEF Registers
  <2>3. QED
    BY <2>1, <2>2
<1>10. mpu' \in [on : BOOLEAN, regions : [0 .. Slots - 1 ->
                [base : Nat, size : 0 .. LastField, enable : BOOLEAN,
                 rights : SUBSET {"read", "write", "exec"}]]]
  <2>1. CASE next \in UserTasks
    <3>1. Programmed(mpu.regions, Table(next)) = Table(next)
      BY <2>1, TableType DEF Programmed
    <3>2. mpu' = [on |-> TRUE, regions |-> Table(next)]
      BY <2>1, <3>1 DEF Switch
    <3>3. QED
      BY <2>1, <3>2, TableType
  <2>2. CASE next \notin UserTasks
    BY <2>2 DEF Switch, Machine, TypeOK
  <2>3. QED
    BY <2>1, <2>2
<1>11. TypeOK'
  BY <1>2, <1>5, <1>9, <1>10, SaveAny DEF TypeOK, Machine, Switch
<1>12. QED
  BY <1>2, <1>6, <1>7, <1>8, <1>11 DEF SavedContexts

\* What a switch keeps besides.
LEMMA SwitchKeeps ==
  ASSUME Machine, NEW next \in Threads, Switch(next)
  PROVE  Machine'
<1>1. ASSUME NEW t \in UserTasks
      PROVE  UserContext(Regs(t), mem[t]["kern"], returnPc[t])'
  <2>1. Regs(t)' = Regs(t) /\ returnPc' = returnPc
    BY SwitchInvisible DEF Switch, Threads
  <2>2. UserContext(Regs(t), mem[t]["kern"], returnPc[t])
    BY DEF Machine, UserContexts
  <2>3. \A i \in 1 .. Depth : \/ Regs(t).psp.stack = "kern" /\ i > Regs(t).psp.used
                              \/ mem'[t]["kern"][i] = mem[t]["kern"][i]
    BY SwitchInvisible DEF Threads
  <2>4. /\ Regs(t).pc.at \in {"psp", "call", "c", "lr", "sp"} =>
             mem'[t]["kern"][1] = mem[t]["kern"][1]
        /\ Regs(t).pc.at = "c" => mem'[t]["kern"][2] = mem[t]["kern"][2]
    BY <2>2, <2>3 DEF UserContext, Sp, OnKernStack, Depth
  <2>5. QED
    BY <2>1, <2>2, <2>4 DEF UserContext
<1>2. KernContexts'
  <2>1. \A t \in KernTasks : Regs(t)' = Regs(t)
    BY SwitchInvisible DEF Threads
  <2>2. current' # Boot
    BY SwitchAssumption DEF Switch, Threads
  <2>3. QED
    BY <2>1, <2>2 DEF KernContexts, At, Machine
<1>3. MpuHoldsTable'
  <2>1. CASE next \in UserTasks
    <3>1. Programmed(mpu.regions, Table(next)) = Table(next)
      BY <2>1, TableType DEF Programmed
    <3>2. QED
      BY <2>1, <3>1, SwitchAssumption DEF MpuHoldsTable, Switch, Table
  <2>2. CASE next \notin UserTasks
    BY <2>2, SwitchAssumption DEF MpuHoldsTable, Switch, Machine, TypeOK
  <2>3. QED
    BY <2>1, <2>2
<1>4. QED
  BY <1>1, <1>2, <1>3, SwitchInvisible DEF Machine, UserContexts

-----------------------------------------------------------------------------
(* A step of the thread that runs.                                         *)

\* The other threads are where they were; the step is right if it keeps its
\* own stacks and registers in order.
LEMMA OwnStep ==
  ASSUME Machine, current \in UserTasks,
         current' = current, stackTop' = stackTop, mpu' = mpu,
         \A t \in Threads \ {current} : mem'[t] = mem[t],
         \A t \in UserTasks \ {current} : returnPc'[t] = returnPc[t],
         cpu' \in Registers,
         mem' \in [Threads -> [{"user", "kern"} -> [1 .. Depth -> Frames]]],
         returnPc' \in [UserTasks -> Pcs \cup {Junk}],
         UserContext(cpu', mem'[current]["kern"], returnPc'[current])
  PROVE  Machine'
<1>1. ASSUME NEW t \in Threads, t # current
      PROVE  Regs(t)' = Regs(t) /\ mem'[t] = mem[t]
  BY <1>1 DEF Regs, Unstacked
<1>2. Regs(current)' = cpu'
  BY DEF Regs
<1>3. TypeOK'
  BY DEF TypeOK, Machine
<1>4. SavedContexts'
  BY <1>1 DEF SavedContexts, Machine
<1>5. UserContexts'
  <2>1. ASSUME NEW t \in UserTasks
        PROVE  UserContext(Regs(t)', mem'[t]["kern"], returnPc'[t])
    <3>1. CASE t = current
      BY <3>1, <1>2
    <3>2. CASE t # current
      <4>1. UserContext(Regs(t), mem[t]["kern"], returnPc[t])
        BY DEF Machine, UserContexts
      <4>2. QED
        BY <1>1, <3>2, <4>1 DEF Threads
    <3>3. QED
      BY <3>1, <3>2
  <2>2. QED
    BY <2>1 DEF UserContexts, UserContext
<1>6. KernContexts'
  <2>1. \A t \in KernTasks : t # current /\ Regs(t)' = Regs(t)
    BY <1>1, SwitchAssumption DEF Threads
  <2>2. current' # Boot
    BY SwitchAssumption
  <2>3. QED
    BY <2>1, <2>2 DEF KernContexts, At, Machine
<1>7. MpuHoldsTable'
  BY DEF MpuHoldsTable, Machine, Table
<1>8. QED
  BY <1>3, <1>4, <1>5, <1>6, <1>7 DEF Machine
\* The running task, in one place.
LEMMA Running ==
  ASSUME Machine, current \in UserTasks
  PROVE  /\ UserContext(cpu, mem[current]["kern"], returnPc[current])
         /\ cpu \in Registers
         /\ current \in Threads
         /\ mem[current] \in [{"user", "kern"} -> [1 .. Depth -> Frames]]
         /\ returnPc[current] \in Pcs \cup {Junk}
         /\ KernPc("x").site = NoSite
<1>1. Regs(current) = cpu
  BY DEF Regs
<1>2. QED
  BY <1>1 DEF Machine, TypeOK, UserContexts, Threads, KernPc

\* What the call path writes are words and registers.
LEMMA Types ==
  /\ \A at \in KernCode : KernPc(at) \in Pcs /\ KernPc(at).at = at
  /\ \A at \in UserCode, s \in Sites : UserPc(at, s) \in Pcs
  /\ \A s \in {"user", "kern"}, n \in 0 .. Depth : Sp(s, n) \in Sps
  /\ Pcs \subseteq Words /\ Sps \subseteq Words /\ Junk \in Words
  /\ UserTasks \subseteq Words /\ Sites \subseteq Words
  /\ [arg : Sites] \subseteq Words /\ [result : Sites] \subseteq Words
BY DEF Pcs, Sps, Words, KernPc, UserPc, Sp, Depth, Threads


\* A register may be set to any word.
LEMMA SetRegister ==
  ASSUME NEW r \in Registers
  PROVE  /\ \A v \in Pcs : [r EXCEPT !.pc = v] \in Registers
         /\ \A v \in Words : /\ [r EXCEPT !.r0 = v] \in Registers
                             /\ [r EXCEPT !.r1 = v] \in Registers
                             /\ [r EXCEPT !.ip = v] \in Registers
                             /\ [r EXCEPT !.lr = v] \in Registers
                             /\ [r EXCEPT !.r4 = v] \in Registers
         /\ \A v \in BOOLEAN : [r EXCEPT !.priv = v] \in Registers
         /\ \A v \in Sps : [r EXCEPT !.psp = v] \in Registers
BY DEF Registers

\* ip is the top of the kernel stack.
LEMMA HandlerTopKeeps ==
  ASSUME Machine, HandlerTop
  PROVE  Machine'
<1>1. current \in UserTasks
  BY DEF HandlerTop, Step
<1>2. cpu' \in Registers
  <2>1. KernPc("link") \in Pcs
    BY Types DEF KernCode, OnKernStack
  <2>2. Sp("kern", 1) \in Words
    BY <1>1, Running, Types DEF HandlerTop, Step, UserContext, Sp, OnKernStack, Depth
  <2>3. [cpu EXCEPT !.pc = KernPc("link"), !.ip = Sp("kern", 1)] \in Registers
    BY <1>1, <2>1, <2>2, Running, SetRegister
  <2>4. QED
    BY <2>3 DEF HandlerTop, Step
<1>3. UserContext(cpu', mem'[current]["kern"], returnPc'[current])
  BY <1>1, Running, Types DEF HandlerTop, Step, UserContext, KernPc, Sp,
        KernCode, UserCode, OnKernStack
<1>4. QED
  BY <1>1, <1>2, <1>3, OwnStep DEF HandlerTop, Step, Machine, TypeOK

\* Onto the kernel stack.
LEMMA HandlerPspKeeps ==
  ASSUME Machine, HandlerPsp
  PROVE  Machine'
<1>1. current \in UserTasks
  BY DEF HandlerPsp, Step
<1>2. cpu' \in Registers
  <2>1. KernPc("call") \in Pcs
    BY Types DEF KernCode, OnKernStack
  <2>2. cpu.ip \in Sps
    BY <1>1, Running, Types DEF HandlerPsp, Step, UserContext, Sp, OnKernStack, Depth
  <2>3. [cpu EXCEPT !.pc = KernPc("call"), !.psp = cpu.ip] \in Registers
    BY <1>1, <2>1, <2>2, Running, SetRegister
  <2>4. QED
    BY <2>3 DEF HandlerPsp, Step
<1>3. UserContext(cpu', mem'[current]["kern"], returnPc'[current])
  BY <1>1, Running, Types DEF HandlerPsp, Step, UserContext, KernPc, Sp,
        KernCode, UserCode, OnKernStack
<1>4. QED
  BY <1>1, <1>2, <1>3, OwnStep DEF HandlerPsp, Step, Machine, TypeOK

\* lr as it was saved.
LEMMA HandlerLrKeeps ==
  ASSUME Machine, HandlerLr
  PROVE  Machine'
<1>1. current \in UserTasks
  BY DEF HandlerLr, Step
<1>2. cpu' \in Registers
  <2>1. KernPc("sp") \in Pcs
    BY Types DEF KernCode, OnKernStack
  <2>2. mem[current][cpu.psp.stack][cpu.psp.used].lr \in Words
    BY <1>1, Running, Types DEF HandlerLr, Step, UserContext, Sp, OnKernStack, Depth
  <2>3. [cpu EXCEPT !.pc = KernPc("sp"), !.lr = mem[current][cpu.psp.stack][cpu.psp.used].lr] \in Registers
    BY <1>1, <2>1, <2>2, Running, SetRegister
  <2>4. QED
    BY <2>3 DEF HandlerLr, Step
<1>3. UserContext(cpu', mem'[current]["kern"], returnPc'[current])
  BY <1>1, Running, Types DEF HandlerLr, Step, UserContext, KernPc, Sp,
        KernCode, UserCode, OnKernStack
<1>4. QED
  BY <1>1, <1>2, <1>3, OwnStep DEF HandlerLr, Step, Machine, TypeOK

\* The return address is in a register.
LEMMA HandlerRetaddrKeeps ==
  ASSUME Machine, HandlerRetaddr
  PROVE  Machine'
<1>1. current \in UserTasks
  BY DEF HandlerRetaddr, Step
<1>2. cpu' \in Registers
  BY <1>1, Running, Types, SetRegister DEF HandlerRetaddr, Step, KernCode,
        OnKernStack, Depth, ReturnSlot
<1>3. UserContext(cpu', mem'[current]["kern"], returnPc'[current])
  BY <1>1, Running, Types DEF HandlerRetaddr, Step, UserContext, KernPc, Sp,
        KernCode, UserCode, OnKernStack, ReturnSlot
<1>4. QED
  BY <1>1, <1>2, <1>3, OwnStep DEF HandlerRetaddr, Step, Machine, TypeOK

\* The privilege is gone.
LEMMA HandlerDropKeeps ==
  ASSUME Machine, HandlerDrop
  PROVE  Machine'
<1>1. current \in UserTasks
  BY DEF HandlerDrop, Step
<1>2. cpu' \in Registers
  BY <1>1, Running, Types, SetRegister DEF HandlerDrop, Step, KernCode,
        OnKernStack, Depth
<1>3. UserContext(cpu', mem'[current]["kern"], returnPc'[current])
  BY <1>1, Running, Types DEF HandlerDrop, Step, UserContext, KernPc, Sp,
        KernCode, UserCode, OnKernStack
<1>4. QED
  BY <1>1, <1>2, <1>3, OwnStep DEF HandlerDrop, Step, Machine, TypeOK

\* Back after the call.
LEMMA HandlerBackKeeps ==
  ASSUME Machine, HandlerBack
  PROVE  Machine'
<1>1. current \in UserTasks
  BY DEF HandlerBack, Step
<1>2. cpu' \in Registers
  <2>1. cpu.r1 \in Pcs /\ cpu.r1 \in Words
    BY <1>1, Running, Types DEF HandlerBack, Step, UserContext, KernCode, UserCode, Pcs
  <2>2. [cpu EXCEPT !.pc = cpu.r1, !.ip = cpu.r1, !.r1 = Junk] \in Registers
    BY <1>1, <2>1, Running, Types, SetRegister
  <2>3. QED
    BY <2>2 DEF HandlerBack, Step
<1>3. UserContext(cpu', mem'[current]["kern"], returnPc'[current])
  BY <1>1, Running, Types DEF HandlerBack, Step, UserContext, KernPc, Sp,
        KernCode, UserCode, OnKernStack
<1>4. QED
  BY <1>1, <1>2, <1>3, OwnStep DEF HandlerBack, Step, Machine, TypeOK

\* One slot of the running task's kernel stack is written.
LEMMA SetSlot ==
  ASSUME Machine, current \in UserTasks, NEW i \in 1 .. Depth, NEW f \in Frames,
         mem' = [mem EXCEPT ![current]["kern"][i] = f]
  PROVE  /\ mem' \in [Threads -> [{"user", "kern"} -> [1 .. Depth -> Frames]]]
         /\ \A t \in Threads \ {current} : mem'[t] = mem[t]
         /\ mem'[current]["kern"][i] = f
         /\ \A k \in 1 .. Depth \ {i} : mem'[current]["kern"][k] = mem[current]["kern"][k]
<1>1. /\ mem \in [Threads -> [{"user", "kern"} -> [1 .. Depth -> Frames]]]
      /\ current \in Threads
  BY Running DEF Machine, TypeOK
<1> DEFINE kern == [mem[current]["kern"] EXCEPT ![i] = f]
<1>2. /\ kern \in [1 .. Depth -> Frames] /\ kern[i] = f
      /\ \A k \in 1 .. Depth \ {i} : kern[k] = mem[current]["kern"][k]
  BY <1>1
<1>3. mem' = [mem EXCEPT ![current] = [mem[current] EXCEPT !["kern"] = kern]]
  BY <1>1
<1>4. [mem[current] EXCEPT !["kern"] = kern] \in [{"user", "kern"} -> [1 .. Depth -> Frames]]
      /\ [mem[current] EXCEPT !["kern"] = kern]["kern"] = kern
  <2> HIDE DEF kern
  <2>1. mem[current] \in [{"user", "kern"} -> [1 .. Depth -> Frames]]
    BY <1>1
  <2>2. QED
    BY <1>2, <2>1
<1> HIDE DEF kern
<1>5. mem'[current]["kern"] = kern
  BY <1>1, <1>3, <1>4
<1>6. QED
  BY <1>1, <1>2, <1>3, <1>4, <1>5

\* The way back is on the kernel stack.
LEMMA HandlerLinkKeeps ==
  ASSUME Machine, HandlerLink
  PROVE  Machine'
<1>1. current \in UserTasks /\ cpu.pc.at = "link" /\ cpu.ip = Sp("kern", 1)
  BY Running DEF HandlerLink, Step, UserContext
<1>2. cpu' = [cpu EXCEPT !.pc = KernPc("psp")] /\ cpu' \in Registers
  BY <1>1, Running, Types, SetRegister DEF HandlerLink, Step, KernCode
<1>3. LinkFrame(cpu) \in [kind : {"link"}, sp : Sps, lr : Words]
  BY <1>1, Running DEF LinkFrame, Registers
<1>4. mem' = [mem EXCEPT ![current]["kern"][1] = LinkFrame(cpu)]
  BY <1>1 DEF HandlerLink, Sp
<1>5. LinkFrame(cpu) \in Frames /\ 1 \in 1 .. Depth
  BY <1>3 DEF Frames, Depth
<1>6. LinkFrame(cpu).sp = Sp("user", 0) /\ LinkFrame(cpu).lr = cpu.lr
  BY <1>1, Running DEF LinkFrame, UserContext, OnKernStack
<1>7. UserContext(cpu', mem'[current]["kern"], returnPc'[current])
  <2>1. mem'[current]["kern"][1] = LinkFrame(cpu)
    BY <1>1, <1>4, <1>5, SetSlot
  <2>2. QED
    BY <1>1, <1>2, <1>3, <1>6, <2>1, Running
       DEF HandlerLink, UserContext, KernPc, KernCode, UserCode, OnKernStack, Registers
<1>8. QED
  BY <1>1, <1>2, <1>4, <1>5, <1>7, OwnStep, SetSlot DEF HandlerLink, Step, Machine, TypeOK

\* C saves a register.
LEMMA HandlerCallKeeps ==
  ASSUME Machine, HandlerCall
  PROVE  Machine'
<1>1. current \in UserTasks /\ cpu.pc.at = "call" /\ cpu.psp = Sp("kern", 1)
  BY Running DEF HandlerCall, Step, UserContext, OnKernStack
<1>2. /\ cpu' = [pc |-> KernPc("c"), r0 |-> Junk, r1 |-> Junk, ip |-> Junk, lr |-> Junk,
                 r4 |-> cpu.r0, priv |-> cpu.priv, psp |-> Sp("kern", 2)]
      /\ cpu.r0 \in Words /\ cpu.priv \in BOOLEAN
  <2>1. cpu = [pc |-> cpu.pc, r0 |-> cpu.r0, r1 |-> cpu.r1, ip |-> cpu.ip,
               lr |-> cpu.lr, r4 |-> cpu.r4, priv |-> cpu.priv, psp |-> cpu.psp]
         /\ cpu.r0 \in Words /\ cpu.priv \in BOOLEAN
    BY <1>1, Running DEF Registers
  <2>2. [cpu.psp EXCEPT !.used = @ + 1] = Sp("kern", 2)
    BY <1>1 DEF Sp
  <2>3. QED
    BY <1>1, <2>1, <2>2 DEF HandlerCall, Step
<1>3. KernPc("c") \in Pcs /\ Sp("kern", 2) \in Sps /\ KernPc("c").at = "c"
  BY Types DEF KernCode, OnKernStack, Depth
<1>4. cpu' \in Registers
  BY <1>2, <1>3, Types DEF Registers
<1>5. CallFrame(cpu) \in [kind : {"call"}, r4 : Words] /\ CallFrame(cpu) \in Frames
  BY <1>1, Running DEF CallFrame, Registers, Frames
<1>6. mem' = [mem EXCEPT ![current]["kern"][2] = CallFrame(cpu)] /\ 2 \in 1 .. Depth
  BY <1>1 DEF HandlerCall, Sp, Depth
<1>7. UserContext(cpu', mem'[current]["kern"], returnPc'[current])
  <2>1. /\ mem'[current]["kern"][2] = CallFrame(cpu)
        /\ mem'[current]["kern"][1] = mem[current]["kern"][1]
    <3>1. 1 \in 1 .. Depth \ {2}
      BY DEF Depth
    <3>2. QED
      BY <1>1, <1>5, <1>6, <3>1, SetSlot
  <2>2. QED
    BY <1>1, <1>2, <1>3, <1>5, <2>1, Running
       DEF HandlerCall, UserContext, KernCode, UserCode, OnKernStack
<1>8. QED
  BY <1>1, <1>4, <1>5, <1>6, <1>7, OwnStep, SetSlot DEF HandlerCall, Step, Machine, TypeOK

\* C returns.
LEMMA HandlerServeKeeps ==
  ASSUME Machine, HandlerServe
  PROVE  Machine'
<1>1. current \in UserTasks /\ cpu.pc.at = "c" /\ cpu.psp = Sp("kern", 2)
  BY Running DEF HandlerServe, Step, UserContext
<1>2. /\ cpu' = [pc |-> KernPc("lr"), r0 |-> [result |-> cpu.r4.arg], r1 |-> cpu.r1,
                 ip |-> cpu.ip, lr |-> cpu.lr, r4 |-> mem[current]["kern"][2].r4,
                 priv |-> cpu.priv, psp |-> Sp("kern", 1)]
      /\ cpu.r1 \in Words /\ cpu.ip \in Words /\ cpu.lr \in Words /\ cpu.priv \in BOOLEAN
  <2>1. cpu = [pc |-> cpu.pc, r0 |-> cpu.r0, r1 |-> cpu.r1, ip |-> cpu.ip,
               lr |-> cpu.lr, r4 |-> cpu.r4, priv |-> cpu.priv, psp |-> cpu.psp]
         /\ cpu.r1 \in Words /\ cpu.ip \in Words /\ cpu.lr \in Words /\ cpu.priv \in BOOLEAN
    BY <1>1, Running DEF Registers
  <2>2. [cpu.psp EXCEPT !.used = @ - 1] = Sp("kern", 1)
    BY <1>1 DEF Sp
  <2>3. mem[current][cpu.psp.stack][cpu.psp.used].r4 = mem[current]["kern"][2].r4
    BY <1>1 DEF Sp
  <2>4. QED
    BY <1>1, <2>1, <2>2, <2>3 DEF HandlerServe, Step
<1>3. KernPc("lr") \in Pcs /\ Sp("kern", 1) \in Sps /\ KernPc("lr").at = "lr"
  BY Types DEF KernCode, OnKernStack, Depth
<1>4. cpu' \in Registers
  <2>1. [result |-> cpu.r4.arg] \in Words
    BY <1>1, Running, Types DEF UserContext
  <2>2. mem[current]["kern"][2].r4 \in Words
    BY <1>1, Running DEF UserContext
  <2>3. QED
    BY <1>2, <1>3, <2>1, <2>2 DEF Registers
<1>5. mem' = [mem EXCEPT ![current]["kern"][2] = NoFrame] /\ 2 \in 1 .. Depth
      /\ NoFrame \in Frames
  BY <1>1 DEF HandlerServe, Sp, Depth, Frames
<1>6. UserContext(cpu', mem'[current]["kern"], returnPc'[current])
  <2>1. mem'[current]["kern"][1] = mem[current]["kern"][1]
    BY <1>1, <1>5, SetSlot DEF Depth
  <2>2. QED
    BY <1>1, <1>2, <1>3, <2>1, Running
       DEF HandlerServe, UserContext, KernCode, UserCode, OnKernStack
<1>7. QED
  BY <1>1, <1>4, <1>5, <1>6, OwnStep, SetSlot DEF HandlerServe, Step, Machine, TypeOK

\* Back on the user stack.
LEMMA HandlerSpKeeps ==
  ASSUME Machine, HandlerSp
  PROVE  Machine'
<1>1. current \in UserTasks /\ cpu.pc.at = "sp" /\ cpu.psp = Sp("kern", 1)
  BY Running DEF HandlerSp, Step, UserContext, OnKernStack
<1>2. UserSp = Sp("user", 0) /\ Sp("user", 0) \in Sps
  BY <1>1, Running, Types DEF UserContext, UserSp, Sp, Depth
<1>3. KernPc("retaddr") \in Pcs /\ KernPc("retaddr").at = "retaddr"
  BY Types DEF KernCode
<1>4. cpu' = [cpu EXCEPT !.pc = KernPc("retaddr"), !.psp = Sp("user", 0)]
  BY <1>2 DEF HandlerSp, Step
<1>5. cpu' \in Registers
  BY <1>1, <1>2, <1>3, <1>4, Running, SetRegister
<1>6. mem' = [mem EXCEPT ![current]["kern"][1] = NoFrame] /\ 1 \in 1 .. Depth
      /\ NoFrame \in Frames
  BY <1>1 DEF HandlerSp, Sp, Depth, Frames
<1>7. UserContext(cpu', mem'[current]["kern"], returnPc'[current])
  BY <1>1, <1>3, <1>4, Running
     DEF HandlerSp, UserContext, KernCode, UserCode, OnKernStack, Registers
<1>8. QED
  BY <1>1, <1>5, <1>6, <1>7, OwnStep, SetSlot DEF HandlerSp, Step, Machine, TypeOK

\* Into the kernel.
LEMMA SvcHandlerKeeps ==
  ASSUME Machine, SvcHandler
  PROVE  Machine'
<1>1. current \in UserTasks /\ cpu.pc.at = "svc"
  BY DEF SvcHandler, Step
<1>2. /\ cpu' = [cpu EXCEPT !.pc = KernPc("top"), !.priv = TRUE]
      /\ returnPc' = [returnPc EXCEPT ![current] = UserPc("after", cpu.pc.site)]
  BY DEF SvcHandler, Step, ReturnSlot, ExcFrame
<1>3. KernPc("top") \in Pcs /\ KernPc("top").at = "top"
  BY Types DEF KernCode
<1>4. cpu' \in Registers
  BY <1>1, <1>2, <1>3, Running, SetRegister
<1>5. /\ UserPc("after", cpu.pc.site) \in [at : {"after"}, site : Sites]
      /\ UserPc("after", cpu.pc.site) \in Pcs
  BY <1>1, Running, Types DEF UserContext, UserPc, UserCode
<1>6. returnPc' \in [UserTasks -> Pcs \cup {Junk}]
      /\ returnPc'[current] = UserPc("after", cpu.pc.site)
  BY <1>1, <1>2, <1>5 DEF Machine, TypeOK
<1>7. UserContext(cpu', mem'[current]["kern"], returnPc'[current])
  BY <1>1, <1>2, <1>3, <1>5, <1>6, Running
     DEF UserContext, KernCode, UserCode, OnKernStack, Registers
<1>8. QED
  BY <1>1, <1>2, <1>4, <1>6, <1>7, OwnStep DEF SvcHandler, Step, Machine, TypeOK

\* The program.
LEMMA UserRunKeeps ==
  ASSUME Machine, UserRun
  PROVE  Machine'
<1>1. current \in UserTasks /\ cpu.pc.at \in {"entry", "after"}
  BY DEF UserRun
<1>2. PICK s \in Sites :
        cpu' = [cpu EXCEPT !.pc = UserPc("svc", s), !.r0 = [arg |-> s],
                          !.r4 = current, !.lr = s, !.r1 = Junk, !.ip = Junk]
  BY DEF UserRun
<1>3. cpu' = [pc |-> UserPc("svc", s), r0 |-> [arg |-> s], r1 |-> Junk, ip |-> Junk,
              lr |-> s, r4 |-> current, priv |-> cpu.priv, psp |-> cpu.psp]
      /\ cpu.priv \in BOOLEAN /\ cpu.psp \in Sps
  BY <1>1, <1>2, Running DEF Registers
<1>4. UserPc("svc", s) \in Pcs /\ UserPc("svc", s).at = "svc" /\ UserPc("svc", s).site = s
  BY Types DEF UserCode, UserPc
<1>5. cpu' \in Registers
  BY <1>1, <1>3, <1>4, Types DEF Registers
<1>6. UserContext(cpu', mem'[current]["kern"], returnPc'[current])
  BY <1>1, <1>3, <1>4, Running
     DEF UserRun, UserContext, KernCode, UserCode, OnKernStack
<1>7. QED
  BY <1>1, <1>5, <1>6, OwnStep DEF UserRun, Machine, TypeOK

\* A kernel task's own registers.
LEMMA KernRunKeeps ==
  ASSUME Machine, KernRun
  PROVE  Machine'
<1>1. /\ current \in KernTasks /\ current \in Threads /\ current' = current
      /\ stackTop' = stackTop /\ mem' = mem /\ returnPc' = returnPc /\ mpu' = mpu
      /\ cpu' = [cpu EXCEPT !.r0 = Junk, !.r4 = current]
  BY DEF KernRun, Threads
<1>2. cpu \in Registers /\ current \in Words /\ Junk \in Words
  BY <1>1 DEF Machine, TypeOK, Words
<1>3. cpu' \in Registers
  BY <1>1, <1>2, SetRegister
<1>4. cpu'.pc = cpu.pc /\ cpu'.priv = cpu.priv /\ cpu'.psp = cpu.psp
  BY <1>1, <1>2 DEF Registers
<1>5. ASSUME NEW t \in Threads, t # current
      PROVE  Regs(t)' = Regs(t)
  BY <1>1, <1>5 DEF Regs, Unstacked
<1>6. TypeOK' /\ SavedContexts' /\ MpuHoldsTable'
  BY <1>1, <1>3 DEF Machine, TypeOK, SavedContexts, MpuHoldsTable, Table
<1>7. UserContexts'
  <2>1. \A t \in UserTasks : t # current /\ t \in Threads
    BY <1>1, SwitchAssumption DEF Threads
  <2>2. ASSUME NEW t \in UserTasks
        PROVE  UserContext(Regs(t)', mem'[t]["kern"], returnPc'[t])
    <3>1. UserContext(Regs(t), mem[t]["kern"], returnPc[t])
      BY DEF Machine, UserContexts
    <3>2. QED
      BY <1>1, <1>5, <2>1, <3>1
  <2>3. QED
    BY <2>2 DEF UserContexts, UserContext
<1>8. KernContexts'
  <2>1. ASSUME NEW t \in KernTasks
        PROVE  Regs(t)'.pc = Regs(t).pc /\ Regs(t)'.priv = Regs(t).priv
                 /\ Regs(t)'.psp = Regs(t).psp
    <3>1. CASE t = current
      BY <1>1, <1>4, <3>1 DEF Regs
    <3>2. CASE t # current
      BY <1>5, <3>2 DEF Threads
    <3>3. QED
      BY <3>1, <3>2
  <2>2. current' # Boot
    BY <1>1, SwitchAssumption
  <2>3. QED
    BY <2>1, <2>2 DEF Machine, KernContexts, At
<1>9. QED
  BY <1>6, <1>7, <1>8 DEF Machine

-----------------------------------------------------------------------------
(* The invariants.                                                         *)

\* It holds at the start.
LEMMA InitMachine == Init => Machine
<1> SUFFICES ASSUME Init PROVE Machine
  OBVIOUS
<1> DEFINE s0 == CHOOSE s \in Sites : TRUE
<1>1. s0 \in Sites
  BY SwitchAssumption
<1> HIDE DEF s0
<1> DEFINE first(t) ==
      [pc |-> IF t \in UserTasks THEN UserPc("entry", s0) ELSE KernPc("task"),
       r0 |-> Junk, r1 |-> Junk, ip |-> Junk, lr |-> Junk, r4 |-> Junk,
       priv |-> t \in KernTasks, psp |-> Sp(FirstStack(t), 0)]
<1>2. ASSUME NEW t \in Threads
      PROVE  /\ mem[t]["user"] \in [1 .. Depth -> Frames]
             /\ mem[t]["kern"] \in [1 .. Depth -> Frames]
             /\ mem[t][FirstStack(t)][1] = ExcFrame(first(t))
             /\ mem[t][FirstStack(t)][2] = SwitchFrame(first(t))
             /\ FirstStack(t) \in {"user", "kern"}
             /\ ExcFrame(first(t)) \in [kind : {"exc"}, pc : Pcs, r0 : Words,
                                        r1 : Words, ip : Words, lr : Words]
             /\ SwitchFrame(first(t)) \in [kind : {"switch"}, priv : BOOLEAN, r4 : Words]
  <2>1. first(t).pc \in Pcs
    BY <1>1 DEF Pcs, UserPc, KernPc, UserCode
  <2>2. /\ ExcFrame(first(t)) \in [kind : {"exc"}, pc : Pcs, r0 : Words,
                                   r1 : Words, ip : Words, lr : Words]
        /\ SwitchFrame(first(t)) \in [kind : {"switch"}, priv : BOOLEAN, r4 : Words]
    BY <2>1, Types DEF ExcFrame, SwitchFrame
  <2>3. FirstStack(t) \in {"user", "kern"}
    BY DEF FirstStack
  <2>4. /\ ExcFrame(first(t)) \in Frames /\ SwitchFrame(first(t)) \in Frames
        /\ NoFrame \in Frames
    BY <2>2 DEF Frames
  <2>5. \A st \in {"user", "kern"} :
          mem[t][st] = IF st = FirstStack(t) THEN FirstFrames(t, st)
                       ELSE [i \in 1 .. Depth |-> NoFrame]
    BY DEF Init
  <2>6. FirstFrames(t, FirstStack(t)) =
          [i \in 1 .. Depth |-> IF i = 1 THEN ExcFrame(first(t))
                                ELSE IF i = 2 THEN SwitchFrame(first(t)) ELSE NoFrame]
    BY DEF FirstFrames, s0
  <2> HIDE DEF first
  <2>7. QED
    BY <2>2, <2>3, <2>4, <2>5, <2>6 DEF Depth
<1>3. ASSUME NEW t \in Threads
      PROVE  /\ t # current
             /\ stackTop[t].stack = FirstStack(t) /\ stackTop[t].used = 2
             /\ Regs(t) = first(t)
  <2>1. t # current
    BY SwitchAssumption DEF Init, Threads
  <2>2. stackTop[t].stack = FirstStack(t) /\ stackTop[t].used = 2
    BY DEF Init, Sp
  <2>3. Regs(t) = Unstacked(mem[t], stackTop[t])
    BY <2>1 DEF Regs
  <2>4. /\ mem[t][stackTop[t].stack][stackTop[t].used] = SwitchFrame(first(t))
        /\ mem[t][stackTop[t].stack][stackTop[t].used - 1] = ExcFrame(first(t))
        /\ Sp(stackTop[t].stack, stackTop[t].used - 2) = first(t).psp
    <3>1. stackTop[t].used - 1 = 1 /\ stackTop[t].used - 2 = 0
      BY <2>2
    <3>2. first(t).psp = Sp(FirstStack(t), 0)
      OBVIOUS
    <3> HIDE DEF first
    <3>3. QED
      BY <1>2, <2>2, <3>1, <3>2
  <2>5. Regs(t) = first(t)
    BY <2>3, <2>4 DEF Unstacked, ExcFrame, SwitchFrame
  <2> HIDE DEF first
  <2>6. QED
    BY <2>1, <2>2, <2>5
<1>4. TypeOK
  <2>1. cpu \in Registers
    BY Types DEF Init, Registers, KernPc, Pcs, Sp, Sps, Depth
  <2>2. mem \in [Threads -> [{"user", "kern"} -> [1 .. Depth -> Frames]]]
    BY <1>2 DEF Init
  <2>3. stackTop \in [Threads -> [stack : {"user", "kern"}, used : 2 .. Depth]]
    BY DEF Init, Sp, FirstStack, Depth
  <2>4. Blank \in [base : Nat, size : 0 .. LastField, enable : BOOLEAN,
                   rights : SUBSET {"read", "write", "exec"}]
    BY SwitchAssumption DEF Blank
  <2>5. QED
    BY <2>1, <2>2, <2>3, <2>4 DEF TypeOK, Init
<1>5. SavedContexts
  <2>1. ASSUME NEW t \in Threads
        PROVE  /\ mem[t][stackTop[t].stack][stackTop[t].used]
                    \in [kind : {"switch"}, priv : BOOLEAN, r4 : Words]
               /\ mem[t][stackTop[t].stack][stackTop[t].used - 1]
                    \in [kind : {"exc"}, pc : Pcs, r0 : Words, r1 : Words,
                         ip : Words, lr : Words]
    <3>1. stackTop[t].stack = FirstStack(t) /\ stackTop[t].used = 2
          /\ stackTop[t].used - 1 = 1
      BY <1>3
    <3> HIDE DEF first
    <3>2. QED
      BY <1>2, <3>1
  <2>2. QED
    BY <2>1 DEF SavedContexts
<1>6. UserContexts
  <2>1. ASSUME NEW t \in UserTasks
        PROVE  UserContext(Regs(t), mem[t]["kern"], returnPc[t])
    <3>1. Regs(t) = first(t)
      BY <1>3 DEF Threads
    <3>2. first(t).pc.at = "entry" /\ ~first(t).priv /\ first(t).psp = Sp("user", 0)
      BY SwitchAssumption DEF UserPc, FirstStack
    <3>3. QED
      BY <3>1, <3>2 DEF UserContext, UserCode, KernCode, OnKernStack
  <2>2. QED
    BY <2>1 DEF UserContexts
<1>7. KernContexts
  <2>1. ASSUME NEW t \in KernTasks
        PROVE  At(t) = "task" /\ Regs(t).priv /\ Regs(t).psp = Sp("kern", 0)
    <3>1. Regs(t) = first(t)
      BY <1>3 DEF Threads
    <3>2. first(t).pc.at = "task" /\ first(t).priv /\ first(t).psp = Sp("kern", 0)
      BY SwitchAssumption DEF KernPc, FirstStack
    <3>3. QED
      BY <3>1, <3>2 DEF At
  <2>2. QED
    BY <2>1 DEF KernContexts, Init, KernPc
<1>8. MpuHoldsTable
  BY SwitchAssumption DEF MpuHoldsTable, Init
<1>9. QED
  BY <1>4, <1>5, <1>6, <1>7, <1>8 DEF Machine

\* Every step keeps the machine in order.
LEMMA NextMachine == Machine /\ [Next]_vars => Machine'
<1> SUFFICES ASSUME Machine, [Next]_vars PROVE Machine'
  OBVIOUS
<1>1. CASE UserRun
  BY <1>1, UserRunKeeps
<1>2. CASE KernRun
  BY <1>2, KernRunKeeps
<1>3. CASE SvcHandler
  BY <1>3, SvcHandlerKeeps
<1>4. CASE Handler
  BY <1>4, HandlerTopKeeps, HandlerLinkKeeps, HandlerPspKeeps, HandlerCallKeeps,
     HandlerServeKeeps, HandlerLrKeeps, HandlerSpKeeps, HandlerRetaddrKeeps,
     HandlerDropKeeps, HandlerBackKeeps DEF Handler
<1>5. CASE \E next \in Threads : Switch(next)
  BY <1>5, SwitchKeeps
<1>6. CASE UNCHANGED vars
  <2>1. \A t \in Threads : Regs(t)' = Regs(t)
    BY <1>6 DEF vars, Regs, Unstacked
  <2>2. TypeOK' /\ SavedContexts' /\ MpuHoldsTable'
    BY <1>6 DEF vars, Machine, TypeOK, SavedContexts, MpuHoldsTable, Table
  <2>3. KernContexts'
    BY <1>6, <2>1 DEF vars, Machine, KernContexts, At, Threads
  <2>4. UserContexts'
    <3>1. ASSUME NEW t \in UserTasks
          PROVE  UserContext(Regs(t)', mem'[t]["kern"], returnPc'[t])
      <4>1. UserContext(Regs(t), mem[t]["kern"], returnPc[t])
        BY DEF Machine, UserContexts
      <4>2. QED
        BY <1>6, <2>1, <4>1 DEF vars, Threads
    <3>2. QED
      BY <3>1 DEF UserContexts, UserContext
  <2>5. QED
    BY <2>2, <2>3, <2>4 DEF Machine
<1>7. QED
  BY <1>1, <1>2, <1>3, <1>4, <1>5, <1>6 DEF Next

\* And always.
LEMMA AlwaysMachine == Spec => []Machine
BY InitMachine, NextMachine, PTL DEF Spec

\* The types hold always.
THEOREM AlwaysTypeOK == Spec => []TypeOK
BY AlwaysMachine, PTL DEF Machine

\* Privilege is held in the kernel's part of a call and by kernel tasks, and
\* nowhere else: the registers of each thread say so wherever they are.
THEOREM AlwaysPrivilegeFollowsCode == Spec => []PrivilegeFollowsCode
<1>1. Machine => PrivilegeFollowsCode
  BY DEF Machine, UserContexts, UserContext, KernContexts, PrivilegeFollowsCode, At
<1>2. QED
  BY <1>1, AlwaysMachine, PTL

\* Stacks are balanced: each part of a call finds the stack pointer where the
\* part before it left it.
THEOREM AlwaysStacksBalanced == Spec => []StacksBalanced
<1>1. Machine => StacksBalanced
  BY DEF Machine, UserContexts, UserContext, StacksBalanced, At
<1>2. QED
  BY <1>1, AlwaysMachine, PTL

\* An entry opens what was asked for it, in cells of 32 bytes.
LEMMA EntryCells ==
  ASSUME NEW t \in UserTasks, NEW i \in DOMAIN Asked[t]
  PROVE  LET r == Asked[t][i]
             e == EntrySet(r)
             cells == {r.base \div MinRegion + k : k \in 0 .. r.size \div MinRegion - 1}
         IN IF e.enable THEN RegionCells(e) = cells /\ e.rights = Rights(r.prot)
            ELSE cells = {}
<1> DEFINE r == Asked[t][i]
<1>1. /\ \/ r.size = 0
         \/ /\ r.size \in Nat /\ r.size >= MinRegion
            /\ SizeFields(r.size) # {} /\ r.base % r.size = 0
  BY AskedAssumption
<1>2. CASE r.size = 0
  <2>1. EntrySet(r) = Blank /\ ~Blank.enable
    BY <1>2 DEF EntrySet, MinRegion, Blank
  <2>2. 0 .. r.size \div MinRegion - 1 = {}
    BY <1>2 DEF MinRegion
  <2>3. QED
    BY <2>1, <2>2
<1>3. CASE /\ r.size \in Nat /\ r.size >= MinRegion
           /\ SizeFields(r.size) # {} /\ r.base % r.size = 0
  <2> DEFINE f == CHOOSE k \in SizeFields(r.size) : TRUE
  <2>1. 2 ^ (f + 1) = r.size
    BY <1>3 DEF SizeFields
  <2>2. ~(r.size < MinRegion)
    BY <1>3 DEF MinRegion
  <2>3. EntrySet(r) = [base |-> r.base, size |-> f, enable |-> TRUE,
                       rights |-> Rights(r.prot)]
    BY <1>3, <2>2 DEF EntrySet
  <2> HIDE DEF f
  <2>4. QED
    BY <2>1, <2>3 DEF RegionCells
<1>4. QED
  BY <1>1, <1>2, <1>3

\* While a user task runs the MPU lets unprivileged code reach the memory asked
\* for it and nothing else; what the table before it held is gone.
THEOREM AlwaysMpuFollowsTask == Spec => []MpuFollowsTask
<1>1. Machine => MpuFollowsTask
  <2> SUFFICES ASSUME Machine PROVE MpuFollowsTask
    OBVIOUS
  <2>1. CASE current \in UserTasks
    <3> DEFINE t == current
               opened(i) == RegionCells(mpu.regions[i]) \X mpu.regions[i].rights
               asked(r) == {r.base \div MinRegion + k : k \in 0 .. r.size \div MinRegion - 1}
                             \X Rights(r.prot)
    <3>1. mpu.on /\ mpu.regions = Table(t)
      BY <2>1 DEF Machine, MpuHoldsTable
    <3>2. DOMAIN Asked[t] \subseteq 0 .. Slots - 1
      BY <2>1, AskedAssumption
    <3>3. ASSUME NEW i \in DOMAIN Asked[t]
          PROVE  mpu.regions[i] = EntrySet(Asked[t][i])
      BY <3>1, <3>2 DEF Table
    <3>4. ASSUME NEW i \in DOMAIN Asked[t]
          PROVE  IF mpu.regions[i].enable THEN opened(i) = asked(Asked[t][i])
                 ELSE asked(Asked[t][i]) = {}
      BY <2>1, <3>3, EntryCells
    <3>5. ASSUME NEW i \in 0 .. Slots - 1, i \notin DOMAIN Asked[t]
          PROVE  ~mpu.regions[i].enable
      BY <3>1, <3>5 DEF Table, Blank
    <3> HIDE DEF opened, asked, t
    <3>6. UNION {opened(i) : i \in {j \in 0 .. Slots - 1 : mpu.regions[j].enable}}
            = UNION {asked(r) : r \in {Asked[t][i] : i \in DOMAIN Asked[t]}}
      BY <3>2, <3>4, <3>5
    <3>7. QED
      BY <2>1, <3>1, <3>6, SwitchAssumption DEF opened, asked, t, Reach, MpuFollowsTask
  <2>2. CASE current \notin UserTasks
    BY <2>2 DEF MpuFollowsTask, Machine, MpuHoldsTable
  <2>3. QED
    BY <2>1, <2>2
<1>2. QED
  BY <1>1, AlwaysMachine, PTL

-----------------------------------------------------------------------------
(* The refinement.                                                         *)

\* What a program sees, from its context.
ContextMode(r) ==
  IF r.pc.at \in UserCode THEN "user"
  ELSE IF r.pc.at \in {"top", "link", "psp", "call", "c"} THEN "kernel"
  ELSE "served"

ContextView(r, kern, ret) ==
  LET back == IF r.pc.at \in {"drop", "back"} THEN r.r1 ELSE ret
  IN [pc |-> IF r.pc.at \in UserCode THEN r.pc ELSE [back EXCEPT !.at = "svc"],
      r0 |-> IF r.pc.at = "c" THEN r.r4 ELSE r.r0,
      r4 |-> IF r.pc.at = "c" THEN kern[2].r4 ELSE r.r4,
      lr |-> IF r.pc.at \in {"c", "lr"} THEN kern[1].lr ELSE r.lr]

\* What a program sees of the CPU depends on its registers, its kernel stack and
\* its return address only.
LEMMA Views ==
  ASSUME NEW t \in UserTasks
  PROVE  /\ ModeOf(t) = ContextMode(Regs(t))
         /\ ViewOf(t) = ContextView(Regs(t), mem[t]["kern"], returnPc[t])
BY DEF ModeOf, ViewOf, ContextMode, ContextView, At, ReturnSlot

\* A switch changes no program's view.
LEMMA SwitchStutters ==
  ASSUME Machine, NEW next \in Threads, Switch(next), NEW t \in UserTasks
  PROVE  ModeOf(t)' = ModeOf(t) /\ ViewOf(t)' = ViewOf(t)
<1>1. Regs(t)' = Regs(t) /\ returnPc' = returnPc
  BY SwitchInvisible DEF Switch, Threads
<1>2. UserContext(Regs(t), mem[t]["kern"], returnPc[t])
  BY DEF Machine, UserContexts
<1>3. \A i \in 1 .. Depth : \/ Regs(t).psp.stack = "kern" /\ i > Regs(t).psp.used
                            \/ mem'[t]["kern"][i] = mem[t]["kern"][i]
  BY SwitchInvisible DEF Threads
<1>4. /\ Regs(t).pc.at \in {"c", "lr"} => mem'[t]["kern"][1] = mem[t]["kern"][1]
      /\ Regs(t).pc.at = "c" => mem'[t]["kern"][2] = mem[t]["kern"][2]
  BY <1>2, <1>3 DEF UserContext, Sp, OnKernStack, Depth
<1>5. QED
  BY <1>1, <1>4 DEF ModeOf, ViewOf, At, ReturnSlot

\* Nor does a step of another thread.
LEMMA OthersStutter ==
  ASSUME current' = current, stackTop' = stackTop,
         NEW t \in UserTasks, t # current, mem'[t] = mem[t],
         returnPc'[t] = returnPc[t]
  PROVE  ModeOf(t)' = ModeOf(t) /\ ViewOf(t)' = ViewOf(t)
<1>1. Regs(t)' = Regs(t)
  BY DEF Regs, Unstacked
<1>2. QED
  BY <1>1 DEF ModeOf, ViewOf, At, ReturnSlot

\* The running task's view, before and after a step of its own.
LEMMA OwnViews ==
  ASSUME current \in UserTasks, current' = current
  PROVE  /\ ModeOf(current) = ContextMode(cpu)
         /\ ViewOf(current) = ContextView(cpu, mem[current]["kern"], returnPc[current])
         /\ ModeOf(current)' = ContextMode(cpu')
         /\ ViewOf(current)' = ContextView(cpu', mem'[current]["kern"], returnPc'[current])
BY DEF ModeOf, ViewOf, ContextMode, ContextView, At, ReturnSlot, Regs

\* Only the running task's memory changes on the call path, and its return
\* address only at the SVC.
LEMMA HandlerFrame ==
  ASSUME Machine, Handler
  PROVE  /\ current \in UserTasks /\ current' = current /\ stackTop' = stackTop
         /\ returnPc' = returnPc
         /\ \A t \in Threads \ {current} : mem'[t] = mem[t]
BY Running DEF Handler, HandlerTop, HandlerLink, HandlerPsp, HandlerCall, HandlerServe,
   HandlerLr, HandlerSp, HandlerRetaddr, HandlerDrop, HandlerBack, Step, Machine, TypeOK

\* The steps in which the kernel only moves registers.
Moving == \/ HandlerTop \/ HandlerLink \/ HandlerPsp \/ HandlerCall
          \/ HandlerLr \/ HandlerSp \/ HandlerRetaddr \/ HandlerDrop

\* They change no view: each register is where ViewOf looks for it.
LEMMA MovingStutters ==
  ASSUME Machine, Moving
  PROVE  /\ ContextMode(cpu') = ContextMode(cpu)
         /\ ContextView(cpu', mem'[current]["kern"], returnPc'[current])
              = ContextView(cpu, mem[current]["kern"], returnPc[current])
<1>1. /\ current \in UserTasks
      /\ UserContext(cpu, mem[current]["kern"], returnPc[current])
      /\ cpu \in Registers
  BY Running DEF Moving, HandlerTop, HandlerLink, HandlerPsp, HandlerCall,
     HandlerLr, HandlerSp, HandlerRetaddr, HandlerDrop, Step
<1> USE DEF Step, ContextMode, ContextView, UserCode, KernPc
<1>2. CASE HandlerTop
  BY <1>1, <1>2 DEF HandlerTop, Registers
<1>3. CASE HandlerLink
  BY <1>1, <1>3 DEF HandlerLink, Registers
<1>4. CASE HandlerPsp
  BY <1>1, <1>4 DEF HandlerPsp, Registers
<1>5. CASE HandlerCall
  <2>1. /\ cpu.pc.at = "call" /\ cpu.psp = Sp("kern", 1)
        /\ mem[current]["kern"][1].lr = cpu.lr
    BY <1>1, <1>5 DEF HandlerCall, UserContext, OnKernStack
  <2>2. mem' = [mem EXCEPT ![current]["kern"][2] = CallFrame(cpu)] /\ 2 \in 1 .. Depth
    BY <1>5, <2>1 DEF HandlerCall, Sp, Depth
  <2>3. CallFrame(cpu) \in Frames /\ CallFrame(cpu).r4 = cpu.r4
    BY <1>1 DEF CallFrame, Registers, Frames
  <2>4. 1 \in 1 .. Depth \ {2}
    BY DEF Depth
  <2>5. /\ mem'[current]["kern"][2] = CallFrame(cpu)
        /\ mem'[current]["kern"][1] = mem[current]["kern"][1]
    BY <1>1, <2>2, <2>3, <2>4, SetSlot
  <2>6. /\ cpu'.pc.at = "c" /\ cpu'.r4 = cpu.r0 /\ returnPc' = returnPc
    BY <1>1, <1>5 DEF HandlerCall, Registers
  <2>7. QED
    BY <2>1, <2>3, <2>5, <2>6
<1>6. CASE HandlerLr
  <2>1. cpu.pc.at = "lr" /\ cpu.psp = Sp("kern", 1)
    BY <1>1, <1>6 DEF HandlerLr, UserContext, OnKernStack
  <2>2. /\ cpu'.pc.at = "sp" /\ cpu'.lr = mem[current]["kern"][1].lr
        /\ cpu'.r0 = cpu.r0 /\ cpu'.r4 = cpu.r4 /\ UNCHANGED <<mem, returnPc>>
    BY <1>1, <1>6, <2>1 DEF HandlerLr, Registers, Sp
  <2>3. QED
    BY <1>6, <2>1, <2>2 DEF HandlerLr
<1>7. CASE HandlerSp
  BY <1>1, <1>7 DEF HandlerSp, Registers
<1>8. CASE HandlerRetaddr
  BY <1>1, <1>8 DEF HandlerRetaddr, Registers, ReturnSlot
<1>9. CASE HandlerDrop
  BY <1>1, <1>9 DEF HandlerDrop, Registers
<1>10. QED
  BY <1>2, <1>3, <1>4, <1>5, <1>6, <1>7, <1>8, <1>9 DEF Moving

\* A step that changes no view is no step of the programs.
LEMMA Stutters ==
  ASSUME \A t \in UserTasks : ModeOf(t)' = ModeOf(t) /\ ViewOf(t)' = ViewOf(t)
  PROVE  UNCHANGED Programs!vars
BY DEF Programs!vars

\* A step that changes one view.
LEMMA OneView ==
  ASSUME NEW t \in UserTasks, NEW m, NEW v,
         ModeOf(t)' = m, ViewOf(t)' = v,
         \A u \in UserTasks \ {t} : ModeOf(u)' = ModeOf(u) /\ ViewOf(u)' = ViewOf(u)
  PROVE  /\ [u \in UserTasks |-> ModeOf(u)'] = [[u \in UserTasks |-> ModeOf(u)] EXCEPT ![t] = m]
         /\ [u \in UserTasks |-> ViewOf(u)'] = [[u \in UserTasks |-> ViewOf(u)] EXCEPT ![t] = v]
OBVIOUS

\* Going to the next call, making it, being served and returning.
LEMMA RunRuns == ASSUME Machine, UserRun PROVE Programs!Run(current)
<1>1. /\ current \in UserTasks /\ cpu.pc.at \in {"entry", "after"} /\ current' = current
      /\ mem' = mem /\ returnPc' = returnPc /\ stackTop' = stackTop /\ cpu \in Registers
  BY Running DEF UserRun
<1>2. PICK s \in Sites :
        cpu' = [cpu EXCEPT !.pc = UserPc("svc", s), !.r0 = [arg |-> s],
                          !.r4 = current, !.lr = s, !.r1 = Junk, !.ip = Junk]
  BY DEF UserRun
<1>3. /\ cpu'.pc = UserPc("svc", s) /\ cpu'.pc.at = "svc" /\ cpu'.r0 = [arg |-> s]
      /\ cpu'.r4 = current /\ cpu'.lr = s
  BY <1>1, <1>2 DEF Registers, UserPc
<1>4. /\ ModeOf(current) = "user" /\ ModeOf(current)' = "user"
      /\ ViewOf(current).pc.at # "svc"
      /\ ViewOf(current)' = Programs!Calling(current, s)
  BY <1>1, <1>3, OwnViews DEF ContextMode, ContextView, UserCode, UserPc, Programs!Calling
<1>5. \A u \in UserTasks \ {current} : ModeOf(u)' = ModeOf(u) /\ ViewOf(u)' = ViewOf(u)
  BY <1>1, OthersStutter
<1>6. QED
  BY <1>1, <1>4, <1>5, OneView DEF Programs!Run

\* The SVC handler is where the call is made.
LEMMA SvcCalls == ASSUME Machine, SvcHandler PROVE Programs!Call(current)
<1>1. /\ current \in UserTasks /\ cpu.pc.at = "svc" /\ current' = current
      /\ mem' = mem /\ stackTop' = stackTop
      /\ UserContext(cpu, mem[current]["kern"], returnPc[current]) /\ cpu \in Registers
  BY Running DEF SvcHandler, Step
<1>2. /\ cpu' = [cpu EXCEPT !.pc = KernPc("top"), !.priv = TRUE]
      /\ returnPc' = [returnPc EXCEPT ![current] = UserPc("after", cpu.pc.site)]
  BY DEF SvcHandler, Step, ReturnSlot, ExcFrame
<1>3. /\ cpu'.pc.at = "top" /\ cpu'.r0 = cpu.r0 /\ cpu'.r4 = cpu.r4 /\ cpu'.lr = cpu.lr
  BY <1>1, <1>2 DEF Registers, KernPc
<1>4. /\ returnPc'[current] = UserPc("after", cpu.pc.site)
      /\ \A u \in UserTasks \ {current} : returnPc'[u] = returnPc[u]
  BY <1>1, <1>2 DEF Machine, TypeOK
<1>5. [UserPc("after", cpu.pc.site) EXCEPT !.at = "svc"] = cpu.pc
  BY <1>1 DEF Registers, Pcs, UserPc
<1>6. /\ ModeOf(current) = "user" /\ ModeOf(current)' = "kernel"
      /\ ViewOf(current).pc.at = "svc" /\ ViewOf(current)' = ViewOf(current)
  BY <1>1, <1>3, <1>4, <1>5, OwnViews DEF ContextMode, ContextView, UserCode
<1>7. \A u \in UserTasks \ {current} : ModeOf(u)' = ModeOf(u) /\ ViewOf(u)' = ViewOf(u)
  BY <1>1, <1>4, OthersStutter
<1>8. /\ [u \in UserTasks |-> ModeOf(u)']
           = [[u \in UserTasks |-> ModeOf(u)] EXCEPT ![current] = "kernel"]
      /\ [u \in UserTasks |-> ViewOf(u)']
           = [[u \in UserTasks |-> ViewOf(u)] EXCEPT ![current] = ViewOf(current)]
  BY <1>1, <1>6, <1>7, OneView
<1>9. [[u \in UserTasks |-> ViewOf(u)] EXCEPT ![current] = ViewOf(current)]
        = [u \in UserTasks |-> ViewOf(u)]
  BY <1>1
<1>10. QED
  BY <1>1, <1>6, <1>8, <1>9 DEF Programs!Call

\* The handler serves the call that was made.
LEMMA ServeServes == ASSUME Machine, HandlerServe PROVE Programs!Serve(current)
<1>1. /\ current \in UserTasks /\ cpu.pc.at = "c" /\ current' = current
      /\ returnPc' = returnPc /\ stackTop' = stackTop /\ cpu \in Registers
      /\ cpu.psp = Sp("kern", 2) /\ cpu.r4 \in [arg : Sites]
      /\ \A t \in Threads \ {current} : mem'[t] = mem[t]
  BY Running, HandlerFrame DEF HandlerServe, Step, UserContext, Handler
<1>2. /\ cpu'.pc.at = "lr" /\ cpu'.r0 = [result |-> cpu.r4.arg]
      /\ cpu'.r4 = mem[current]["kern"][2].r4 /\ cpu'.lr = cpu.lr
  BY <1>1 DEF HandlerServe, Step, Registers, KernPc, Sp
<1>3. mem' = [mem EXCEPT ![current]["kern"][2] = NoFrame] /\ 2 \in 1 .. Depth
      /\ NoFrame \in Frames /\ 1 \in 1 .. Depth \ {2}
  BY <1>1 DEF HandlerServe, Sp, Depth, Frames
<1>4. mem'[current]["kern"][1] = mem[current]["kern"][1]
  BY <1>1, <1>3, SetSlot
<1>5. /\ ModeOf(current) = "kernel" /\ ModeOf(current)' = "served"
      /\ ViewOf(current)' = [ViewOf(current) EXCEPT !.r0 = Programs!Result(@)]
  BY <1>1, <1>2, <1>4, OwnViews
     DEF ContextMode, ContextView, UserCode, Programs!Result
<1>6. \A u \in UserTasks \ {current} : ModeOf(u)' = ModeOf(u) /\ ViewOf(u)' = ViewOf(u)
  BY <1>1, OthersStutter DEF Threads
<1>7. QED
  BY <1>1, <1>5, <1>6, OneView DEF Programs!Serve

\* The way back returns to where the call was made.
LEMMA BackReturns == ASSUME Machine, HandlerBack PROVE Programs!Return(current)
<1>1. /\ current \in UserTasks /\ cpu.pc.at = "back" /\ current' = current /\ mem' = mem
      /\ returnPc' = returnPc /\ stackTop' = stackTop /\ cpu \in Registers
      /\ cpu.r1 \in [at : {"after"}, site : Sites]
  BY Running DEF HandlerBack, Step, UserContext, KernCode
<1>2. /\ cpu'.pc = cpu.r1 /\ cpu'.pc.at = "after"
      /\ cpu'.r0 = cpu.r0 /\ cpu'.r4 = cpu.r4 /\ cpu'.lr = cpu.lr
  BY <1>1 DEF HandlerBack, Step, Registers
<1>3. [[cpu.r1 EXCEPT !.at = "svc"] EXCEPT !.at = "after"] = cpu.r1
  BY <1>1
<1>4. /\ ModeOf(current) = "served" /\ ModeOf(current)' = "user"
      /\ ViewOf(current)' = [ViewOf(current) EXCEPT !.pc.at = "after"]
  BY <1>1, <1>2, <1>3, OwnViews DEF ContextMode, ContextView, UserCode
<1>5. \A u \in UserTasks \ {current} : ModeOf(u)' = ModeOf(u) /\ ViewOf(u)' = ViewOf(u)
  BY <1>1, OthersStutter
<1>6. QED
  BY <1>1, <1>4, <1>5, OneView DEF Programs!Return

\* Each program, sharing the CPU with all the others and with the kernel, runs
\* as if alone, and its calls return to it what the kernel computed for it.
THEOREM SvcSwitchImplementsSystemCalls == Spec => ImplementsSystemCalls
<1>1. Init => Programs!Init
  <2> SUFFICES ASSUME Init PROVE Programs!Init
    OBVIOUS
  <2>1. ASSUME NEW t \in UserTasks PROVE ModeOf(t) = "user" /\ ViewOf(t).pc.at = "entry"
    <3>1. /\ t # current /\ t \in Threads
      BY SwitchAssumption DEF Init, Threads
    <3>2. mem[t]["user"] = FirstFrames(t, "user") /\ stackTop[t] = Sp("user", 2)
      BY <3>1 DEF Init, FirstStack
    <3>3. Regs(t).pc = mem[t]["user"][1].pc
      BY <3>1, <3>2 DEF Regs, Unstacked, Sp
    <3>4. mem[t]["user"][1].pc.at = "entry"
      BY <3>2 DEF FirstFrames, ExcFrame, UserPc, Depth
    <3>5. QED
      BY <3>3, <3>4, Views DEF ContextMode, ContextView, UserCode
  <2>2. QED
    BY <2>1 DEF Programs!Init
<1>2. Machine /\ [Next]_vars => [Programs!Next]_(Programs!vars)
  <2> SUFFICES ASSUME Machine, [Next]_vars
               PROVE  Programs!Next \/ UNCHANGED Programs!vars
    OBVIOUS
  <2>1. CASE UserRun
    BY <2>1, RunRuns DEF Programs!Next, UserRun
  <2>2. CASE SvcHandler
    BY <2>2, SvcCalls DEF Programs!Next, SvcHandler, Step
  <2>3. CASE HandlerServe
    BY <2>3, ServeServes DEF Programs!Next, HandlerServe, Step
  <2>4. CASE HandlerBack
    BY <2>4, BackReturns DEF Programs!Next, HandlerBack, Step
  <2>5. CASE Moving
    <3>1. Handler
      BY <2>5 DEF Moving, Handler
    <3>2. ModeOf(current)' = ModeOf(current) /\ ViewOf(current)' = ViewOf(current)
      BY <2>5, <3>1, HandlerFrame, MovingStutters, OwnViews
    <3>3. \A t \in UserTasks \ {current} : ModeOf(t)' = ModeOf(t) /\ ViewOf(t)' = ViewOf(t)
      BY <3>1, HandlerFrame, OthersStutter DEF Threads
    <3>4. /\ [u \in UserTasks |-> ModeOf(u)']
               = [[u \in UserTasks |-> ModeOf(u)] EXCEPT ![current] = ModeOf(current)]
          /\ [u \in UserTasks |-> ViewOf(u)']
               = [[u \in UserTasks |-> ViewOf(u)] EXCEPT ![current] = ViewOf(current)]
      BY <3>1, <3>2, <3>3, HandlerFrame, OneView
    <3>5. QED
      BY <3>1, <3>4, HandlerFrame DEF Programs!vars
  <2>6. CASE KernRun
    <3>1. \A t \in UserTasks : t # current
      BY <2>6, SwitchAssumption DEF KernRun
    <3>2. \A t \in UserTasks : ModeOf(t)' = ModeOf(t) /\ ViewOf(t)' = ViewOf(t)
      BY <2>6, <3>1, OthersStutter DEF KernRun
    <3>3. QED
      BY <3>2, Stutters
  <2>7. CASE \E next \in Threads : Switch(next)
    BY <2>7, SwitchStutters, Stutters
  <2>8. CASE UNCHANGED vars
    <3>1. \A t \in UserTasks : ModeOf(t)' = ModeOf(t) /\ ViewOf(t)' = ViewOf(t)
      BY <2>8 DEF vars, ModeOf, ViewOf, At, Regs, Unstacked, ReturnSlot
    <3>2. QED
      BY <3>1, Stutters
  <2>9. QED
    BY <2>1, <2>2, <2>3, <2>4, <2>5, <2>6, <2>7, <2>8 DEF Next, Handler, Moving
<1>3. QED
  BY <1>1, <1>2, AlwaysMachine, PTL DEF Spec, ImplementsSystemCalls, Programs!Spec
=============================================================================
