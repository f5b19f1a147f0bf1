------------------------ MODULE SdccCriticalProofs ------------------------
(***************************************************************************)
(* Critical code is never interrupted and restores EA, for any depth of    *)
(* nesting, and results in the carry survive the way back.                 *)
(***************************************************************************)
EXTENDS SdccCritical, TLAPS

-----------------------------------------------------------------------------
(* The emitted code as a table.                                            *)

LEMMA CodeLengths ==
  /\ DOMAIN Code = {"main", "function", "bit_function", "statement", "isr", "critical_isr"}
  /\ DOMAIN Code["main"] = 1 .. 1
  /\ DOMAIN Code["function"] = 1 .. 8
  /\ DOMAIN Code["bit_function"] = 1 .. 10
  /\ DOMAIN Code["statement"] = 1 .. 7
  /\ DOMAIN Code["isr"] = 1 .. 6
  /\ DOMAIN Code["critical_isr"] = 1 .. 8
BY DEF Code, Main, CriticalFunction, CriticalBitFunction, CriticalStatement,
       InterruptRoutine, CriticalInterruptRoutine

LEMMA CodeOfFunction ==
  /\ Code["function"][1] = "setb_c" /\ Code["function"][2] = "jbc_ea"
  /\ Code["function"][3] = "clr_c" /\ Code["function"][4] = "push_psw"
  /\ Code["function"][5] = "body" /\ Code["function"][6] = "pop_psw"
  /\ Code["function"][7] = "mov_ea_c" /\ Code["function"][8] = "ret"
BY DEF Code, CriticalFunction

LEMMA CodeOfBitFunction ==
  /\ Code["bit_function"][1] = "setb_c" /\ Code["bit_function"][2] = "jbc_ea"
  /\ Code["bit_function"][3] = "clr_c" /\ Code["bit_function"][4] = "push_psw"
  /\ Code["bit_function"][5] = "body" /\ Code["bit_function"][6] = "rlc_a"
  /\ Code["bit_function"][7] = "pop_psw" /\ Code["bit_function"][8] = "mov_ea_c"
  /\ Code["bit_function"][9] = "rrc_a" /\ Code["bit_function"][10] = "ret"
BY DEF Code, CriticalBitFunction

LEMMA CodeOfStatement ==
  /\ Code["statement"][1] = "setb_b" /\ Code["statement"][2] = "jbc_ea"
  /\ Code["statement"][3] = "clr_b" /\ Code["statement"][4] = "body"
  /\ Code["statement"][5] = "mov_c_b" /\ Code["statement"][6] = "mov_ea_c"
  /\ Code["statement"][7] = "ret"
BY DEF Code, CriticalStatement

LEMMA CodeOfRoutines ==
  /\ Code["main"][1] = "body"
  /\ Code["isr"][1] = "push_acc" /\ Code["isr"][2] = "push_psw" /\ Code["isr"][3] = "body"
  /\ Code["isr"][4] = "pop_psw" /\ Code["isr"][5] = "pop_acc" /\ Code["isr"][6] = "reti"
  /\ Code["critical_isr"][1] = "clr_ea" /\ Code["critical_isr"][2] = "push_acc"
  /\ Code["critical_isr"][3] = "push_psw" /\ Code["critical_isr"][4] = "body"
  /\ Code["critical_isr"][5] = "pop_psw" /\ Code["critical_isr"][6] = "pop_acc"
  /\ Code["critical_isr"][7] = "setb_ea" /\ Code["critical_isr"][8] = "reti"
BY DEF Code, Main, InterruptRoutine, CriticalInterruptRoutine

Is(f, kind, low, high) == f.kind = kind /\ f.pc \in low .. high
Fn(f, low, high) == Is(f, "function", low, high) \/ Is(f, "bit_function", low, high)

Placed(f) ==
  /\ Instruction(f) = "setb_c" => Fn(f, 1, 1)
  /\ Instruction(f) = "setb_b" => Is(f, "statement", 1, 1)
  /\ Instruction(f) = "jbc_ea" => Fn(f, 2, 2) \/ Is(f, "statement", 2, 2)
  /\ Instruction(f) = "clr_c" => Fn(f, 3, 3)
  /\ Instruction(f) = "clr_b" => Is(f, "statement", 3, 3)
  /\ Instruction(f) = "push_psw" => Fn(f, 4, 4) \/ Is(f, "isr", 2, 2) \/ Is(f, "critical_isr", 3, 3)
  /\ Instruction(f) = "push_acc" => Is(f, "isr", 1, 1) \/ Is(f, "critical_isr", 2, 2)
  /\ Instruction(f) = "body" <=> \/ Is(f, "main", 1, 1) \/ Fn(f, 5, 5) \/ Is(f, "statement", 4, 4)
                                 \/ Is(f, "isr", 3, 3) \/ Is(f, "critical_isr", 4, 4)
  /\ Instruction(f) = "rlc_a" => Is(f, "bit_function", 6, 6)
  /\ Instruction(f) = "rrc_a" => Is(f, "bit_function", 9, 9)
  /\ Instruction(f) = "pop_psw" => \/ Is(f, "function", 6, 6) \/ Is(f, "bit_function", 7, 7)
                                   \/ Is(f, "isr", 4, 4) \/ Is(f, "critical_isr", 5, 5)
  /\ Instruction(f) = "pop_acc" => Is(f, "isr", 5, 5) \/ Is(f, "critical_isr", 6, 6)
  /\ Instruction(f) = "mov_c_b" => Is(f, "statement", 5, 5)
  /\ Instruction(f) = "mov_ea_c" => \/ Is(f, "function", 7, 7) \/ Is(f, "bit_function", 8, 8)
                                    \/ Is(f, "statement", 6, 6)
  /\ Instruction(f) = "clr_ea" <=> Is(f, "critical_isr", 1, 1)
  /\ Instruction(f) = "setb_ea" => Is(f, "critical_isr", 7, 7)
  /\ Instruction(f) = "ret" => Is(f, "function", 8, 8) \/ Is(f, "bit_function", 10, 10) \/ Is(f, "statement", 7, 7)
  /\ Instruction(f) = "reti" => Is(f, "isr", 6, 6) \/ Is(f, "critical_isr", 8, 8)
  /\ Instruction(f) # "mov_c_ea"

HoldsAt(f) == \/ Is(f, "function", 3, 7) \/ Is(f, "bit_function", 3, 8)
              \/ Is(f, "statement", 3, 6) \/ Is(f, "critical_isr", 2, 7)

\* Where each instruction is, and where EA is held clear
LEMMA Places ==
  ASSUME NEW f \in Frames, f.pc \in DOMAIN Code[f.kind]
  PROVE  Placed(f) /\ (Holds(f) <=> HoldsAt(f))
  <1>1. CASE f.kind = "main"
    BY <1>1, CodeLengths, CodeOfRoutines DEF Placed, HoldsAt, Holds, Instruction, Is, Fn
  <1>2. CASE f.kind = "function"
    <2>1. f.pc \in 1 .. 8
      BY <1>2, CodeLengths
    <2>2. Placed(f)
      BY <1>2, <2>1, CodeOfFunction DEF Placed, Instruction, Is, Fn
    <2>3. Holds(f) <=> HoldsAt(f)
      BY <1>2, <2>1, CodeLengths, CodeOfFunction DEF HoldsAt, Holds, Is
    <2> QED BY <2>2, <2>3
  <1>3. CASE f.kind = "bit_function"
    <2>1. f.pc \in 1 .. 10
      BY <1>3, CodeLengths
    <2>2. Placed(f)
      BY <1>3, <2>1, CodeOfBitFunction DEF Placed, Instruction, Is, Fn
    <2>3. Holds(f) <=> HoldsAt(f)
      BY <1>3, <2>1, CodeLengths, CodeOfBitFunction DEF HoldsAt, Holds, Is
    <2> QED BY <2>2, <2>3
  <1>4. CASE f.kind = "statement"
    <2>1. f.pc \in 1 .. 7
      BY <1>4, CodeLengths
    <2>2. Placed(f)
      BY <1>4, <2>1, CodeOfStatement DEF Placed, Instruction, Is, Fn
    <2>3. Holds(f) <=> HoldsAt(f)
      BY <1>4, <2>1, CodeLengths, CodeOfStatement DEF HoldsAt, Holds, Is
    <2> QED BY <2>2, <2>3
  <1>5. CASE f.kind = "isr"
    <2>1. f.pc \in 1 .. 6
      BY <1>5, CodeLengths
    <2>2. Placed(f)
      BY <1>5, <2>1, CodeOfRoutines DEF Placed, Instruction, Is, Fn
    <2>3. Holds(f) <=> HoldsAt(f)
      BY <1>5, <2>1, CodeLengths, CodeOfRoutines DEF HoldsAt, Holds, Is
    <2> QED BY <2>2, <2>3
  <1>6. CASE f.kind = "critical_isr"
    <2>1. f.pc \in 1 .. 8
      BY <1>6, CodeLengths
    <2>2. Placed(f)
      BY <1>6, <2>1, CodeOfRoutines DEF Placed, Instruction, Is, Fn
    <2>3. Holds(f) <=> HoldsAt(f)
      BY <1>6, <2>1, CodeLengths, CodeOfRoutines DEF HoldsAt, Holds, Is
    <2> QED BY <2>2, <2>3
  <1> QED BY <1>1, <1>2, <1>3, <1>4, <1>5, <1>6, CodeLengths DEF Frames

-----------------------------------------------------------------------------
(* The inductive invariant.                                                *)

\* The bytes a routine has on the stack
Height(f) ==
  IF Is(f, "function", 5, 6) \/ Is(f, "bit_function", 5, 7) \/ Is(f, "isr", 2, 2) \/ Is(f, "isr", 5, 5)
     \/ Is(f, "critical_isr", 3, 3) \/ Is(f, "critical_isr", 6, 6)
  THEN 1
  ELSE IF Is(f, "isr", 3, 4) \/ Is(f, "critical_isr", 4, 5) THEN 2 ELSE 0

N == Len(frames)

\* The registers as the routine i will find them again
VC(i) == IF i = N THEN C ELSE frames[i + 1].c
VA(i) == IF i = N THEN A ELSE frames[i + 1].a

\* The EA that the critical code i has to restore
Below(i) == \E k \in 1 .. i - 1 : Holds(frames[k])
Value(i) == IF Below(i) THEN FALSE ELSE wanted

\* Where that EA, v, is at each place of the code
SavedAt(f, c, v, bytes, w) ==
  /\ Fn(f, 2, 2) => c
  /\ Is(f, "statement", 2, 2) => f.b
  /\ Fn(f, 3, 3) \/ Is(f, "statement", 3, 3) => ~v
  /\ Fn(f, 4, 4) \/ Is(f, "function", 7, 7) \/ Is(f, "bit_function", 8, 8)
     \/ Is(f, "statement", 6, 6) => (c <=> v)
  /\ Is(f, "function", 5, 6) \/ Is(f, "bit_function", 5, 7) => (bytes[f.base + 1] <=> v)
  /\ Is(f, "statement", 4, 5) => (f.b <=> v)
  /\ Is(f, "critical_isr", 1, 7) => w
Saved(i) == SavedAt(frames[i], VC(i), Value(i), stack, wanted)

\* Where the result of a bit function is
CarriedAt(f, c, a) ==
  /\ Is(f, "bit_function", 6, 6) \/ Is(f, "bit_function", 10, 10) => (c <=> f.result)
  /\ Is(f, "bit_function", 7, 9) => (a <=> f.result)
Carried(i) == CarriedAt(frames[i], VC(i), VA(i))

\* Where the registers of the interrupted routine are
KeptAt(f, c, a, bytes) ==
  /\ Is(f, "isr", 2, 5) \/ Is(f, "critical_isr", 3, 6) => (bytes[f.base + 1] <=> f.a)
  /\ Is(f, "isr", 3, 4) \/ Is(f, "critical_isr", 4, 5) => (bytes[f.base + 2] <=> f.c)
  /\ Is(f, "isr", 1, 1) \/ Is(f, "isr", 6, 6)
     \/ Is(f, "critical_isr", 1, 2) \/ Is(f, "critical_isr", 7, 8) => (a <=> f.a)
  /\ Is(f, "isr", 1, 2) \/ Is(f, "isr", 5, 6)
     \/ Is(f, "critical_isr", 1, 3) \/ Is(f, "critical_isr", 6, 8) => (c <=> f.c)
Kept(i) == KeptAt(frames[i], VC(i), VA(i), stack)

Shape ==
  /\ frames[1].kind = "main" /\ frames[1].base = 0
  /\ \A i \in 1 .. N - 1 : frames[i + 1].base = frames[i].base + Height(frames[i])
  /\ \A i, j \in 1 .. N : i < j => frames[i].base + Height(frames[i]) <= frames[j].base
  /\ Len(stack) = frames[N].base + Height(frames[N])
  /\ \A i \in 1 .. N - 1 : frames[i + 1].kind \notin Isr => Instruction(frames[i]) = "body"

HeldClear == \A i \in 1 .. N : Holds(frames[i]) => ~EA

IInv ==
  /\ TypeOK /\ Shape /\ CriticalExclusive /\ HeldClear /\ EnableRestored
  /\ \A i \in 1 .. N : Saved(i) /\ Carried(i) /\ Kept(i)

-----------------------------------------------------------------------------
(* Sequences.                                                              *)

LEMMA FrontFacts ==
  ASSUME NEW S, NEW s \in Seq(S), Len(s) > 0
  PROVE  /\ Front(s) \in Seq(S) /\ Len(Front(s)) = Len(s) - 1
         /\ \A i \in 1 .. Len(s) - 1 : Front(s)[i] = s[i]
  <1>1. Front(s) = [i \in 1 .. Len(s) - 1 |-> s[i]]
    BY DEF Front
  <1> QED BY <1>1

LEMMA AppendFacts ==
  ASSUME NEW S, NEW s \in Seq(S), NEW e \in S
  PROVE  /\ Append(s, e) \in Seq(S) /\ Len(Append(s, e)) = Len(s) + 1
         /\ \A i \in 1 .. Len(s) : Append(s, e)[i] = s[i]
         /\ Append(s, e)[Len(s) + 1] = e
  OBVIOUS

\* Replacing the last frame
LEMMA TopFacts ==
  ASSUME TypeOK, NEW g \in Frames, frames' = [frames EXCEPT ![Len(frames)] = g]
  PROVE  /\ N \in Nat \ {0} /\ N' = N /\ frames' \in Seq(Frames)
         /\ \A i \in 1 .. N - 1 : frames'[i] = frames[i]
         /\ frames'[N] = g
         /\ frames[N] \in Frames
  <1>1. frames \in Seq(Frames) /\ frames # << >>
    BY DEF TypeOK
  <1>2. Len(frames) \in Nat \ {0}
    BY <1>1
  <1> QED BY <1>1, <1>2 DEF N

LEMMA FrameTypes ==
  ASSUME TypeOK
  PROVE  /\ N \in Nat \ {0} /\ DOMAIN frames = 1 .. N
         /\ \A i \in 1 .. N : /\ frames[i] \in Frames
                              /\ frames[i].pc \in DOMAIN Code[frames[i].kind]
                              /\ Placed(frames[i]) /\ (Holds(frames[i]) <=> HoldsAt(frames[i]))
                              /\ Height(frames[i]) \in 0 .. 2 /\ frames[i].base \in Nat
  <1>1. frames \in Seq(Frames) /\ frames # << >>
    BY DEF TypeOK
  <1>2. N \in Nat \ {0} /\ DOMAIN frames = 1 .. N
    BY <1>1 DEF N
  <1>3. \A i \in 1 .. N : frames[i] \in Frames /\ frames[i].pc \in DOMAIN Code[frames[i].kind]
    BY <1>1, <1>2 DEF TypeOK, N
  <1>4. \A i \in 1 .. N : Placed(frames[i]) /\ (Holds(frames[i]) <=> HoldsAt(frames[i]))
    BY <1>3, Places
  <1>5. \A i \in 1 .. N : Height(frames[i]) \in 0 .. 2 /\ frames[i].base \in Nat
    BY <1>3 DEF Height, Frames
  <1> QED BY <1>2, <1>3, <1>4, <1>5

-----------------------------------------------------------------------------
(* A step of the running routine.                                          *)

\* The routines below do not see it.
LEMMA Undisturbed ==
  ASSUME IInv, NEW g \in Frames,
         g.kind = frames[N].kind, g.base = frames[N].base,
         g.a = frames[N].a, g.c = frames[N].c,
         frames' = [frames EXCEPT ![Len(frames)] = g],
         wanted' = wanted, \A k \in 1 .. g.base : stack'[k] = stack[k]
  PROVE  /\ \A i \in 1 .. N : Below(i)' = Below(i) /\ Value(i)' = Value(i)
         /\ \A i \in 1 .. N - 1 : Saved(i)' /\ Carried(i)' /\ Kept(i)'
  <1>1. /\ N \in Nat \ {0} /\ N' = N
        /\ \A i \in 1 .. N - 1 : frames'[i] = frames[i]
        /\ frames'[N] = g
    BY TopFacts DEF IInv
  <1>2. \A i \in 1 .. N : Below(i)' = Below(i) /\ Value(i)' = Value(i)
    <2> SUFFICES ASSUME NEW i \in 1 .. N PROVE Below(i)' = Below(i) /\ Value(i)' = Value(i)
      OBVIOUS
    <2>1. \A k \in 1 .. i - 1 : frames'[k] = frames[k]
      BY <1>1
    <2>2. Below(i)' = Below(i)
      BY <2>1 DEF Below, Holds
    <2> QED BY <2>2 DEF Value
  <1>3. ASSUME NEW i \in 1 .. N - 1
        PROVE  Saved(i)' /\ Carried(i)' /\ Kept(i)'
    <2>1. /\ i \in 1 .. N /\ i # N /\ i + 1 \in 1 .. N /\ frames'[i] = frames[i]
          /\ Saved(i) /\ Carried(i) /\ Kept(i)
      BY <1>1, <1>3 DEF IInv
    <2>2. frames'[i + 1].c = frames[i + 1].c /\ frames'[i + 1].a = frames[i + 1].a
      BY <1>1, <2>1
    <2>3. VC(i)' = VC(i) /\ VA(i)' = VA(i) /\ Value(i)' = Value(i)
      BY <1>1, <1>2, <2>1, <2>2 DEF VC, VA
    <2>4. frames[i] \in Frames /\ frames[i].base \in Nat
      BY <2>1, FrameTypes DEF IInv
    <2>5. frames[i].base + Height(frames[i]) <= g.base /\ g.base \in Nat /\ Height(frames[i]) \in 0 .. 2
      BY <1>1, <2>1, FrameTypes DEF IInv, Shape
    <2>6. Height(frames[i]) >= 1 => stack'[frames[i].base + 1] = stack[frames[i].base + 1]
      BY <2>4, <2>5
    <2>7. Height(frames[i]) >= 2 => stack'[frames[i].base + 2] = stack[frames[i].base + 2]
      BY <2>4, <2>5
    <2>8. frames[i].pc \in 1 .. 10
      BY <2>4 DEF Frames
    <2>9. Saved(i)'
      <3>1. Is(frames[i], "function", 5, 6) \/ Is(frames[i], "bit_function", 5, 7) => Height(frames[i]) = 1
        BY DEF Height
      <3> QED BY <2>1, <2>3, <2>6, <3>1 DEF Saved, SavedAt
    <2>10. Carried(i)'
      BY <2>1, <2>3 DEF Carried, CarriedAt
    <2>11. Kept(i)'
      <3>1. Is(frames[i], "isr", 2, 5) \/ Is(frames[i], "critical_isr", 3, 6) => Height(frames[i]) >= 1
        BY <2>8 DEF Height, Is
      <3>2. Is(frames[i], "isr", 3, 4) \/ Is(frames[i], "critical_isr", 4, 5) => Height(frames[i]) >= 2
        BY <2>8 DEF Height, Is
      <3> QED BY <2>1, <2>3, <2>6, <2>7, <3>1, <3>2 DEF Kept, KeptAt
    <2> QED BY <2>9, <2>10, <2>11
  <1> QED BY <1>2, <1>3

\* What is left to show for it: EA, and the running routine's own claims.
LEMMA TopStep ==
  ASSUME IInv, NEW g \in Frames, g.pc \in DOMAIN Code[g.kind],
         g.kind = frames[N].kind, g.base = frames[N].base,
         g.a = frames[N].a, g.c = frames[N].c,
         frames' = [frames EXCEPT ![Len(frames)] = g],
         EA' \in BOOLEAN, C' \in BOOLEAN, A' \in BOOLEAN, wanted' = wanted,
         stack' \in Seq(BOOLEAN), Len(stack') = g.base + Height(g),
         \A k \in 1 .. g.base : stack'[k] = stack[k],
         Below(N) \/ Holds(g) => ~EA',
         ~Below(N) /\ ~Holds(g) => EA' = wanted,
         SavedAt(g, C', Value(N), stack', wanted), CarriedAt(g, C', A'), KeptAt(g, C', A', stack')
  PROVE  IInv'
  <1>1. /\ N \in Nat \ {0} /\ N' = N /\ frames' \in Seq(Frames)
        /\ \A i \in 1 .. N - 1 : frames'[i] = frames[i]
        /\ frames'[N] = g
    BY TopFacts DEF IInv
  <1>2. \A i \in 1 .. N : Saved(i)' /\ Carried(i)' /\ Kept(i)'
    <2>1. /\ \A i \in 1 .. N - 1 : Saved(i)' /\ Carried(i)' /\ Kept(i)'
          /\ \A i \in 1 .. N : Value(i)' = Value(i)
      BY Undisturbed
    <2>2. VC(N)' = C' /\ VA(N)' = A' /\ Value(N)' = Value(N) /\ (frames[N])' = g
      BY <1>1, <2>1 DEF VC, VA
    <2>3. Saved(N)' /\ Carried(N)' /\ Kept(N)'
      BY <1>1, <2>2 DEF Saved, Carried, Kept
    <2>4. \A i \in 1 .. N : i \in 1 .. N - 1 \/ i = N
      BY <1>1
    <2> QED BY <1>1, <2>1, <2>3, <2>4
  <1>3. TypeOK'
    <2>1. DOMAIN frames' = 1 .. N /\ DOMAIN frames = 1 .. N
      BY <1>1, FrameTypes DEF IInv, N
    <2>2. \A i \in DOMAIN frames' : frames'[i].pc \in DOMAIN Code[frames'[i].kind]
      BY <1>1, <2>1, FrameTypes DEF IInv
    <2>3. frames' # << >> /\ Len(frames') <= MaxFrames
      <3>1. Len(frames) <= MaxFrames /\ Len(frames') = Len(frames) /\ Len(frames') # 0
        BY <1>1 DEF IInv, TypeOK, N
      <3> QED BY <3>1
    <2> QED BY <1>1, <2>2, <2>3 DEF IInv, TypeOK
  <1>4. Shape'
    <2>0. Shape /\ \A i \in 1 .. N : Height(frames[i]) \in 0 .. 2 /\ frames[i].base \in Nat
      BY FrameTypes DEF IInv
    <2>1. frames'[1].kind = "main" /\ frames'[1].base = 0
      <3>1. CASE N = 1
        BY <1>1, <2>0, <3>1 DEF Shape
      <3>2. CASE N # 1
        BY <1>1, <2>0, <3>2 DEF Shape
      <3> QED BY <3>1, <3>2
    <2>2. \A i \in 1 .. N : frames'[i].base = frames[i].base /\ frames'[i].kind = frames[i].kind
      BY <1>1
    <2>3. \A i \in 1 .. N - 1 : i \in 1 .. N /\ i + 1 \in 1 .. N /\ Height(frames'[i]) = Height(frames[i])
      BY <1>1
    <2>4. \A i \in 1 .. N - 1 : frames'[i + 1].base = frames'[i].base + Height(frames'[i])
      BY <2>0, <2>2, <2>3 DEF Shape
    <2>5. \A i, j \in 1 .. N : i < j => frames'[i].base + Height(frames'[i]) <= frames'[j].base
      <3>1. \A i, j \in 1 .. N : i < j => i \in 1 .. N - 1
        BY <1>1
      <3> QED BY <2>0, <2>2, <2>3, <3>1 DEF Shape
    <2>6. \A i \in 1 .. N - 1 : frames'[i + 1].kind \notin Isr => Instruction(frames'[i]) = "body"
      BY <1>1, <2>0, <2>2, <2>3 DEF Shape, Instruction
    <2> QED BY <1>1, <2>1, <2>4, <2>5, <2>6 DEF Shape
  <1>5. (\E i \in 1 .. N : Holds(frames'[i])) <=> Below(N) \/ Holds(g)
    <2>1. \A i \in 1 .. N : i \in 1 .. N - 1 \/ i = N
      BY <1>1
    <2>2. \A i \in 1 .. N - 1 : i \in 1 .. N
      BY <1>1
    <2>3. N \in 1 .. N
      BY <1>1
    <2> QED BY <1>1, <2>1, <2>2, <2>3 DEF Below
  <1>6. HeldClear' /\ EnableRestored'
    <2>1. DOMAIN frames' = 1 .. N
      BY <1>1 DEF N
    <2>2. (\E i \in 1 .. N : Holds(frames[i])') <=> Below(N) \/ Holds(g)
      BY <1>5 DEF Holds
    <2> QED BY <1>1, <2>1, <2>2 DEF HeldClear, EnableRestored
  <1>d. DOMAIN frames' = 1 .. N
    BY <1>1 DEF N
  <1>7. CriticalExclusive'
    <2> SUFFICES ASSUME NEW i \in 1 .. N, NEW j \in 1 .. N, i < j, Holds(frames[i])'
                 PROVE  frames'[j].kind \notin Isr
      BY <1>d DEF CriticalExclusive
    <2>1. i \in 1 .. N - 1 /\ frames'[i] = frames[i]
      BY <1>1
    <2>2. Holds(frames[i])
      BY <2>1 DEF Holds
    <2>3. frames'[j].kind = frames[j].kind
      BY <1>1
    <2>4. DOMAIN frames = 1 .. N
      BY FrameTypes DEF IInv
    <2> QED BY <2>2, <2>3, <2>4 DEF IInv, CriticalExclusive
  <1> QED BY <1>1, <1>2, <1>3, <1>4, <1>6, <1>7 DEF IInv

LEMMA Ready ==
  ASSUME IInv
  PROVE  /\ N \in Nat \ {0} /\ Running = frames[N] /\ Running \in Frames
         /\ Running.pc \in DOMAIN Code[Running.kind] /\ Running.pc \in 1 .. 10
         /\ Placed(Running) /\ (Holds(Running) <=> HoldsAt(Running))
         /\ Running.base \in Nat /\ Len(stack) = Running.base + Height(Running)
         /\ SavedAt(Running, C, Value(N), stack, wanted)
         /\ CarriedAt(Running, C, A) /\ KeptAt(Running, C, A, stack)
         /\ (Below(N) \/ Holds(Running) => ~EA)
         /\ (~Below(N) /\ ~Holds(Running) => EA = wanted)
  <1>1. N \in Nat \ {0} /\ DOMAIN frames = 1 .. N /\ N \in 1 .. N /\ Running = frames[N]
    BY FrameTypes DEF IInv, Running, Last, N
  <1>2. /\ Running \in Frames /\ Running.pc \in DOMAIN Code[Running.kind]
        /\ Placed(Running) /\ (Holds(Running) <=> HoldsAt(Running)) /\ Running.base \in Nat
    BY <1>1, FrameTypes DEF IInv
  <1>3. Running.pc \in 1 .. 10
    BY <1>2 DEF Frames
  <1>4. Len(stack) = Running.base + Height(Running)
    BY <1>1 DEF IInv, Shape
  <1>5. SavedAt(Running, C, Value(N), stack, wanted) /\ CarriedAt(Running, C, A) /\ KeptAt(Running, C, A, stack)
    BY <1>1 DEF IInv, Saved, Carried, Kept, VC, VA
  <1>6. Below(N) \/ Holds(Running) => ~EA
    BY <1>1 DEF IInv, HeldClear, Below
  <1>7. ~Below(N) /\ ~Holds(Running) => EA = wanted
    <2>1. \A i \in 1 .. N : i \in 1 .. N - 1 \/ i = N
      BY <1>1
    <2> QED BY <1>1, <2>1 DEF IInv, EnableRestored, Below
  <1> QED BY <1>1, <1>2, <1>3, <1>4, <1>5, <1>6, <1>7
-----------------------------------------------------------------------------
(* The instructions.                                                       *)

\* f can go on by n, and g is f n places on.
InCode(f, n) ==
  \/ f.kind = "function" /\ f.pc + n <= 8
  \/ f.kind = "bit_function" /\ f.pc + n <= 10
  \/ f.kind = "statement" /\ f.pc + n <= 7
  \/ f.kind = "isr" /\ f.pc + n <= 6
  \/ f.kind = "critical_isr" /\ f.pc + n <= 8

Same(g, f) ==
  g.kind = f.kind /\ g.base = f.base /\ g.a = f.a /\ g.c = f.c

Follows(g, f, n) ==
  Same(g, f) /\ g.pc = f.pc + n /\ g.b = f.b /\ g.result = f.result

\* What g has to satisfy as the running routine of the next state
Good(g) ==
  /\ Len(stack') = g.base + Height(g)
  /\ Below(N) \/ HoldsAt(g) => ~EA'
  /\ ~Below(N) /\ ~HoldsAt(g) => EA' = wanted
  /\ SavedAt(g, C', Value(N), stack', wanted)
  /\ CarriedAt(g, C', A') /\ KeptAt(g, C', A', stack')

\* What a step of the running routine leaves of the state
Local ==
  /\ EA' \in BOOLEAN /\ C' \in BOOLEAN /\ A' \in BOOLEAN /\ wanted' = wanted
  /\ stack' \in Seq(BOOLEAN)
  /\ \A k \in 1 .. Running.base : stack'[k] = stack[k]

LEMMA Moved ==
  ASSUME IInv, NEW f \in Frames, Same(f, Running), NEW n \in 1 .. 2, InCode(f, n), Becomes(f, n),
         Local, \A g \in Frames : Follows(g, f, n) => Good(g)
  PROVE  IInv'
  <1> DEFINE g == [f EXCEPT !.pc = @ + n]
  <1>1. f.pc \in 1 .. 10 /\ f.pc + n \in 1 .. 10
    BY DEF Frames, InCode
  <1>2. g \in Frames /\ Follows(g, f, n)
    BY <1>1 DEF Frames, Follows, Same
  <1>3. frames' = [frames EXCEPT ![Len(frames)] = g]
    BY DEF Becomes
  <1> HIDE DEF g
  <1>4. g.pc \in DOMAIN Code[g.kind]
    BY <1>1, <1>2, CodeLengths DEF Follows, Same, InCode
  <1>5. Holds(g) <=> HoldsAt(g)
    BY <1>2, <1>4, Places
  <1>6. Running = frames[N] /\ Good(g)
    BY <1>2, Ready
  <1>7. g.kind = frames[N].kind /\ g.base = frames[N].base /\ g.a = frames[N].a /\ g.c = frames[N].c
    BY <1>2, <1>6 DEF Follows, Same
  <1> QED BY <1>2, <1>3, <1>4, <1>5, <1>6, <1>7, TopStep DEF Good, Local

LEMMA SetbStep == ASSUME IInv, Setb PROVE IInv'
  <1>r. /\ N \in Nat \ {0} /\ Running = frames[N] /\ Running \in Frames
        /\ Running.pc \in 1 .. 10 /\ Placed(Running) /\ (Holds(Running) <=> HoldsAt(Running))
        /\ Running.base \in Nat /\ Len(stack) = Running.base + Height(Running)
        /\ SavedAt(Running, C, Value(N), stack, wanted)
        /\ CarriedAt(Running, C, A) /\ KeptAt(Running, C, A, stack)
        /\ (Below(N) \/ Holds(Running) => ~EA)
        /\ (~Below(N) /\ ~Holds(Running) => EA = wanted)
    BY Ready
  <1>t. EA \in BOOLEAN /\ C \in BOOLEAN /\ A \in BOOLEAN /\ wanted \in BOOLEAN /\ stack \in Seq(BOOLEAN)
    BY DEF IInv, TypeOK
  <1>1. CASE At({"setb_c"})
    <2>1. Is(Running, "function", 1, 1) \/ Is(Running, "bit_function", 1, 1)
      BY <1>r, <1>1 DEF Placed, At, Is, Fn
    <2>2. Becomes(Running, 1) /\ C' = TRUE /\ UNCHANGED <<EA, A, stack, wanted>>
      BY <1>r, <1>t, <1>1 DEF Setb, Advance, At
    <2>3. Local
      BY <1>r, <1>t, <2>2 DEF Local
    <2>4. ASSUME NEW g \in Frames, Follows(g, Running, 1) PROVE Good(g)
      BY <1>r, <1>t, <2>1, <2>2, <2>4 DEF Good, Follows, Same, Is, Fn, HoldsAt, Height, SavedAt, CarriedAt, KeptAt
    <2>5. InCode(Running, 1)
      BY <1>r, <2>1 DEF InCode, Is, Same
    <2> QED BY <1>r, <2>2, <2>3, <2>4, <2>5, Moved DEF Same
  <1>2. CASE At({"clr_c"})
    <2>1. Is(Running, "function", 3, 3) \/ Is(Running, "bit_function", 3, 3)
      BY <1>r, <1>2 DEF Placed, At, Is, Fn
    <2>2. Becomes(Running, 1) /\ C' = FALSE /\ UNCHANGED <<EA, A, stack, wanted>>
      <3>1. At({"setb_c"}) = FALSE /\ ~At({"setb_b", "clr_b"}) /\ At({"setb_c", "clr_c"})
        BY <1>2 DEF At
      <3> QED BY <1>r, <1>t, <1>2, <3>1 DEF Setb, Advance
    <2>3. Local
      BY <1>r, <1>t, <2>2 DEF Local
    <2>4. ASSUME NEW g \in Frames, Follows(g, Running, 1) PROVE Good(g)
      BY <1>r, <1>t, <2>1, <2>2, <2>4 DEF Good, Follows, Same, Is, Fn, HoldsAt, Height, SavedAt, CarriedAt, KeptAt
    <2>5. InCode(Running, 1)
      BY <1>r, <2>1 DEF InCode, Is, Same
    <2> QED BY <1>r, <2>2, <2>3, <2>4, <2>5, Moved DEF Same
  <1>3. CASE At({"setb_b"})
    <2>1. Is(Running, "statement", 1, 1)
      BY <1>r, <1>3 DEF Placed, At, Is, Fn
    <2>2. Becomes([Running EXCEPT !.b = TRUE], 1) /\ UNCHANGED <<EA, C, A, stack, wanted>>
      BY <1>r, <1>t, <1>3 DEF Setb, Advance, At
    <2> DEFINE f == [Running EXCEPT !.b = TRUE]
    <2>f. f \in Frames /\ Same(f, Running) /\ f.pc = Running.pc /\ f.b = TRUE /\ f.result = Running.result
          /\ Becomes(f, 1)
      BY <1>r, <1>t, <2>2 DEF Frames, Same
    <2> HIDE DEF f
    <2>3. Local
      BY <1>r, <1>t, <2>2 DEF Local
    <2>4. ASSUME NEW g \in Frames, Follows(g, f, 1) PROVE Good(g)
      BY <1>r, <1>t, <2>1, <2>2, <2>f, <2>4 DEF Good, Follows, Same, Is, Fn, HoldsAt, Height, SavedAt, CarriedAt, KeptAt
    <2>5. InCode(f, 1)
      BY <1>r, <2>1, <2>f DEF InCode, Is, Same
    <2> QED BY <1>r, <2>2, <2>3, <2>4, <2>5, <2>f, Moved DEF Same
  <1>4. CASE At({"clr_b"})
    <2>1. Is(Running, "statement", 3, 3)
      BY <1>r, <1>4 DEF Placed, At, Is, Fn
    <2>2. Becomes([Running EXCEPT !.b = FALSE], 1) /\ UNCHANGED <<EA, C, A, stack, wanted>>
      <3>1. At({"setb_b"}) = FALSE /\ ~At({"setb_c", "clr_c"}) /\ At({"setb_b", "clr_b"})
        BY <1>4 DEF At
      <3> QED BY <1>r, <1>t, <1>4, <3>1 DEF Setb, Advance
    <2> DEFINE f == [Running EXCEPT !.b = FALSE]
    <2>f. f \in Frames /\ Same(f, Running) /\ f.pc = Running.pc /\ f.b = FALSE /\ f.result = Running.result
          /\ Becomes(f, 1)
      BY <1>r, <1>t, <2>2 DEF Frames, Same
    <2> HIDE DEF f
    <2>3. Local
      BY <1>r, <1>t, <2>2 DEF Local
    <2>4. ASSUME NEW g \in Frames, Follows(g, f, 1) PROVE Good(g)
      BY <1>r, <1>t, <2>1, <2>2, <2>f, <2>4 DEF Good, Follows, Same, Is, Fn, HoldsAt, Height, SavedAt, CarriedAt, KeptAt
    <2>5. InCode(f, 1)
      BY <1>r, <2>1, <2>f DEF InCode, Is, Same
    <2> QED BY <1>r, <2>2, <2>3, <2>4, <2>5, <2>f, Moved DEF Same
  <1> QED BY <1>1, <1>2, <1>3, <1>4 DEF Setb, At

LEMMA JbcStep == ASSUME IInv, Jbc PROVE IInv'
  <1>r. /\ N \in Nat \ {0} /\ Running = frames[N] /\ Running \in Frames
        /\ Running.pc \in 1 .. 10 /\ Placed(Running) /\ (Holds(Running) <=> HoldsAt(Running))
        /\ Running.base \in Nat /\ Len(stack) = Running.base + Height(Running)
        /\ SavedAt(Running, C, Value(N), stack, wanted)
        /\ CarriedAt(Running, C, A) /\ KeptAt(Running, C, A, stack)
        /\ (Below(N) \/ Holds(Running) => ~EA)
        /\ (~Below(N) /\ ~Holds(Running) => EA = wanted)
    BY Ready
  <1>t. EA \in BOOLEAN /\ C \in BOOLEAN /\ A \in BOOLEAN /\ wanted \in BOOLEAN /\ stack \in Seq(BOOLEAN)
    BY DEF IInv, TypeOK
  <1>1. CASE EA
    <2> USE DEF Value
    <2>1. Is(Running, "function", 2, 2) \/ Is(Running, "bit_function", 2, 2) \/ Is(Running, "statement", 2, 2)
      BY <1>r DEF Placed, At, Jbc, Is, Fn
    <2>2. Becomes(Running, 2) /\ EA' = FALSE /\ UNCHANGED <<C, A, stack, wanted>>
      BY <1>r, <1>t, <1>1 DEF Jbc
    <2>3. Local
      BY <1>r, <1>t, <2>2 DEF Local
    <2>4. ASSUME NEW g \in Frames, Follows(g, Running, 2) PROVE Good(g)
      <3>1. /\ Is(g, "function", 4, 4) \/ Is(g, "bit_function", 4, 4) \/ Is(g, "statement", 4, 4)
            /\ g.base = Running.base /\ g.a = Running.a /\ g.c = Running.c
            /\ g.b = Running.b /\ g.result = Running.result /\ g.kind = Running.kind
        BY <1>r, <2>1, <2>4 DEF Follows, Same, Is
      <3>b. ~Below(N)
        BY <1>1, <1>r
      <3>c. EA = wanted
        BY <1>r, <2>1, <3>b DEF HoldsAt, Is
      <3>w. wanted /\ (Value(N) <=> TRUE)
        BY <1>1, <1>t, <3>b, <3>c DEF Value
      <3>p. (Fn(g, 4, 4) => C) /\ (Is(g, "statement", 4, 4) => g.b)
        BY <1>r, <2>1, <3>1 DEF SavedAt, Is, Fn
      <3>2. Len(stack') = g.base + Height(g)
        BY <1>r, <1>t, <1>1, <3>w, <3>p, <2>1, <2>2, <3>1 DEF Is, Height
      <3>3. (Below(N) \/ HoldsAt(g) => ~EA') /\ (~Below(N) /\ ~HoldsAt(g) => EA' = wanted)
        BY <2>2, <3>1 DEF Is, HoldsAt
      <3>4. SavedAt(g, C', Value(N), stack', wanted)
        BY <2>2, <3>w, <3>p, <3>1 DEF Is, Fn, SavedAt
      <3>5. CarriedAt(g, C', A')
        BY <1>r, <1>t, <1>1, <3>w, <3>p, <2>1, <2>2, <3>1 DEF Is, CarriedAt
      <3>6. KeptAt(g, C', A', stack')
        BY <1>r, <1>t, <1>1, <3>w, <3>p, <2>1, <2>2, <3>1 DEF Is, Height, KeptAt
      <3> QED BY <3>2, <3>3, <3>4, <3>5, <3>6 DEF Good
    <2>5. InCode(Running, 2)
      BY <1>r, <2>1 DEF InCode, Is, Same
    <2> QED BY <1>r, <2>2, <2>3, <2>4, <2>5, Moved DEF Same
  <1>2. CASE ~EA
    <2> USE DEF Value
    <2>1. Is(Running, "function", 2, 2) \/ Is(Running, "bit_function", 2, 2) \/ Is(Running, "statement", 2, 2)
      BY <1>r DEF Placed, At, Jbc, Is, Fn
    <2>2. Becomes(Running, 1) /\ EA' = FALSE /\ UNCHANGED <<C, A, stack, wanted>>
      BY <1>r, <1>t, <1>2 DEF Jbc
    <2>3. Local
      BY <1>r, <1>t, <2>2 DEF Local
    <2>4. ASSUME NEW g \in Frames, Follows(g, Running, 1) PROVE Good(g)
      BY <1>2, <1>r, <1>t, <2>1, <2>2, <2>4 DEF Good, Follows, Same, Is, Fn, HoldsAt, Height, SavedAt, CarriedAt, KeptAt
    <2>5. InCode(Running, 1)
      BY <1>r, <2>1 DEF InCode, Is, Same
    <2> QED BY <1>r, <2>2, <2>3, <2>4, <2>5, Moved DEF Same
  <1> QED BY <1>1, <1>2

LEMMA MovStep == ASSUME IInv, Mov PROVE IInv'
  <1>r. /\ N \in Nat \ {0} /\ Running = frames[N] /\ Running \in Frames
        /\ Running.pc \in 1 .. 10 /\ Placed(Running) /\ (Holds(Running) <=> HoldsAt(Running))
        /\ Running.base \in Nat /\ Len(stack) = Running.base + Height(Running)
        /\ SavedAt(Running, C, Value(N), stack, wanted)
        /\ CarriedAt(Running, C, A) /\ KeptAt(Running, C, A, stack)
        /\ (Below(N) \/ Holds(Running) => ~EA)
        /\ (~Below(N) /\ ~Holds(Running) => EA = wanted)
    BY Ready
  <1>t. EA \in BOOLEAN /\ C \in BOOLEAN /\ A \in BOOLEAN /\ wanted \in BOOLEAN /\ stack \in Seq(BOOLEAN)
    BY DEF IInv, TypeOK
  <1>1. CASE At({"mov_ea_c"})
    <2>1. Is(Running, "function", 7, 7) \/ Is(Running, "bit_function", 8, 8) \/ Is(Running, "statement", 6, 6)
      BY <1>r, <1>1 DEF Placed, At, Is, Fn
    <2>2. Becomes(Running, 1) /\ EA' = C /\ UNCHANGED <<C, A, stack, wanted>>
      <3>1. At({"mov_ea_c", "clr_ea", "setb_ea"}) /\ ~At({"mov_c_b", "mov_c_ea"})
        BY <1>1 DEF At
      <3> QED BY <1>r, <1>t, <1>1, <3>1 DEF Mov, Advance
    <2>3. Local
      BY <1>r, <1>t, <2>2 DEF Local
    <2>4. ASSUME NEW g \in Frames, Follows(g, Running, 1) PROVE Good(g)
      <3>1. /\ Is(g, "function", 8, 8) \/ Is(g, "bit_function", 9, 9) \/ Is(g, "statement", 7, 7)
            /\ g.base = Running.base /\ g.a = Running.a /\ g.c = Running.c
            /\ g.b = Running.b /\ g.result = Running.result /\ g.kind = Running.kind
        BY <1>r, <2>1, <2>4 DEF Follows, Same, Is
      <3>2. Len(stack') = g.base + Height(g)
        BY <1>r, <1>t, <1>1, <2>1, <2>2, <3>1 DEF Is, Height
      <3>3. (Below(N) \/ HoldsAt(g) => ~EA') /\ (~Below(N) /\ ~HoldsAt(g) => EA' = wanted)
        BY <1>r, <1>t, <1>1, <2>1, <2>2, <3>1 DEF Is, Fn, HoldsAt, SavedAt, Value
      <3>4. SavedAt(g, C', Value(N), stack', wanted)
        BY <1>r, <1>t, <1>1, <2>1, <2>2, <3>1 DEF Is, Fn, HoldsAt, Height, SavedAt, Value
      <3>5. CarriedAt(g, C', A')
        BY <1>r, <1>t, <1>1, <2>1, <2>2, <3>1 DEF Is, CarriedAt
      <3>6. KeptAt(g, C', A', stack')
        BY <1>r, <1>t, <1>1, <2>1, <2>2, <3>1 DEF Is, Height, KeptAt
      <3> QED BY <3>2, <3>3, <3>4, <3>5, <3>6 DEF Good
    <2>5. InCode(Running, 1)
      BY <1>r, <2>1 DEF InCode, Is, Same
    <2> QED BY <1>r, <2>2, <2>3, <2>4, <2>5, Moved DEF Same
  <1>2. CASE At({"clr_ea"})
    <2>1. Is(Running, "critical_isr", 1, 1)
      BY <1>r, <1>2 DEF Placed, At, Is, Fn
    <2>2. Becomes(Running, 1) /\ EA' = FALSE /\ UNCHANGED <<C, A, stack, wanted>>
      <3>1. At({"setb_ea"}) = FALSE /\ ~At({"mov_ea_c"}) /\ At({"mov_ea_c", "clr_ea", "setb_ea"}) /\ ~At({"mov_c_b", "mov_c_ea"})
        BY <1>2 DEF At
      <3> QED BY <1>r, <1>t, <1>2, <3>1 DEF Mov, Advance
    <2>3. Local
      BY <1>r, <1>t, <2>2 DEF Local
    <2>4. ASSUME NEW g \in Frames, Follows(g, Running, 1) PROVE Good(g)
      BY <1>r, <1>t, <2>1, <2>2, <2>4 DEF Good, Follows, Same, Is, Fn, HoldsAt, Height, SavedAt, CarriedAt, KeptAt
    <2>5. InCode(Running, 1)
      BY <1>r, <2>1 DEF InCode, Is, Same
    <2> QED BY <1>r, <2>2, <2>3, <2>4, <2>5, Moved DEF Same
  <1>3. CASE At({"setb_ea"})
    <2>1. Is(Running, "critical_isr", 7, 7)
      BY <1>r, <1>3 DEF Placed, At, Is, Fn
    <2>2. Becomes(Running, 1) /\ EA' = TRUE /\ UNCHANGED <<C, A, stack, wanted>>
      <3>1. At({"setb_ea"}) = TRUE /\ ~At({"mov_ea_c"}) /\ At({"mov_ea_c", "clr_ea", "setb_ea"}) /\ ~At({"mov_c_b", "mov_c_ea"})
        BY <1>3 DEF At
      <3> QED BY <1>r, <1>t, <1>3, <3>1 DEF Mov, Advance
    <2>b. ~Below(N)
      <3>1. Running.kind \in Isr /\ DOMAIN frames = 1 .. N
        BY <2>1, FrameTypes DEF Is, Isr, IInv
      <3> QED BY <1>r, <3>1 DEF Below, IInv, CriticalExclusive
    <2>3. Local
      BY <1>r, <1>t, <2>2 DEF Local
    <2>4. ASSUME NEW g \in Frames, Follows(g, Running, 1) PROVE Good(g)
      <3>1. /\ Is(g, "critical_isr", 8, 8)
            /\ g.base = Running.base /\ g.a = Running.a /\ g.c = Running.c
            /\ g.b = Running.b /\ g.result = Running.result /\ g.kind = Running.kind
        BY <1>r, <2>1, <2>4 DEF Follows, Same, Is
      <3>w. wanted = TRUE
        BY <1>r, <1>t, <2>1 DEF SavedAt, Is
      <3>2. Len(stack') = g.base + Height(g)
        BY <1>r, <1>t, <2>b, <3>w, <2>1, <2>2, <3>1 DEF Is, Height
      <3>3. (Below(N) \/ HoldsAt(g) => ~EA') /\ (~Below(N) /\ ~HoldsAt(g) => EA' = wanted)
        BY <1>r, <1>t, <2>b, <3>w, <2>1, <2>2, <3>1 DEF Is, Fn, HoldsAt, SavedAt
      <3>4. SavedAt(g, C', Value(N), stack', wanted)
        BY <1>r, <1>t, <2>b, <3>w, <2>1, <2>2, <3>1 DEF Is, Fn, HoldsAt, Height, SavedAt
      <3>5. CarriedAt(g, C', A')
        BY <1>r, <1>t, <2>b, <3>w, <2>1, <2>2, <3>1 DEF Is, CarriedAt
      <3>6. KeptAt(g, C', A', stack')
        BY <1>r, <1>t, <2>b, <3>w, <2>1, <2>2, <3>1 DEF Is, Height, KeptAt
      <3> QED BY <3>2, <3>3, <3>4, <3>5, <3>6 DEF Good
    <2>5. InCode(Running, 1)
      BY <1>r, <2>1 DEF InCode, Is, Same
    <2> QED BY <1>r, <2>2, <2>3, <2>4, <2>5, Moved DEF Same
  <1>4. CASE At({"mov_c_b"})
    <2>1. Is(Running, "statement", 5, 5)
      BY <1>r, <1>4 DEF Placed, At, Is, Fn
    <2>2. Becomes(Running, 1) /\ C' = Running.b /\ UNCHANGED <<EA, A, stack, wanted>>
      <3>1. At({"mov_c_b"}) /\ At({"mov_c_b", "mov_c_ea"}) /\ ~At({"mov_ea_c", "clr_ea", "setb_ea"})
        BY <1>4 DEF At
      <3> QED BY <1>r, <1>t, <1>4, <3>1 DEF Mov, Advance
    <2>3. Local
      BY <1>r, <1>t, <2>2 DEF Local, Frames
    <2>4. ASSUME NEW g \in Frames, Follows(g, Running, 1) PROVE Good(g)
      BY <1>r, <1>t, <2>1, <2>2, <2>4 DEF Good, Follows, Same, Is, Fn, HoldsAt, Height, SavedAt, CarriedAt, KeptAt
    <2>5. InCode(Running, 1)
      BY <1>r, <2>1 DEF InCode, Is, Same
    <2> QED BY <1>r, <2>2, <2>3, <2>4, <2>5, Moved DEF Same
  <1>5. ~At({"mov_c_ea"})
    BY <1>r DEF Placed, At
  <1> QED BY <1>1, <1>2, <1>3, <1>4, <1>5 DEF Mov, At

LEMMA RotateStep == ASSUME IInv, Rotate PROVE IInv'
  <1>r. /\ N \in Nat \ {0} /\ Running = frames[N] /\ Running \in Frames
        /\ Running.pc \in 1 .. 10 /\ Placed(Running) /\ (Holds(Running) <=> HoldsAt(Running))
        /\ Running.base \in Nat /\ Len(stack) = Running.base + Height(Running)
        /\ SavedAt(Running, C, Value(N), stack, wanted)
        /\ CarriedAt(Running, C, A) /\ KeptAt(Running, C, A, stack)
        /\ (Below(N) \/ Holds(Running) => ~EA)
        /\ (~Below(N) /\ ~Holds(Running) => EA = wanted)
    BY Ready
  <1>t. EA \in BOOLEAN /\ C \in BOOLEAN /\ A \in BOOLEAN /\ wanted \in BOOLEAN /\ stack \in Seq(BOOLEAN)
    BY DEF IInv, TypeOK
  <1>1. CASE At({"rlc_a"})
    <2>1. Is(Running, "bit_function", 6, 6)
      BY <1>r, <1>1 DEF Placed, At, Is, Fn
    <2>2. Becomes(Running, 1) /\ A' = C /\ C' \in BOOLEAN /\ UNCHANGED <<EA, stack, wanted>>
      <3>1. At({"rlc_a"}) /\ ~At({"rrc_a"})
        BY <1>1 DEF At
      <3> QED BY <1>r, <1>t, <1>1, <3>1 DEF Rotate, Advance
    <2>3. Local
      BY <1>r, <1>t, <2>2 DEF Local
    <2>4. ASSUME NEW g \in Frames, Follows(g, Running, 1) PROVE Good(g)
      BY <1>r, <1>t, <2>1, <2>2, <2>4 DEF Good, Follows, Same, Is, Fn, HoldsAt, Height, SavedAt, CarriedAt, KeptAt
    <2>5. InCode(Running, 1)
      BY <1>r, <2>1 DEF InCode, Is, Same
    <2> QED BY <1>r, <2>2, <2>3, <2>4, <2>5, Moved DEF Same
  <1>2. CASE At({"rrc_a"})
    <2>1. Is(Running, "bit_function", 9, 9)
      BY <1>r, <1>2 DEF Placed, At, Is, Fn
    <2>2. Becomes(Running, 1) /\ C' = A /\ A' \in BOOLEAN /\ UNCHANGED <<EA, stack, wanted>>
      <3>1. At({"rrc_a"}) /\ ~At({"rlc_a"})
        BY <1>2 DEF At
      <3> QED BY <1>r, <1>t, <1>2, <3>1 DEF Rotate, Advance
    <2>3. Local
      BY <1>r, <1>t, <2>2 DEF Local
    <2>4. ASSUME NEW g \in Frames, Follows(g, Running, 1) PROVE Good(g)
      BY <1>r, <1>t, <2>1, <2>2, <2>4 DEF Good, Follows, Same, Is, Fn, HoldsAt, Height, SavedAt, CarriedAt, KeptAt
    <2>5. InCode(Running, 1)
      BY <1>r, <2>1 DEF InCode, Is, Same
    <2> QED BY <1>r, <2>2, <2>3, <2>4, <2>5, Moved DEF Same
  <1> QED BY <1>1, <1>2 DEF Rotate

LEMMA PushStep == ASSUME IInv, Push PROVE IInv'
  <1>r. /\ N \in Nat \ {0} /\ Running = frames[N] /\ Running \in Frames
        /\ Running.pc \in 1 .. 10 /\ Placed(Running) /\ (Holds(Running) <=> HoldsAt(Running))
        /\ Running.base \in Nat /\ Len(stack) = Running.base + Height(Running)
        /\ SavedAt(Running, C, Value(N), stack, wanted)
        /\ CarriedAt(Running, C, A) /\ KeptAt(Running, C, A, stack)
        /\ (Below(N) \/ Holds(Running) => ~EA)
        /\ (~Below(N) /\ ~Holds(Running) => EA = wanted)
    BY Ready
  <1>t. EA \in BOOLEAN /\ C \in BOOLEAN /\ A \in BOOLEAN /\ wanted \in BOOLEAN /\ stack \in Seq(BOOLEAN)
    BY DEF IInv, TypeOK
  <1>1. CASE At({"push_psw"}) /\ Running.kind = "function"
    <2>1. Is(Running, "function", 4, 4)
      BY <1>r, <1>1 DEF Placed, At, Is, Fn
    <2>2. Becomes(Running, 1) /\ stack' = Append(stack, C) /\ UNCHANGED <<EA, C, A, wanted>>
      <3>1. ~At({"push_acc"}) /\ At({"push_acc", "push_psw"})
        BY <1>1 DEF At
      <3> QED BY <1>r, <1>t, <1>1, <3>1 DEF Push, Advance
    <2>s. /\ stack' \in Seq(BOOLEAN) /\ Len(stack') = Len(stack) + 1
          /\ \A k \in 1 .. Len(stack) : stack'[k] = stack[k]
          /\ stack'[Len(stack) + 1] = C
      BY <1>t, <2>2
    <2>h. Height(Running) \in 0 .. 2
      BY DEF Height
    <2>3. Local
      BY <1>r, <1>t, <2>s, <2>2, <2>h DEF Local
    <2>4. ASSUME NEW g \in Frames, Follows(g, Running, 1) PROVE Good(g)
      <3>1. /\ g.kind = "function" /\ g.pc = 5 /\ Running.kind = "function" /\ Running.pc = 4
            /\ g.base = Running.base /\ g.a = Running.a /\ g.c = Running.c
            /\ g.b = Running.b /\ g.result = Running.result
        BY <1>r, <2>1, <2>4 DEF Follows, Same, Is
      <3>2. Height(Running) = 0 /\ Height(g) = 1
        BY <3>1 DEF Is, Height
      <3>3. Len(stack) = Running.base + 0 /\ Len(stack') = g.base + Height(g)
        BY <1>r, <2>s, <3>1, <3>2
      <3>4. (HoldsAt(Running) <=> HoldsAt(g))
        BY <3>1 DEF Is, HoldsAt
      <3>5. C <=> Value(N)
        BY <1>r, <3>1 DEF Is, Fn, SavedAt, CarriedAt, KeptAt
      <3>6. SavedAt(g, C', Value(N), stack', wanted)
        BY <1>r, <2>2, <2>s, <3>1, <3>3, <3>5 DEF Is, Fn, SavedAt
      <3>7. CarriedAt(g, C', A')
        BY <2>2, <2>s, <3>1, <3>3, <3>5 DEF Is, CarriedAt
      <3>8. KeptAt(g, C', A', stack')
        BY <1>r, <2>2, <2>s, <3>1, <3>3, <3>5 DEF Is, KeptAt
      <3> QED BY <1>r, <2>2, <3>3, <3>4, <3>6, <3>7, <3>8 DEF Good
    <2>5. InCode(Running, 1)
      BY <1>r, <2>1 DEF InCode, Is, Same
    <2> QED BY <1>r, <2>2, <2>3, <2>4, <2>5, Moved DEF Same
  <1>2. CASE At({"push_psw"}) /\ Running.kind = "bit_function"
    <2>1. Is(Running, "bit_function", 4, 4)
      BY <1>r, <1>2 DEF Placed, At, Is, Fn
    <2>2. Becomes(Running, 1) /\ stack' = Append(stack, C) /\ UNCHANGED <<EA, C, A, wanted>>
      <3>1. ~At({"push_acc"}) /\ At({"push_acc", "push_psw"})
        BY <1>2 DEF At
      <3> QED BY <1>r, <1>t, <1>2, <3>1 DEF Push, Advance
    <2>s. /\ stack' \in Seq(BOOLEAN) /\ Len(stack') = Len(stack) + 1
          /\ \A k \in 1 .. Len(stack) : stack'[k] = stack[k]
          /\ stack'[Len(stack) + 1] = C
      BY <1>t, <2>2
    <2>h. Height(Running) \in 0 .. 2
      BY DEF Height
    <2>3. Local
      BY <1>r, <1>t, <2>s, <2>2, <2>h DEF Local
    <2>4. ASSUME NEW g \in Frames, Follows(g, Running, 1) PROVE Good(g)
      <3>1. /\ g.kind = "bit_function" /\ g.pc = 5 /\ Running.kind = "bit_function" /\ Running.pc = 4
            /\ g.base = Running.base /\ g.a = Running.a /\ g.c = Running.c
            /\ g.b = Running.b /\ g.result = Running.result
        BY <1>r, <2>1, <2>4 DEF Follows, Same, Is
      <3>2. Height(Running) = 0 /\ Height(g) = 1
        BY <3>1 DEF Is, Height
      <3>3. Len(stack) = Running.base + 0 /\ Len(stack') = g.base + Height(g)
        BY <1>r, <2>s, <3>1, <3>2
      <3>4. (HoldsAt(Running) <=> HoldsAt(g))
        BY <3>1 DEF Is, HoldsAt
      <3>5. C <=> Value(N)
        BY <1>r, <3>1 DEF Is, Fn, SavedAt, CarriedAt, KeptAt
      <3>6. SavedAt(g, C', Value(N), stack', wanted)
        BY <1>r, <2>2, <2>s, <3>1, <3>3, <3>5 DEF Is, Fn, SavedAt
      <3>7. CarriedAt(g, C', A')
        BY <2>2, <2>s, <3>1, <3>3, <3>5 DEF Is, CarriedAt
      <3>8. KeptAt(g, C', A', stack')
        BY <1>r, <2>2, <2>s, <3>1, <3>3, <3>5 DEF Is, KeptAt
      <3> QED BY <1>r, <2>2, <3>3, <3>4, <3>6, <3>7, <3>8 DEF Good
    <2>5. InCode(Running, 1)
      BY <1>r, <2>1 DEF InCode, Is, Same
    <2> QED BY <1>r, <2>2, <2>3, <2>4, <2>5, Moved DEF Same
  <1>3. CASE At({"push_psw"}) /\ Running.kind = "isr"
    <2>1. Is(Running, "isr", 2, 2)
      BY <1>r, <1>3 DEF Placed, At, Is, Fn
    <2>2. Becomes(Running, 1) /\ stack' = Append(stack, C) /\ UNCHANGED <<EA, C, A, wanted>>
      <3>1. ~At({"push_acc"}) /\ At({"push_acc", "push_psw"})
        BY <1>3 DEF At
      <3> QED BY <1>r, <1>t, <1>3, <3>1 DEF Push, Advance
    <2>s. /\ stack' \in Seq(BOOLEAN) /\ Len(stack') = Len(stack) + 1
          /\ \A k \in 1 .. Len(stack) : stack'[k] = stack[k]
          /\ stack'[Len(stack) + 1] = C
      BY <1>t, <2>2
    <2>h. Height(Running) \in 0 .. 2
      BY DEF Height
    <2>3. Local
      BY <1>r, <1>t, <2>s, <2>2, <2>h DEF Local
    <2>4. ASSUME NEW g \in Frames, Follows(g, Running, 1) PROVE Good(g)
      <3>1. /\ g.kind = "isr" /\ g.pc = 3 /\ Running.kind = "isr" /\ Running.pc = 2
            /\ g.base = Running.base /\ g.a = Running.a /\ g.c = Running.c
            /\ g.b = Running.b /\ g.result = Running.result
        BY <1>r, <2>1, <2>4 DEF Follows, Same, Is
      <3>2. Height(Running) = 1 /\ Height(g) = 2
        BY <3>1 DEF Is, Height
      <3>3. Len(stack) = Running.base + 1 /\ Len(stack') = g.base + Height(g)
        BY <1>r, <2>s, <3>1, <3>2
      <3>4. (HoldsAt(Running) <=> HoldsAt(g))
        BY <3>1 DEF Is, HoldsAt
      <3>5. (stack[Running.base + 1] <=> Running.a) /\ (C <=> Running.c)
        BY <1>r, <3>1 DEF Is, Fn, SavedAt, CarriedAt, KeptAt
      <3>6. SavedAt(g, C', Value(N), stack', wanted)
        BY <1>r, <2>2, <2>s, <3>1, <3>3, <3>5 DEF Is, Fn, SavedAt
      <3>7. CarriedAt(g, C', A')
        BY <2>2, <2>s, <3>1, <3>3, <3>5 DEF Is, CarriedAt
      <3>8. KeptAt(g, C', A', stack')
        BY <1>r, <2>2, <2>s, <3>1, <3>3, <3>5 DEF Is, KeptAt
      <3> QED BY <1>r, <2>2, <3>3, <3>4, <3>6, <3>7, <3>8 DEF Good
    <2>5. InCode(Running, 1)
      BY <1>r, <2>1 DEF InCode, Is, Same
    <2> QED BY <1>r, <2>2, <2>3, <2>4, <2>5, Moved DEF Same
  <1>4. CASE At({"push_psw"}) /\ Running.kind = "critical_isr"
    <2>1. Is(Running, "critical_isr", 3, 3)
      BY <1>r, <1>4 DEF Placed, At, Is, Fn
    <2>2. Becomes(Running, 1) /\ stack' = Append(stack, C) /\ UNCHANGED <<EA, C, A, wanted>>
      <3>1. ~At({"push_acc"}) /\ At({"push_acc", "push_psw"})
        BY <1>4 DEF At
      <3> QED BY <1>r, <1>t, <1>4, <3>1 DEF Push, Advance
    <2>s. /\ stack' \in Seq(BOOLEAN) /\ Len(stack') = Len(stack) + 1
          /\ \A k \in 1 .. Len(stack) : stack'[k] = stack[k]
          /\ stack'[Len(stack) + 1] = C
      BY <1>t, <2>2
    <2>h. Height(Running) \in 0 .. 2
      BY DEF Height
    <2>3. Local
      BY <1>r, <1>t, <2>s, <2>2, <2>h DEF Local
    <2>4. ASSUME NEW g \in Frames, Follows(g, Running, 1) PROVE Good(g)
      <3>1. /\ g.kind = "critical_isr" /\ g.pc = 4 /\ Running.kind = "critical_isr" /\ Running.pc = 3
            /\ g.base = Running.base /\ g.a = Running.a /\ g.c = Running.c
            /\ g.b = Running.b /\ g.result = Running.result
        BY <1>r, <2>1, <2>4 DEF Follows, Same, Is
      <3>2. Height(Running) = 1 /\ Height(g) = 2
        BY <3>1 DEF Is, Height
      <3>3. Len(stack) = Running.base + 1 /\ Len(stack') = g.base + Height(g)
        BY <1>r, <2>s, <3>1, <3>2
      <3>4. (HoldsAt(Running) <=> HoldsAt(g))
        BY <3>1 DEF Is, HoldsAt
      <3>5. (stack[Running.base + 1] <=> Running.a) /\ (C <=> Running.c) /\ wanted
        BY <1>r, <3>1 DEF Is, Fn, SavedAt, CarriedAt, KeptAt
      <3>6. SavedAt(g, C', Value(N), stack', wanted)
        BY <1>r, <2>2, <2>s, <3>1, <3>3, <3>5 DEF Is, Fn, SavedAt
      <3>7. CarriedAt(g, C', A')
        BY <2>2, <2>s, <3>1, <3>3, <3>5 DEF Is, CarriedAt
      <3>8. KeptAt(g, C', A', stack')
        BY <1>r, <2>2, <2>s, <3>1, <3>3, <3>5 DEF Is, KeptAt
      <3> QED BY <1>r, <2>2, <3>3, <3>4, <3>6, <3>7, <3>8 DEF Good
    <2>5. InCode(Running, 1)
      BY <1>r, <2>1 DEF InCode, Is, Same
    <2> QED BY <1>r, <2>2, <2>3, <2>4, <2>5, Moved DEF Same
  <1>5. CASE At({"push_acc"}) /\ Running.kind = "isr"
    <2>1. Is(Running, "isr", 1, 1)
      BY <1>r, <1>5 DEF Placed, At, Is, Fn
    <2>2. Becomes(Running, 1) /\ stack' = Append(stack, A) /\ UNCHANGED <<EA, C, A, wanted>>
      <3>1. At({"push_acc"}) /\ At({"push_acc", "push_psw"})
        BY <1>5 DEF At
      <3> QED BY <1>r, <1>t, <1>5, <3>1 DEF Push, Advance
    <2>s. /\ stack' \in Seq(BOOLEAN) /\ Len(stack') = Len(stack) + 1
          /\ \A k \in 1 .. Len(stack) : stack'[k] = stack[k]
          /\ stack'[Len(stack) + 1] = A
      BY <1>t, <2>2
    <2>h. Height(Running) \in 0 .. 2
      BY DEF Height
    <2>3. Local
      BY <1>r, <1>t, <2>s, <2>2, <2>h DEF Local
    <2>4. ASSUME NEW g \in Frames, Follows(g, Running, 1) PROVE Good(g)
      <3>1. /\ g.kind = "isr" /\ g.pc = 2 /\ Running.kind = "isr" /\ Running.pc = 1
            /\ g.base = Running.base /\ g.a = Running.a /\ g.c = Running.c
            /\ g.b = Running.b /\ g.result = Running.result
        BY <1>r, <2>1, <2>4 DEF Follows, Same, Is
      <3>2. Height(Running) = 0 /\ Height(g) = 1
        BY <3>1 DEF Is, Height
      <3>3. Len(stack) = Running.base + 0 /\ Len(stack') = g.base + Height(g)
        BY <1>r, <2>s, <3>1, <3>2
      <3>4. (HoldsAt(Running) <=> HoldsAt(g))
        BY <3>1 DEF Is, HoldsAt
      <3>5. (A <=> Running.a) /\ (C <=> Running.c)
        BY <1>r, <3>1 DEF Is, Fn, SavedAt, CarriedAt, KeptAt
      <3>6. SavedAt(g, C', Value(N), stack', wanted)
        BY <1>r, <2>2, <2>s, <3>1, <3>3, <3>5 DEF Is, Fn, SavedAt
      <3>7. CarriedAt(g, C', A')
        BY <2>2, <2>s, <3>1, <3>3, <3>5 DEF Is, CarriedAt
      <3>8. KeptAt(g, C', A', stack')
        BY <1>r, <2>2, <2>s, <3>1, <3>3, <3>5 DEF Is, KeptAt
      <3> QED BY <1>r, <2>2, <3>3, <3>4, <3>6, <3>7, <3>8 DEF Good
    <2>5. InCode(Running, 1)
      BY <1>r, <2>1 DEF InCode, Is, Same
    <2> QED BY <1>r, <2>2, <2>3, <2>4, <2>5, Moved DEF Same
  <1>6. CASE At({"push_acc"}) /\ Running.kind = "critical_isr"
    <2>1. Is(Running, "critical_isr", 2, 2)
      BY <1>r, <1>6 DEF Placed, At, Is, Fn
    <2>2. Becomes(Running, 1) /\ stack' = Append(stack, A) /\ UNCHANGED <<EA, C, A, wanted>>
      <3>1. At({"push_acc"}) /\ At({"push_acc", "push_psw"})
        BY <1>6 DEF At
      <3> QED BY <1>r, <1>t, <1>6, <3>1 DEF Push, Advance
    <2>s. /\ stack' \in Seq(BOOLEAN) /\ Len(stack') = Len(stack) + 1
          /\ \A k \in 1 .. Len(stack) : stack'[k] = stack[k]
          /\ stack'[Len(stack) + 1] = A
      BY <1>t, <2>2
    <2>h. Height(Running) \in 0 .. 2
      BY DEF Height
    <2>3. Local
      BY <1>r, <1>t, <2>s, <2>2, <2>h DEF Local
    <2>4. ASSUME NEW g \in Frames, Follows(g, Running, 1) PROVE Good(g)
      <3>1. /\ g.kind = "critical_isr" /\ g.pc = 3 /\ Running.kind = "critical_isr" /\ Running.pc = 2
            /\ g.base = Running.base /\ g.a = Running.a /\ g.c = Running.c
            /\ g.b = Running.b /\ g.result = Running.result
        BY <1>r, <2>1, <2>4 DEF Follows, Same, Is
      <3>2. Height(Running) = 0 /\ Height(g) = 1
        BY <3>1 DEF Is, Height
      <3>3. Len(stack) = Running.base + 0 /\ Len(stack') = g.base + Height(g)
        BY <1>r, <2>s, <3>1, <3>2
      <3>4. (HoldsAt(Running) <=> HoldsAt(g))
        BY <3>1 DEF Is, HoldsAt
      <3>5. (A <=> Running.a) /\ (C <=> Running.c) /\ wanted
        BY <1>r, <3>1 DEF Is, Fn, SavedAt, CarriedAt, KeptAt
      <3>6. SavedAt(g, C', Value(N), stack', wanted)
        BY <1>r, <2>2, <2>s, <3>1, <3>3, <3>5 DEF Is, Fn, SavedAt
      <3>7. CarriedAt(g, C', A')
        BY <2>2, <2>s, <3>1, <3>3, <3>5 DEF Is, CarriedAt
      <3>8. KeptAt(g, C', A', stack')
        BY <1>r, <2>2, <2>s, <3>1, <3>3, <3>5 DEF Is, KeptAt
      <3> QED BY <1>r, <2>2, <3>3, <3>4, <3>6, <3>7, <3>8 DEF Good
    <2>5. InCode(Running, 1)
      BY <1>r, <2>1 DEF InCode, Is, Same
    <2> QED BY <1>r, <2>2, <2>3, <2>4, <2>5, Moved DEF Same
  <1>p. Running.kind \in {"function", "bit_function", "isr", "critical_isr"}
    BY <1>r DEF Push, Placed, At, Is, Fn
  <1> QED BY <1>r, <1>1, <1>2, <1>3, <1>4, <1>5, <1>6, <1>p DEF Push, At, Placed, Is, Fn

LEMMA PopStep == ASSUME IInv, Pop PROVE IInv'
  <1>r. /\ N \in Nat \ {0} /\ Running = frames[N] /\ Running \in Frames
        /\ Running.pc \in 1 .. 10 /\ Placed(Running) /\ (Holds(Running) <=> HoldsAt(Running))
        /\ Running.base \in Nat /\ Len(stack) = Running.base + Height(Running)
        /\ SavedAt(Running, C, Value(N), stack, wanted)
        /\ CarriedAt(Running, C, A) /\ KeptAt(Running, C, A, stack)
        /\ (Below(N) \/ Holds(Running) => ~EA)
        /\ (~Below(N) /\ ~Holds(Running) => EA = wanted)
    BY Ready
  <1>t. EA \in BOOLEAN /\ C \in BOOLEAN /\ A \in BOOLEAN /\ wanted \in BOOLEAN /\ stack \in Seq(BOOLEAN)
    BY DEF IInv, TypeOK
  <1>1. CASE At({"pop_psw"}) /\ Running.kind = "function"
    <2>1. Is(Running, "function", 6, 6)
      BY <1>r, <1>1 DEF Placed, At, Is, Fn
    <2>2. Becomes(Running, 1) /\ stack' = Front(stack) /\ C' = Last(stack) /\ UNCHANGED <<EA, A, wanted>>
      <3>1. ~At({"pop_acc"}) /\ At({"pop_acc", "pop_psw"})
        BY <1>1 DEF At
      <3> QED BY <1>r, <1>t, <1>1, <3>1 DEF Pop, Advance
    <2>h. Len(stack) > Running.base /\ Len(stack) \in Nat
      BY <1>r, <2>1 DEF Height, Is
    <2>s. /\ stack' \in Seq(BOOLEAN) /\ Len(stack') = Len(stack) - 1
          /\ \A k \in 1 .. Len(stack) - 1 : stack'[k] = stack[k]
          /\ C' = stack[Len(stack)] /\ C' \in BOOLEAN
      <3>1. Len(stack) > 0 /\ stack[Len(stack)] \in BOOLEAN
        BY <1>r, <1>t, <2>h
      <3> QED BY <1>t, <2>2, <3>1, FrontFacts DEF Last
    <2>3. Local
      BY <1>r, <1>t, <2>s, <2>2, <2>h DEF Local
    <2>4. ASSUME NEW g \in Frames, Follows(g, Running, 1) PROVE Good(g)
      <3>1. /\ g.kind = "function" /\ g.pc = 7 /\ Running.kind = "function" /\ Running.pc = 6
            /\ g.base = Running.base /\ g.a = Running.a /\ g.c = Running.c
            /\ g.b = Running.b /\ g.result = Running.result
        BY <1>r, <2>1, <2>4 DEF Follows, Same, Is
      <3>2. Height(Running) = 1 /\ Height(g) = 0
        BY <3>1 DEF Is, Height
      <3>3. Len(stack) = Running.base + 1 /\ Len(stack') = g.base + Height(g)
        BY <1>r, <2>s, <3>1, <3>2
      <3>4. (HoldsAt(Running) <=> HoldsAt(g))
        BY <3>1 DEF Is, HoldsAt
      <3>5. stack[Running.base + 1] <=> Value(N)
        BY <1>r, <3>1 DEF Is, Fn, SavedAt, CarriedAt, KeptAt
      <3>6. SavedAt(g, C', Value(N), stack', wanted)
        BY <1>r, <2>2, <2>s, <3>1, <3>3, <3>5 DEF Is, Fn, SavedAt
      <3>7. CarriedAt(g, C', A')
        BY <2>2, <2>s, <3>1, <3>3, <3>5 DEF Is, CarriedAt
      <3>8. KeptAt(g, C', A', stack')
        BY <1>r, <2>2, <2>s, <3>1, <3>3, <3>5 DEF Is, KeptAt
      <3> QED BY <1>r, <2>2, <3>3, <3>4, <3>6, <3>7, <3>8 DEF Good
    <2>5. InCode(Running, 1)
      BY <1>r, <2>1 DEF InCode, Is, Same
    <2> QED BY <1>r, <2>2, <2>3, <2>4, <2>5, Moved DEF Same
  <1>2. CASE At({"pop_psw"}) /\ Running.kind = "bit_function"
    <2>1. Is(Running, "bit_function", 7, 7)
      BY <1>r, <1>2 DEF Placed, At, Is, Fn
    <2>2. Becomes(Running, 1) /\ stack' = Front(stack) /\ C' = Last(stack) /\ UNCHANGED <<EA, A, wanted>>
      <3>1. ~At({"pop_acc"}) /\ At({"pop_acc", "pop_psw"})
        BY <1>2 DEF At
      <3> QED BY <1>r, <1>t, <1>2, <3>1 DEF Pop, Advance
    <2>h. Len(stack) > Running.base /\ Len(stack) \in Nat
      BY <1>r, <2>1 DEF Height, Is
    <2>s. /\ stack' \in Seq(BOOLEAN) /\ Len(stack') = Len(stack) - 1
          /\ \A k \in 1 .. Len(stack) - 1 : stack'[k] = stack[k]
          /\ C' = stack[Len(stack)] /\ C' \in BOOLEAN
      <3>1. Len(stack) > 0 /\ stack[Len(stack)] \in BOOLEAN
        BY <1>r, <1>t, <2>h
      <3> QED BY <1>t, <2>2, <3>1, FrontFacts DEF Last
    <2>3. Local
      BY <1>r, <1>t, <2>s, <2>2, <2>h DEF Local
    <2>4. ASSUME NEW g \in Frames, Follows(g, Running, 1) PROVE Good(g)
      <3>1. /\ g.kind = "bit_function" /\ g.pc = 8 /\ Running.kind = "bit_function" /\ Running.pc = 7
            /\ g.base = Running.base /\ g.a = Running.a /\ g.c = Running.c
            /\ g.b = Running.b /\ g.result = Running.result
        BY <1>r, <2>1, <2>4 DEF Follows, Same, Is
      <3>2. Height(Running) = 1 /\ Height(g) = 0
        BY <3>1 DEF Is, Height
      <3>3. Len(stack) = Running.base + 1 /\ Len(stack') = g.base + Height(g)
        BY <1>r, <2>s, <3>1, <3>2
      <3>4. (HoldsAt(Running) <=> HoldsAt(g))
        BY <3>1 DEF Is, HoldsAt
      <3>5. (stack[Running.base + 1] <=> Value(N)) /\ (A <=> Running.result)
        BY <1>r, <3>1 DEF Is, Fn, SavedAt, CarriedAt, KeptAt
      <3>6. SavedAt(g, C', Value(N), stack', wanted)
        BY <1>r, <2>2, <2>s, <3>1, <3>3, <3>5 DEF Is, Fn, SavedAt
      <3>7. CarriedAt(g, C', A')
        BY <2>2, <2>s, <3>1, <3>3, <3>5 DEF Is, CarriedAt
      <3>8. KeptAt(g, C', A', stack')
        BY <1>r, <2>2, <2>s, <3>1, <3>3, <3>5 DEF Is, KeptAt
      <3> QED BY <1>r, <2>2, <3>3, <3>4, <3>6, <3>7, <3>8 DEF Good
    <2>5. InCode(Running, 1)
      BY <1>r, <2>1 DEF InCode, Is, Same
    <2> QED BY <1>r, <2>2, <2>3, <2>4, <2>5, Moved DEF Same
  <1>3. CASE At({"pop_psw"}) /\ Running.kind = "isr"
    <2>1. Is(Running, "isr", 4, 4)
      BY <1>r, <1>3 DEF Placed, At, Is, Fn
    <2>2. Becomes(Running, 1) /\ stack' = Front(stack) /\ C' = Last(stack) /\ UNCHANGED <<EA, A, wanted>>
      <3>1. ~At({"pop_acc"}) /\ At({"pop_acc", "pop_psw"})
        BY <1>3 DEF At
      <3> QED BY <1>r, <1>t, <1>3, <3>1 DEF Pop, Advance
    <2>h. Len(stack) > Running.base /\ Len(stack) \in Nat
      BY <1>r, <2>1 DEF Height, Is
    <2>s. /\ stack' \in Seq(BOOLEAN) /\ Len(stack') = Len(stack) - 1
          /\ \A k \in 1 .. Len(stack) - 1 : stack'[k] = stack[k]
          /\ C' = stack[Len(stack)] /\ C' \in BOOLEAN
      <3>1. Len(stack) > 0 /\ stack[Len(stack)] \in BOOLEAN
        BY <1>r, <1>t, <2>h
      <3> QED BY <1>t, <2>2, <3>1, FrontFacts DEF Last
    <2>3. Local
      BY <1>r, <1>t, <2>s, <2>2, <2>h DEF Local
    <2>4. ASSUME NEW g \in Frames, Follows(g, Running, 1) PROVE Good(g)
      <3>1. /\ g.kind = "isr" /\ g.pc = 5 /\ Running.kind = "isr" /\ Running.pc = 4
            /\ g.base = Running.base /\ g.a = Running.a /\ g.c = Running.c
            /\ g.b = Running.b /\ g.result = Running.result
        BY <1>r, <2>1, <2>4 DEF Follows, Same, Is
      <3>2. Height(Running) = 2 /\ Height(g) = 1
        BY <3>1 DEF Is, Height
      <3>3. Len(stack) = Running.base + 2 /\ Len(stack') = g.base + Height(g)
        BY <1>r, <2>s, <3>1, <3>2
      <3>4. (HoldsAt(Running) <=> HoldsAt(g))
        BY <3>1 DEF Is, HoldsAt
      <3>5. (stack[Running.base + 1] <=> Running.a) /\ (stack[Running.base + 2] <=> Running.c)
        BY <1>r, <3>1 DEF Is, Fn, SavedAt, CarriedAt, KeptAt
      <3>6. SavedAt(g, C', Value(N), stack', wanted)
        BY <1>r, <2>2, <2>s, <3>1, <3>3, <3>5 DEF Is, Fn, SavedAt
      <3>7. CarriedAt(g, C', A')
        BY <2>2, <2>s, <3>1, <3>3, <3>5 DEF Is, CarriedAt
      <3>8. KeptAt(g, C', A', stack')
        BY <1>r, <2>2, <2>s, <3>1, <3>3, <3>5 DEF Is, KeptAt
      <3> QED BY <1>r, <2>2, <3>3, <3>4, <3>6, <3>7, <3>8 DEF Good
    <2>5. InCode(Running, 1)
      BY <1>r, <2>1 DEF InCode, Is, Same
    <2> QED BY <1>r, <2>2, <2>3, <2>4, <2>5, Moved DEF Same
  <1>4. CASE At({"pop_psw"}) /\ Running.kind = "critical_isr"
    <2>1. Is(Running, "critical_isr", 5, 5)
      BY <1>r, <1>4 DEF Placed, At, Is, Fn
    <2>2. Becomes(Running, 1) /\ stack' = Front(stack) /\ C' = Last(stack) /\ UNCHANGED <<EA, A, wanted>>
      <3>1. ~At({"pop_acc"}) /\ At({"pop_acc", "pop_psw"})
        BY <1>4 DEF At
      <3> QED BY <1>r, <1>t, <1>4, <3>1 DEF Pop, Advance
    <2>h. Len(stack) > Running.base /\ Len(stack) \in Nat
      BY <1>r, <2>1 DEF Height, Is
    <2>s. /\ stack' \in Seq(BOOLEAN) /\ Len(stack') = Len(stack) - 1
          /\ \A k \in 1 .. Len(stack) - 1 : stack'[k] = stack[k]
          /\ C' = stack[Len(stack)] /\ C' \in BOOLEAN
      <3>1. Len(stack) > 0 /\ stack[Len(stack)] \in BOOLEAN
        BY <1>r, <1>t, <2>h
      <3> QED BY <1>t, <2>2, <3>1, FrontFacts DEF Last
    <2>3. Local
      BY <1>r, <1>t, <2>s, <2>2, <2>h DEF Local
    <2>4. ASSUME NEW g \in Frames, Follows(g, Running, 1) PROVE Good(g)
      <3>1. /\ g.kind = "critical_isr" /\ g.pc = 6 /\ Running.kind = "critical_isr" /\ Running.pc = 5
            /\ g.base = Running.base /\ g.a = Running.a /\ g.c = Running.c
            /\ g.b = Running.b /\ g.result = Running.result
        BY <1>r, <2>1, <2>4 DEF Follows, Same, Is
      <3>2. Height(Running) = 2 /\ Height(g) = 1
        BY <3>1 DEF Is, Height
      <3>3. Len(stack) = Running.base + 2 /\ Len(stack') = g.base + Height(g)
        BY <1>r, <2>s, <3>1, <3>2
      <3>4. (HoldsAt(Running) <=> HoldsAt(g))
        BY <3>1 DEF Is, HoldsAt
      <3>5. (stack[Running.base + 1] <=> Running.a) /\ (stack[Running.base + 2] <=> Running.c) /\ wanted
        BY <1>r, <3>1 DEF Is, Fn, SavedAt, CarriedAt, KeptAt
      <3>6. SavedAt(g, C', Value(N), stack', wanted)
        BY <1>r, <2>2, <2>s, <3>1, <3>3, <3>5 DEF Is, Fn, SavedAt
      <3>7. CarriedAt(g, C', A')
        BY <2>2, <2>s, <3>1, <3>3, <3>5 DEF Is, CarriedAt
      <3>8. KeptAt(g, C', A', stack')
        BY <1>r, <2>2, <2>s, <3>1, <3>3, <3>5 DEF Is, KeptAt
      <3> QED BY <1>r, <2>2, <3>3, <3>4, <3>6, <3>7, <3>8 DEF Good
    <2>5. InCode(Running, 1)
      BY <1>r, <2>1 DEF InCode, Is, Same
    <2> QED BY <1>r, <2>2, <2>3, <2>4, <2>5, Moved DEF Same
  <1>5. CASE At({"pop_acc"}) /\ Running.kind = "isr"
    <2>1. Is(Running, "isr", 5, 5)
      BY <1>r, <1>5 DEF Placed, At, Is, Fn
    <2>2. Becomes(Running, 1) /\ stack' = Front(stack) /\ A' = Last(stack) /\ UNCHANGED <<EA, C, wanted>>
      <3>1. At({"pop_acc"}) /\ At({"pop_acc", "pop_psw"})
        BY <1>5 DEF At
      <3> QED BY <1>r, <1>t, <1>5, <3>1 DEF Pop, Advance
    <2>h. Len(stack) > Running.base /\ Len(stack) \in Nat
      BY <1>r, <2>1 DEF Height, Is
    <2>s. /\ stack' \in Seq(BOOLEAN) /\ Len(stack') = Len(stack) - 1
          /\ \A k \in 1 .. Len(stack) - 1 : stack'[k] = stack[k]
          /\ A' = stack[Len(stack)] /\ A' \in BOOLEAN
      <3>1. Len(stack) > 0 /\ stack[Len(stack)] \in BOOLEAN
        BY <1>r, <1>t, <2>h
      <3> QED BY <1>t, <2>2, <3>1, FrontFacts DEF Last
    <2>3. Local
      BY <1>r, <1>t, <2>s, <2>2, <2>h DEF Local
    <2>4. ASSUME NEW g \in Frames, Follows(g, Running, 1) PROVE Good(g)
      <3>1. /\ g.kind = "isr" /\ g.pc = 6 /\ Running.kind = "isr" /\ Running.pc = 5
            /\ g.base = Running.base /\ g.a = Running.a /\ g.c = Running.c
            /\ g.b = Running.b /\ g.result = Running.result
        BY <1>r, <2>1, <2>4 DEF Follows, Same, Is
      <3>2. Height(Running) = 1 /\ Height(g) = 0
        BY <3>1 DEF Is, Height
      <3>3. Len(stack) = Running.base + 1 /\ Len(stack') = g.base + Height(g)
        BY <1>r, <2>s, <3>1, <3>2
      <3>4. (HoldsAt(Running) <=> HoldsAt(g))
        BY <3>1 DEF Is, HoldsAt
      <3>5. (stack[Running.base + 1] <=> Running.a) /\ (C <=> Running.c)
        BY <1>r, <3>1 DEF Is, Fn, SavedAt, CarriedAt, KeptAt
      <3>6. SavedAt(g, C', Value(N), stack', wanted)
        BY <1>r, <2>2, <2>s, <3>1, <3>3, <3>5 DEF Is, Fn, SavedAt
      <3>7. CarriedAt(g, C', A')
        BY <2>2, <2>s, <3>1, <3>3, <3>5 DEF Is, CarriedAt
      <3>8. KeptAt(g, C', A', stack')
        BY <1>r, <2>2, <2>s, <3>1, <3>3, <3>5 DEF Is, KeptAt
      <3> QED BY <1>r, <2>2, <3>3, <3>4, <3>6, <3>7, <3>8 DEF Good
    <2>5. InCode(Running, 1)
      BY <1>r, <2>1 DEF InCode, Is, Same
    <2> QED BY <1>r, <2>2, <2>3, <2>4, <2>5, Moved DEF Same
  <1>6. CASE At({"pop_acc"}) /\ Running.kind = "critical_isr"
    <2>1. Is(Running, "critical_isr", 6, 6)
      BY <1>r, <1>6 DEF Placed, At, Is, Fn
    <2>2. Becomes(Running, 1) /\ stack' = Front(stack) /\ A' = Last(stack) /\ UNCHANGED <<EA, C, wanted>>
      <3>1. At({"pop_acc"}) /\ At({"pop_acc", "pop_psw"})
        BY <1>6 DEF At
      <3> QED BY <1>r, <1>t, <1>6, <3>1 DEF Pop, Advance
    <2>h. Len(stack) > Running.base /\ Len(stack) \in Nat
      BY <1>r, <2>1 DEF Height, Is
    <2>s. /\ stack' \in Seq(BOOLEAN) /\ Len(stack') = Len(stack) - 1
          /\ \A k \in 1 .. Len(stack) - 1 : stack'[k] = stack[k]
          /\ A' = stack[Len(stack)] /\ A' \in BOOLEAN
      <3>1. Len(stack) > 0 /\ stack[Len(stack)] \in BOOLEAN
        BY <1>r, <1>t, <2>h
      <3> QED BY <1>t, <2>2, <3>1, FrontFacts DEF Last
    <2>3. Local
      BY <1>r, <1>t, <2>s, <2>2, <2>h DEF Local
    <2>4. ASSUME NEW g \in Frames, Follows(g, Running, 1) PROVE Good(g)
      <3>1. /\ g.kind = "critical_isr" /\ g.pc = 7 /\ Running.kind = "critical_isr" /\ Running.pc = 6
            /\ g.base = Running.base /\ g.a = Running.a /\ g.c = Running.c
            /\ g.b = Running.b /\ g.result = Running.result
        BY <1>r, <2>1, <2>4 DEF Follows, Same, Is
      <3>2. Height(Running) = 1 /\ Height(g) = 0
        BY <3>1 DEF Is, Height
      <3>3. Len(stack) = Running.base + 1 /\ Len(stack') = g.base + Height(g)
        BY <1>r, <2>s, <3>1, <3>2
      <3>4. (HoldsAt(Running) <=> HoldsAt(g))
        BY <3>1 DEF Is, HoldsAt
      <3>5. (stack[Running.base + 1] <=> Running.a) /\ (C <=> Running.c) /\ wanted
        BY <1>r, <3>1 DEF Is, Fn, SavedAt, CarriedAt, KeptAt
      <3>6. SavedAt(g, C', Value(N), stack', wanted)
        BY <1>r, <2>2, <2>s, <3>1, <3>3, <3>5 DEF Is, Fn, SavedAt
      <3>7. CarriedAt(g, C', A')
        BY <2>2, <2>s, <3>1, <3>3, <3>5 DEF Is, CarriedAt
      <3>8. KeptAt(g, C', A', stack')
        BY <1>r, <2>2, <2>s, <3>1, <3>3, <3>5 DEF Is, KeptAt
      <3> QED BY <1>r, <2>2, <3>3, <3>4, <3>6, <3>7, <3>8 DEF Good
    <2>5. InCode(Running, 1)
      BY <1>r, <2>1 DEF InCode, Is, Same
    <2> QED BY <1>r, <2>2, <2>3, <2>4, <2>5, Moved DEF Same
  <1>p. Running.kind \in {"function", "bit_function", "isr", "critical_isr"}
    BY <1>r DEF Pop, Placed, At, Is, Fn
  <1> QED BY <1>r, <1>1, <1>2, <1>3, <1>4, <1>5, <1>6, <1>p DEF Pop, At, Placed, Is, Fn

-----------------------------------------------------------------------------
(* Bodies, calls and returns.                                              *)

LEMMA ComputeStep == ASSUME IInv, Compute PROVE IInv'
  <1>r. /\ N \in Nat \ {0} /\ Running = frames[N] /\ Running \in Frames
        /\ Running.pc \in DOMAIN Code[Running.kind]
        /\ Running.pc \in 1 .. 10 /\ Placed(Running) /\ (Holds(Running) <=> HoldsAt(Running))
        /\ Running.base \in Nat /\ Len(stack) = Running.base + Height(Running)
        /\ SavedAt(Running, C, Value(N), stack, wanted)
        /\ KeptAt(Running, C, A, stack)
        /\ (Below(N) \/ Holds(Running) => ~EA)
        /\ (~Below(N) /\ ~Holds(Running) => EA = wanted)
    BY Ready
  <1>t. EA \in BOOLEAN /\ C \in BOOLEAN /\ A \in BOOLEAN /\ wanted \in BOOLEAN /\ stack \in Seq(BOOLEAN)
    BY DEF IInv, TypeOK
  <1>b. \/ Is(Running, "main", 1, 1) \/ Fn(Running, 5, 5) \/ Is(Running, "statement", 4, 4)
        \/ Is(Running, "isr", 3, 3) \/ Is(Running, "critical_isr", 4, 4)
    BY <1>r DEF Compute, At, Placed
  <1>c. C' \in BOOLEAN /\ A' \in BOOLEAN /\ EA' = EA /\ stack' = stack /\ wanted' = wanted
    BY DEF Compute
  <1>l. Local
    BY <1>t, <1>c DEF Local
  <1>1. CASE UNCHANGED frames
    <2>1. frames' = [frames EXCEPT ![Len(frames)] = Running]
      <3>1. frames \in Seq(Frames) /\ Running = frames[Len(frames)]
        BY DEF IInv, TypeOK, Running, Last
      <3> QED BY <1>1, <3>1
    <2>2. SavedAt(Running, C', Value(N), stack', wanted)
      BY <1>r, <1>b, <1>c DEF SavedAt, Is, Fn
    <2>3. CarriedAt(Running, C', A')
      BY <1>b DEF CarriedAt, Is, Fn
    <2>4. KeptAt(Running, C', A', stack')
      BY <1>r, <1>b, <1>c DEF KeptAt, Is, Fn
    <2> QED BY <1>r, <1>t, <1>c, <2>1, <2>2, <2>3, <2>4, TopStep
  <1>2. ASSUME Running.kind = "bit_function", Becomes([Running EXCEPT !.result = C'], 1)
        PROVE  IInv'
    <2> DEFINE f == [Running EXCEPT !.result = C']
    <2>1. /\ f \in Frames /\ Same(f, Running) /\ f.pc = 5 /\ f.kind = "bit_function" /\ f.result = C'
          /\ f.b = Running.b /\ Becomes(f, 1) /\ Running.pc = 5
      BY <1>2, <1>r, <1>b, <1>c DEF Frames, Same, Is, Fn
    <2> HIDE DEF f
    <2>2. ASSUME NEW g \in Frames, Follows(g, f, 1) PROVE Good(g)
      <3>1. g.kind = "bit_function" /\ g.pc = 6 /\ g.base = Running.base /\ g.result = C'
        BY <2>1, <2>2 DEF Follows, Same
      <3>2. Height(g) = 1 /\ Height(Running) = 1 /\ HoldsAt(g) /\ HoldsAt(Running)
        BY <1>2, <2>1, <3>1 DEF Height, HoldsAt, Is
      <3>3. stack[Running.base + 1] <=> Value(N)
        BY <1>r, <1>2, <2>1 DEF SavedAt, Is
      <3>4. SavedAt(g, C', Value(N), stack', wanted)
        BY <1>c, <3>1, <3>3 DEF SavedAt, Is, Fn
      <3>5. CarriedAt(g, C', A') /\ KeptAt(g, C', A', stack')
        BY <3>1 DEF CarriedAt, KeptAt, Is
      <3> QED BY <1>r, <1>c, <3>1, <3>2, <3>4, <3>5 DEF Good
    <2> QED BY <1>l, <2>1, <2>2, Moved DEF InCode
  <1>3. ASSUME Running.kind \notin {"main", "bit_function"}, Advance
        PROVE  IInv'
    <2>1. Becomes(Running, 1) /\ Same(Running, Running) /\ InCode(Running, 1)
      BY <1>3, <1>b DEF Advance, Same, InCode, Is, Fn
    <2>2. ASSUME NEW g \in Frames, Follows(g, Running, 1) PROVE Good(g)
      <3>a. /\ g.kind = Running.kind /\ g.pc = Running.pc + 1 /\ g.base = Running.base
            /\ g.b = Running.b /\ g.a = Running.a /\ g.c = Running.c
        BY <2>2 DEF Follows, Same
      <3>b. \/ Running.kind = "function" /\ Running.pc = 5
            \/ Running.kind = "statement" /\ Running.pc = 4
            \/ Running.kind = "isr" /\ Running.pc = 3
            \/ Running.kind = "critical_isr" /\ Running.pc = 4
        BY <1>r, <1>b, <1>3 DEF Is, Fn
      <3>1. \/ Is(Running, "function", 5, 5) /\ Is(g, "function", 6, 6)
            \/ Is(Running, "statement", 4, 4) /\ Is(g, "statement", 5, 5)
            \/ Is(Running, "isr", 3, 3) /\ Is(g, "isr", 4, 4)
            \/ Is(Running, "critical_isr", 4, 4) /\ Is(g, "critical_isr", 5, 5)
        BY <3>a, <3>b DEF Is
      <3>2. Height(g) = Height(Running) /\ (HoldsAt(g) <=> HoldsAt(Running))
        BY <3>1 DEF Height, HoldsAt, Is
      <3>3. SavedAt(g, C', Value(N), stack', wanted)
        BY <1>r, <1>c, <3>a, <3>1 DEF SavedAt, Is, Fn
      <3>4. CarriedAt(g, C', A')
        BY <3>1 DEF CarriedAt, Is
      <3>5. KeptAt(g, C', A', stack')
        BY <1>r, <1>c, <3>a, <3>1 DEF KeptAt, Is
      <3> QED BY <1>r, <1>c, <3>a, <3>2, <3>3, <3>4, <3>5 DEF Good
    <2> QED BY <1>r, <1>l, <2>1, <2>2, Moved
  <1> QED BY <1>1, <1>2, <1>3 DEF Compute

\* The program writes EA when nothing holds it.
LEMMA WriteEAStep == ASSUME IInv, WriteEA PROVE IInv'
  <1>1. /\ N \in Nat \ {0} /\ DOMAIN frames = 1 .. N
        /\ \A i \in 1 .. N : Placed(frames[i]) /\ (Holds(frames[i]) <=> HoldsAt(frames[i]))
    BY FrameTypes DEF IInv
  <1>2. /\ EA' \in BOOLEAN /\ wanted' = EA'
        /\ C' = C /\ A' = A /\ stack' = stack /\ frames' = frames /\ N' = N
        /\ \A i \in 1 .. N : /\ ~Holds(frames[i])
                             /\ frames[i].kind \in Isr => Instruction(frames[i]) # "clr_ea"
    BY <1>1 DEF WriteEA, N
  <1>3. ASSUME NEW i \in 1 .. N PROVE Saved(i)' /\ Carried(i)' /\ Kept(i)'
    <2>1. ~HoldsAt(frames[i]) /\ ~Is(frames[i], "critical_isr", 1, 1)
      <3>1. Placed(frames[i]) /\ ~HoldsAt(frames[i])
        BY <1>1, <1>2
      <3>2. frames[i].kind \in Isr => Instruction(frames[i]) # "clr_ea"
        BY <1>2
      <3>3. Is(frames[i], "critical_isr", 1, 1) => frames[i].kind \in Isr
        BY DEF Is, Isr
      <3>4. Is(frames[i], "critical_isr", 1, 1) => Instruction(frames[i]) = "clr_ea"
        BY <3>1 DEF Placed
      <3> QED BY <3>1, <3>2, <3>3, <3>4
    <2>2. VC(i)' = VC(i) /\ VA(i)' = VA(i)
      BY <1>2 DEF VC, VA
    <2>3. Saved(i) /\ Carried(i) /\ Kept(i)
      BY DEF IInv
    <2>4. frames[i].pc \in 1 .. 10
      BY FrameTypes DEF IInv, Frames
    <2>5. SavedAt(frames[i], VC(i), Value(i)', stack, wanted')
      BY <2>1, <2>3, <2>4 DEF Saved, SavedAt, HoldsAt, Is, Fn
    <2>6. Saved(i)'
      BY <1>2, <2>2, <2>5 DEF Saved
    <2>7. Carried(i)' /\ Kept(i)'
      BY <1>2, <2>2, <2>3 DEF Carried, Kept
    <2> QED BY <2>6, <2>7
  <1>4. TypeOK'
    BY <1>2 DEF IInv, TypeOK
  <1>5. Shape'
    BY <1>2 DEF IInv, Shape
  <1>6. CriticalExclusive' /\ HeldClear' /\ EnableRestored'
    <2>1. CriticalExclusive'
      BY <1>2 DEF IInv, CriticalExclusive
    <2>2. HeldClear'
      BY <1>2 DEF HeldClear
    <2> QED BY <1>2, <2>1, <2>2 DEF EnableRestored
  <1> QED BY <1>2, <1>3, <1>4, <1>5, <1>6 DEF IInv

\* A body enters critical code, or an interrupt comes.
LEMMA AppendStep ==
  ASSUME IInv, NEW h \in Frames, h.pc = 1, h.kind # "main", h.base = Len(stack),
         frames' = Append(frames, h), Len(frames) < MaxFrames,
         UNCHANGED <<EA, C, A, stack, wanted>>,
         \/ h.kind \in Critical /\ Instruction(Running) = "body"
         \/ h.kind \in Isr /\ EA /\ h.c = C /\ h.a = A
  PROVE  IInv'
  <1>1. /\ N \in Nat \ {0} /\ DOMAIN frames = 1 .. N
        /\ \A i \in 1 .. N : /\ Placed(frames[i]) /\ (Holds(frames[i]) <=> HoldsAt(frames[i]))
                             /\ Height(frames[i]) \in 0 .. 2 /\ frames[i].base \in Nat
                             /\ frames[i].pc \in DOMAIN Code[frames[i].kind]
    BY FrameTypes DEF IInv
  <1>2. frames \in Seq(Frames) /\ N = Len(frames)
    BY DEF IInv, TypeOK, N
  <1>3. /\ frames' \in Seq(Frames) /\ N' = N + 1 /\ frames'[N + 1] = h
        /\ \A i \in 1 .. N : frames'[i] = frames[i]
    BY <1>2, AppendFacts DEF N
  <1>4. \A i \in 1 .. N + 1 : i \in 1 .. N \/ i = N + 1
    BY <1>1
  <1>5. h.pc \in DOMAIN Code[h.kind] /\ ~Holds(h) /\ Height(h) = 0
    <2>1. h.pc \in DOMAIN Code[h.kind]
      BY CodeLengths DEF Frames
    <2>2. ~HoldsAt(h) /\ Height(h) = 0
      BY DEF HoldsAt, Height, Is
    <2> QED BY <2>1, <2>2, Places
  <1>6. h.kind \in Isr => EA = wanted /\ wanted /\ \A i \in 1 .. N : ~Holds(frames[i])
    <2> HAVE h.kind \in Isr
    <2>1. EA
      BY DEF Isr, Critical
    <2>2. \A i \in 1 .. N : ~Holds(frames[i])
      BY <2>1 DEF IInv, HeldClear
    <2>3. EA = wanted
      BY <1>1, <2>2 DEF IInv, EnableRestored
    <2> QED BY <2>1, <2>2, <2>3
  <1>7. \A i \in 1 .. N : Value(i)' = Value(i)
    <2> SUFFICES ASSUME NEW i \in 1 .. N PROVE Value(i)' = Value(i)
      OBVIOUS
    <2>1. \A k \in 1 .. i - 1 : frames'[k] = frames[k]
      BY <1>1, <1>3
    <2>2. Below(i)' = Below(i)
      BY <2>1 DEF Below, Holds
    <2> QED BY <2>2 DEF Value
  <1>8. ASSUME NEW i \in 1 .. N PROVE Saved(i)' /\ Carried(i)' /\ Kept(i)'
    <2>1. Saved(i) /\ Carried(i) /\ Kept(i)
      BY DEF IInv
    <2>2. frames'[i] = frames[i] /\ i # N' /\ VC(i)' = frames'[i + 1].c /\ VA(i)' = frames'[i + 1].a
      BY <1>1, <1>3 DEF VC, VA
    <2>3. CASE i # N \/ h.kind \in Isr
      <3>1. VC(i)' = VC(i) /\ VA(i)' = VA(i)
        <4>1. CASE i # N
          BY <1>1, <1>3, <2>2, <4>1 DEF VC, VA
        <4>2. CASE i = N
          BY <1>3, <2>2, <2>3, <4>2 DEF VC, VA, Isr, Critical
        <4> QED BY <4>1, <4>2
      <3> QED BY <1>7, <2>1, <2>2, <3>1 DEF Saved, Carried, Kept
    <2>4. CASE i = N /\ h.kind \notin Isr
      <3>1. Instruction(frames[i]) = "body"
        BY <2>4 DEF Running, Last, N
      <3>2. \/ Is(frames[i], "main", 1, 1) \/ Fn(frames[i], 5, 5) \/ Is(frames[i], "statement", 4, 4)
            \/ Is(frames[i], "isr", 3, 3) \/ Is(frames[i], "critical_isr", 4, 4)
        BY <1>1, <3>1 DEF Placed
      <3>3. SavedAt(frames[i], VC(i)', Value(i), stack, wanted)
        BY <2>1, <3>2 DEF Saved, SavedAt, Is, Fn
      <3>4. CarriedAt(frames[i], VC(i)', VA(i)')
        BY <3>2 DEF CarriedAt, Is, Fn
      <3>5. KeptAt(frames[i], VC(i)', VA(i)', stack)
        BY <2>1, <3>2 DEF Kept, KeptAt, Is, Fn
      <3> QED BY <1>7, <2>2, <3>3, <3>4, <3>5 DEF Saved, Carried, Kept
    <2> QED BY <2>3, <2>4
  <1>9. ASSUME NEW i, i = N + 1 PROVE Saved(i)' /\ Carried(i)' /\ Kept(i)'
    <2>1. VC(i)' = C /\ VA(i)' = A /\ frames'[i] = h
      BY <1>3, <1>9 DEF VC, VA
    <2>2. Is(h, "critical_isr", 1, 7) => wanted
      BY <1>6 DEF Is, Isr
    <2>3. SavedAt(h, C, Value(i)', stack, wanted)
      BY <2>2 DEF SavedAt, Is, Fn
    <2>4. CarriedAt(h, C, A)
      BY DEF CarriedAt, Is
    <2>5. KeptAt(h, C, A, stack)
      BY DEF KeptAt, Is, Isr, Critical
    <2> QED BY <2>1, <2>3, <2>4, <2>5 DEF Saved, Carried, Kept
  <1>10. TypeOK'
    <2>1. \A i \in 1 .. N + 1 : frames'[i].pc \in DOMAIN Code[frames'[i].kind]
      BY <1>1, <1>3, <1>4, <1>5
    <2>2. frames' # << >> /\ Len(frames') <= MaxFrames /\ DOMAIN frames' = 1 .. N + 1
      <3>1. Len(frames') = N + 1 /\ N + 1 # 0 /\ N + 1 <= MaxFrames
        BY <1>1, <1>2, <1>3, CriticalAssumption DEF N
      <3> QED BY <1>3, <3>1
    <2> QED BY <1>3, <2>1, <2>2 DEF IInv, TypeOK
  <1>11. Shape'
    <2>0. Shape /\ h.base = frames[N].base + Height(frames[N])
      BY DEF IInv, Shape
    <2>1. frames'[1].kind = "main" /\ frames'[1].base = 0
      BY <1>1, <1>3, <2>0 DEF Shape
    <2>2. \A i \in 1 .. N : frames'[i + 1].base = frames'[i].base + Height(frames'[i])
      <3>1. \A i \in 1 .. N - 1 : i \in 1 .. N /\ i + 1 \in 1 .. N
        BY <1>1
      <3>2. \A i \in 1 .. N : i \in 1 .. N - 1 \/ i = N
        BY <1>1
      <3> QED BY <1>1, <1>3, <2>0, <3>1, <3>2 DEF Shape
    <2>3. \A i, j \in 1 .. N + 1 : i < j => frames'[i].base + Height(frames'[i]) <= frames'[j].base
      <3> SUFFICES ASSUME NEW i \in 1 .. N + 1, NEW j \in 1 .. N + 1, i < j
                   PROVE  frames'[i].base + Height(frames'[i]) <= frames'[j].base
        OBVIOUS
      <3>1. i \in 1 .. N
        BY <1>1
      <3>2. CASE j \in 1 .. N
        BY <1>3, <2>0, <3>1, <3>2 DEF Shape
      <3>3. CASE j = N + 1
        <4>1. CASE i = N
          BY <1>1, <1>3, <2>0, <3>1, <3>3, <4>1
        <4>2. CASE i # N
          <5>1. N \in 1 .. N /\ i < N
            BY <1>1, <3>1, <4>2
          <5>2. frames[i].base + Height(frames[i]) <= frames[N].base
            BY <2>0, <3>1, <5>1 DEF Shape
          <5> QED BY <1>1, <1>3, <2>0, <3>1, <3>3, <5>1, <5>2
        <4> QED BY <4>1, <4>2
      <3> QED BY <1>4, <3>2, <3>3
    <2>4. Len(stack) = frames'[N + 1].base + Height(frames'[N + 1])
      BY <1>1, <1>3, <1>5, <2>0 DEF Frames
    <2>5. \A i \in 1 .. N : frames'[i + 1].kind \notin Isr => Instruction(frames'[i]) = "body"
      <3> SUFFICES ASSUME NEW i \in 1 .. N, frames'[i + 1].kind \notin Isr
                   PROVE  Instruction(frames[i]) = "body"
        BY <1>3
      <3>1. CASE i = N
        BY <1>3, <3>1 DEF Running, Last, N
      <3>2. CASE i # N
        <4>1. i \in 1 .. N - 1 /\ frames'[i + 1] = frames[i + 1]
          BY <1>1, <1>3, <3>2
        <4> QED BY <2>0, <4>1 DEF Shape
      <3> QED BY <3>1, <3>2
    <2>6. N' - 1 = N
      BY <1>1, <1>3
    <2> QED BY <1>3, <2>1, <2>2, <2>3, <2>4, <2>5, <2>6 DEF Shape
  <1>12. \A i \in 1 .. N + 1 : Holds(frames'[i]) => i \in 1 .. N /\ Holds(frames[i])
    BY <1>3, <1>4, <1>5
  <1>13. DOMAIN frames' = 1 .. N + 1
    BY <1>3 DEF N
  <1>14. CriticalExclusive'
    <2> SUFFICES ASSUME NEW i \in 1 .. N + 1, NEW j \in 1 .. N + 1, i < j, Holds(frames'[i])
                 PROVE  frames'[j].kind \notin Isr
      BY <1>13 DEF CriticalExclusive
    <2>1. i \in 1 .. N /\ Holds(frames[i])
      BY <1>12
    <2>2. CASE j \in 1 .. N
      BY <1>1, <1>3, <2>1, <2>2 DEF IInv, CriticalExclusive
    <2>3. CASE j = N + 1
      BY <1>3, <1>6, <2>1, <2>3
    <2> QED BY <1>4, <2>2, <2>3
  <1>15. HeldClear'
    BY <1>3, <1>12 DEF IInv, HeldClear
  <1>16. EnableRestored'
    <2> SUFFICES ASSUME \A i \in 1 .. N + 1 : ~Holds(frames'[i]) PROVE EA = wanted
      BY <1>13 DEF EnableRestored
    <2>1. \A i \in 1 .. N : ~Holds(frames[i])
      BY <1>1, <1>3
    <2> QED BY <1>1, <2>1 DEF IInv, EnableRestored
  <1>17. \A i \in 1 .. N + 1 : Saved(i)' /\ Carried(i)' /\ Kept(i)'
    BY <1>4, <1>8, <1>9
  <1> QED BY <1>3, <1>10, <1>11, <1>14, <1>15, <1>16, <1>17 DEF IInv

LEMMA EnterStep == ASSUME IInv, Enter PROVE IInv'
  <1>1. PICK kind \in Critical : frames' = Append(frames, Frame(kind, 0))
    BY DEF Enter
  <1> DEFINE h == Frame(kind, 0)
  <1>2. kind \in DOMAIN Code /\ kind # "main" /\ kind \notin Isr
    BY CodeLengths DEF Critical, Isr
  <1>3. Len(stack) \in Nat
    BY DEF IInv, TypeOK
  <1>4. h \in Frames /\ h.pc = 1 /\ h.kind = kind /\ h.base = Len(stack)
    BY <1>2, <1>3 DEF Frame, Frames
  <1>5. Len(frames) < MaxFrames /\ Instruction(Running) = "body" /\ UNCHANGED <<EA, C, A, stack, wanted>>
    BY DEF Enter, At
  <1> HIDE DEF h
  <1>6. frames' = Append(frames, h)
    BY <1>1 DEF h
  <1> QED BY <1>2, <1>4, <1>5, <1>6, AppendStep

LEMMA InterruptStep == ASSUME IInv, Interrupt PROVE IInv'
  <1>1. PICK kind \in Isr, level \in 1 .. 2 : frames' = Append(frames, Frame(kind, level))
    BY DEF Interrupt
  <1> DEFINE h == Frame(kind, level)
  <1>2. kind \in DOMAIN Code /\ kind # "main" /\ kind \in Isr
    BY CodeLengths DEF Isr
  <1>3. Len(stack) \in Nat /\ C \in BOOLEAN /\ A \in BOOLEAN
    BY DEF IInv, TypeOK
  <1>4. h \in Frames /\ h.pc = 1 /\ h.kind = kind /\ h.base = Len(stack)
    BY <1>2, <1>3 DEF Frame, Frames
  <1>5. h.c = C /\ h.a = A
    BY <1>2, <1>3 DEF Frame
  <1>6. Len(frames) < MaxFrames /\ EA /\ UNCHANGED <<EA, C, A, stack, wanted>>
    BY DEF Interrupt
  <1> HIDE DEF h
  <1>7. frames' = Append(frames, h)
    BY <1>1 DEF h
  <1> QED BY <1>2, <1>4, <1>5, <1>6, <1>7, AppendStep

\* The routine below goes on with the registers it had, or with anything where
\* its body has entered critical code.
LEMMA ReturnStep == ASSUME IInv, Return PROVE IInv'
  <1>r. /\ N \in Nat \ {0} /\ Running = frames[N]
        /\ Running.pc \in 1 .. 10 /\ Placed(Running) /\ (Holds(Running) <=> HoldsAt(Running))
        /\ Running.base \in Nat /\ Len(stack) = Running.base + Height(Running)
        /\ KeptAt(Running, C, A, stack)
    BY Ready
  <1> DEFINE m == N - 1
  <1>1. /\ Is(Running, "function", 8, 8) \/ Is(Running, "bit_function", 10, 10)
           \/ Is(Running, "statement", 7, 7) \/ Is(Running, "isr", 6, 6)
           \/ Is(Running, "critical_isr", 8, 8)
    BY <1>r DEF Return, At, Placed
  <1>2. Running.kind # "main" /\ ~Holds(Running) /\ Height(Running) = 0
    BY <1>r, <1>1 DEF Is, HoldsAt, Height
  <1>3. N # 1 /\ m \in Nat \ {0} /\ m \in 1 .. N /\ m + 1 = N
    BY <1>r, <1>2 DEF IInv, Shape
  <1>4. /\ DOMAIN frames = 1 .. N
        /\ \A i \in 1 .. N : /\ Placed(frames[i]) /\ (Holds(frames[i]) <=> HoldsAt(frames[i]))
                             /\ Height(frames[i]) \in 0 .. 2 /\ frames[i].base \in Nat
                             /\ frames[i].pc \in DOMAIN Code[frames[i].kind]
    BY FrameTypes DEF IInv
  <1>5. frames \in Seq(Frames) /\ N = Len(frames) /\ N <= MaxFrames
    BY DEF IInv, TypeOK, N
  <1>6. frames' = Front(frames) /\ EA' = EA /\ C' = C /\ A' = A /\ stack' = stack /\ wanted' = wanted
    BY DEF Return
  <1>7. /\ frames' \in Seq(Frames) /\ N' = m /\ Len(frames') = m /\ DOMAIN frames' = 1 .. m
        /\ \A i \in 1 .. m : frames'[i] = frames[i]
    <2>1. /\ Front(frames) \in Seq(Frames) /\ Len(Front(frames)) = N - 1
          /\ \A i \in 1 .. N - 1 : Front(frames)[i] = frames[i]
      BY <1>r, <1>5, FrontFacts
    <2>2. N' = N - 1
      BY <1>6, <2>1 DEF N
    <2>3. DOMAIN Front(frames) = 1 .. Len(Front(frames))
      BY <2>1
    <2> QED BY <1>6, <2>1, <2>2, <2>3
  <1>8. \A i \in 1 .. m : i \in 1 .. N
    BY <1>r
  <1> HIDE DEF m
  <1>9. \A i \in 1 .. m : Value(i)' = Value(i)
    <2> SUFFICES ASSUME NEW i \in 1 .. m PROVE Value(i)' = Value(i)
      OBVIOUS
    <2>1. \A k \in 1 .. i - 1 : frames'[k] = frames[k]
      BY <1>3, <1>7
    <2>2. Below(i)' = Below(i)
      BY <2>1 DEF Below, Holds
    <2> QED BY <1>6, <2>2 DEF Value
  <1>10. ASSUME NEW i \in 1 .. m PROVE Saved(i)' /\ Carried(i)' /\ Kept(i)'
    <2>1. Saved(i) /\ Carried(i) /\ Kept(i) /\ frames'[i] = frames[i] /\ i \in 1 .. N
      BY <1>7, <1>8 DEF IInv
    <2>2. CASE i # m \/ Running.kind \in Isr
      <3>1. VC(i)' = VC(i) /\ VA(i)' = VA(i)
        <4>1. CASE i # m
          <5>1. i # N /\ i # N' /\ i + 1 \in 1 .. m
            BY <1>3, <1>7, <4>1
          <5>2. frames'[i + 1] = frames[i + 1]
            BY <1>7, <5>1
          <5> QED BY <5>1, <5>2 DEF VC, VA
        <4>2. CASE i = m
          <5>1. (C <=> Running.c) /\ (A <=> Running.a)
            BY <1>r, <1>1, <2>2, <4>2 DEF KeptAt, Is, Isr
          <5>2. C = Running.c /\ A = Running.a
            <6>1. C \in BOOLEAN /\ A \in BOOLEAN
              BY DEF IInv, TypeOK
            <6>2. Running.c \in BOOLEAN /\ Running.a \in BOOLEAN
              BY Ready DEF Frames
            <6> QED BY <5>1, <6>1, <6>2
          <5>3. VC(i) = Running.c /\ VA(i) = Running.a
            BY <1>r, <1>3, <4>2 DEF VC, VA
          <5>4. VC(i)' = C /\ VA(i)' = A
            BY <1>6, <1>7, <4>2 DEF VC, VA
          <5> QED BY <5>2, <5>3, <5>4
        <4> QED BY <4>1, <4>2
      <3> QED BY <1>6, <1>9, <2>1, <3>1 DEF Saved, Carried, Kept
    <2>3. CASE i = m /\ Running.kind \notin Isr
      <3>1. Instruction(frames[i]) = "body"
        BY <1>r, <1>3, <2>3 DEF IInv, Shape
      <3>2. \/ Is(frames[i], "main", 1, 1) \/ Fn(frames[i], 5, 5) \/ Is(frames[i], "statement", 4, 4)
            \/ Is(frames[i], "isr", 3, 3) \/ Is(frames[i], "critical_isr", 4, 4)
        BY <1>4, <2>1, <3>1 DEF Placed
      <3>3. SavedAt(frames[i], VC(i)', Value(i), stack, wanted)
        BY <2>1, <3>2 DEF Saved, SavedAt, Is, Fn
      <3>4. CarriedAt(frames[i], VC(i)', VA(i)')
        BY <3>2 DEF CarriedAt, Is, Fn
      <3>5. KeptAt(frames[i], VC(i)', VA(i)', stack)
        BY <2>1, <3>2 DEF Kept, KeptAt, Is, Fn
      <3> QED BY <1>6, <1>9, <2>1, <3>3, <3>4, <3>5 DEF Saved, Carried, Kept
    <2> QED BY <2>2, <2>3
  <1>11. TypeOK'
    <2>1. \A i \in 1 .. m : frames'[i].pc \in DOMAIN Code[frames'[i].kind]
      BY <1>4, <1>7, <1>8
    <2>2. frames' # << >> /\ Len(frames') <= MaxFrames
      BY <1>3, <1>5, <1>7, CriticalAssumption
    <2> QED BY <1>6, <1>7, <2>1, <2>2 DEF IInv, TypeOK
  <1>12. Shape'
    <2>1. frames'[1].kind = "main" /\ frames'[1].base = 0
      BY <1>3, <1>7 DEF IInv, Shape
    <2>2. \A i \in 1 .. m - 1 : i \in 1 .. N - 1 /\ i \in 1 .. m /\ i + 1 \in 1 .. m
      BY <1>3
    <2>3. /\ \A i \in 1 .. m - 1 : frames'[i + 1].base = frames'[i].base + Height(frames'[i])
          /\ \A i \in 1 .. m - 1 : frames'[i + 1].kind \notin Isr => Instruction(frames'[i]) = "body"
      BY <1>7, <2>2 DEF IInv, Shape
    <2>4. \A i, j \in 1 .. m : i < j => frames'[i].base + Height(frames'[i]) <= frames'[j].base
      BY <1>7, <1>8 DEF IInv, Shape
    <2>5. Len(stack) = frames'[m].base + Height(frames'[m])
      <3>1. m \in 1 .. N - 1 /\ m \in 1 .. m
        BY <1>3
      <3>2. frames[N].base = frames[m].base + Height(frames[m])
        BY <1>3, <3>1 DEF IInv, Shape
      <3> QED BY <1>r, <1>2, <1>7, <3>1, <3>2
    <2> QED BY <1>6, <1>7, <2>1, <2>3, <2>4, <2>5 DEF Shape
  <1>13. CriticalExclusive' /\ HeldClear'
    BY <1>4, <1>6, <1>7, <1>8 DEF IInv, CriticalExclusive, HeldClear
  <1>14. EnableRestored'
    <2> SUFFICES ASSUME \A i \in 1 .. m : ~Holds(frames'[i]) PROVE EA = wanted
      BY <1>6, <1>7 DEF EnableRestored
    <2>1. \A i \in 1 .. N : i \in 1 .. m \/ i = N
      BY <1>3
    <2>2. \A i \in 1 .. N : ~Holds(frames[i])
      BY <1>r, <1>2, <1>7, <2>1
    <2> QED BY <1>4, <2>2 DEF IInv, EnableRestored
  <1> QED BY <1>7, <1>10, <1>11, <1>12, <1>13, <1>14 DEF IInv

-----------------------------------------------------------------------------
(* The specification.                                                      *)

LEMMA InitIInv == ASSUME Init PROVE IInv
  <1>1. /\ frames = <<Frame("main", 0)>> /\ stack = << >> /\ EA = FALSE /\ wanted = FALSE
        /\ C \in BOOLEAN /\ A \in BOOLEAN
    BY DEF Init
  <1> DEFINE f == Frame("main", 0)
  <1>2. f \in Frames /\ f.kind = "main" /\ f.pc = 1 /\ f.base = 0
    BY <1>1, CodeLengths DEF Frame, Frames, Isr
  <1> HIDE DEF f
  <1>3. frames = <<f>> /\ N = 1 /\ DOMAIN frames = 1 .. 1 /\ frames[1] = f
    BY <1>1 DEF f, N
  <1>4. f.pc \in DOMAIN Code[f.kind] /\ ~Holds(f) /\ Height(f) = 0
    <2>1. f.pc \in DOMAIN Code[f.kind]
      BY <1>2, CodeLengths
    <2>2. ~HoldsAt(f) /\ Height(f) = 0
      BY <1>2 DEF HoldsAt, Height, Is
    <2> QED BY <1>2, <2>1, <2>2, Places
  <1>5. TypeOK
    <2>1. frames \in Seq(Frames) /\ Len(frames) = 1 /\ frames # << >>
      BY <1>2, <1>3
    <2>2. 1 <= MaxFrames /\ << >> \in Seq(BOOLEAN)
      BY CriticalAssumption
    <2>3. \A i \in DOMAIN frames : frames[i].pc \in DOMAIN Code[frames[i].kind]
      BY <1>3, <1>4
    <2> QED BY <1>1, <2>1, <2>2, <2>3 DEF TypeOK
  <1>6. Shape
    BY <1>1, <1>2, <1>3, <1>4 DEF Shape
  <1>7. CriticalExclusive /\ HeldClear /\ EnableRestored
    <2>1. \A i \in 1 .. 1 : i = 1 /\ ~Holds(frames[i])
      BY <1>3, <1>4
    <2>2. CriticalExclusive /\ HeldClear
      BY <1>3, <2>1 DEF CriticalExclusive, HeldClear
    <2> QED BY <1>1, <2>2 DEF EnableRestored
  <1>8. \A i \in 1 .. N : Saved(i) /\ Carried(i) /\ Kept(i)
    BY <1>2, <1>3 DEF Saved, SavedAt, Carried, CarriedAt, Kept, KeptAt, Is, Fn
  <1> QED BY <1>5, <1>6, <1>7, <1>8 DEF IInv

LEMMA StutterStep == ASSUME IInv, UNCHANGED vars PROVE IInv'
  <1>1. EA' = EA /\ C' = C /\ A' = A /\ stack' = stack /\ frames' = frames /\ wanted' = wanted /\ N' = N
    BY DEF vars, N
  <1>2. \A i \in 1 .. N : Saved(i)' /\ Carried(i)' /\ Kept(i)'
    <2> SUFFICES ASSUME NEW i \in 1 .. N PROVE Saved(i)' /\ Carried(i)' /\ Kept(i)'
      OBVIOUS
    <2>1. VC(i)' = VC(i) /\ VA(i)' = VA(i) /\ Value(i)' = Value(i)
      BY <1>1 DEF VC, VA, Value, Below
    <2> QED BY <1>1, <2>1 DEF IInv, Saved, Carried, Kept
  <1>3. TypeOK' /\ Shape' /\ CriticalExclusive' /\ HeldClear' /\ EnableRestored'
    BY <1>1 DEF IInv, TypeOK, Shape, CriticalExclusive, HeldClear, EnableRestored
  <1> QED BY <1>1, <1>2, <1>3 DEF IInv

\* In every reachable state the EA that each critical code has to restore is where
\* its next instructions look for it, in the carry, on the stack or in the
\* statement's bit, and so are the results and the registers interrupted.
THEOREM CriticalInvariant == Spec => []IInv
  <1>1. Init => IInv
    BY InitIInv
  <1>2. IInv /\ [Next]_vars => IInv'
    BY SetbStep, JbcStep, MovStep, RotateStep, PushStep, PopStep, ReturnStep,
       ComputeStep, WriteEAStep, EnterStep, InterruptStep, StutterStep DEF Next
  <1> QED BY <1>1, <1>2, PTL DEF Spec

\* The stack never runs empty under a pop, and every program counter stays in the
\* emitted code (gen.c:4203, 4698).
THEOREM CriticalTypeCorrect == Spec => []TypeOK
  <1>1. IInv => TypeOK
    BY DEF IInv
  <1> QED BY <1>1, CriticalInvariant, PTL

\* No interrupt routine runs on top of critical code, for every depth of nesting.
THEOREM CriticalIsExclusive == Spec => []CriticalExclusive
  <1>1. IInv => CriticalExclusive
    BY DEF IInv
  <1> QED BY <1>1, CriticalInvariant, PTL

\* Outside of critical code EA is what the program last wrote to it.
THEOREM CriticalRestores == Spec => []EnableRestored
  <1>1. IInv => EnableRestored
    BY DEF IInv
  <1> QED BY <1>1, CriticalInvariant, PTL

\* A critical function returns the result that its body left in the carry.
THEOREM CriticalReturnsBit == Spec => []BitReturned
  <1>1. ASSUME IInv PROVE BitReturned
    <2> SUFFICES ASSUME Running.kind = "bit_function", At({"ret"}) PROVE C = Running.result
      BY DEF BitReturned
    <2>1. Running \in Frames /\ Placed(Running) /\ CarriedAt(Running, C, A)
      BY <1>1, Ready
    <2>2. Is(Running, "bit_function", 10, 10)
      BY <2>1 DEF Placed, At, Is
    <2>3. C <=> Running.result
      BY <2>1, <2>2 DEF CarriedAt
    <2>4. C \in BOOLEAN /\ Running.result \in BOOLEAN
      BY <1>1, <2>1 DEF IInv, TypeOK, Frames
    <2> QED BY <2>3, <2>4
  <1> QED BY <1>1, CriticalInvariant, PTL

=============================================================================
