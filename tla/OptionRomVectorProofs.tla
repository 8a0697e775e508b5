------------------------ MODULE OptionRomVectorProofs ------------------------
(***************************************************************************)
(* What the proofs about the option ROM rest on, for any number of entries *)
(* of the ROM, of hooks of other programs and any amount of base memory.   *)
(*                                                                         *)
(* The handlers of an interrupt form a stack, of which every hook knows    *)
(* the one below it: hook_bios_interrupt pushes, unhook_bios_interrupt     *)
(* pops or does nothing, and a call goes down the stack.  INT 15 is the    *)
(* first interrupt a copy hooks and the last it unhooks.                   *)
(***************************************************************************)
EXTENDS OptionRom, TLAPS, FiniteSetTheorems, WellFoundedInduction

-----------------------------------------------------------------------------
(* Where a call of an interrupt gets to.                                   *)

\* Every non-empty set of natural numbers has a least element.
LEMMA SmallestNat ==
  ASSUME NEW T, T \subseteq Nat, T # {}
  PROVE  \E x \in T : \A y \in T : x <= y
<1> DEFINE Less == {p \in Nat \X Nat : p[1] < p[2]}
<1>1. IsWellFoundedOn(Less, Nat)
  <2>1. Less = OpToRel(<, Nat)
    BY DEF OpToRel
  <2> HIDE DEF Less
  <2> QED
    BY <2>1, NatLessThanWellFounded, Zenon
<1>2. PICK x \in T : \A y \in T : ~ (<<y, x>> \in Less)
  <2> HIDE DEF Less
  <2> QED
    BY <1>1, WFMin, Zenon
<1>3. ASSUME NEW y \in T PROVE x <= y
  <2>1. x \in Nat /\ y \in Nat
    OBVIOUS
  <2>2. <<y, x>> \in Nat \X Nat /\ <<y, x>>[1] = y /\ <<y, x>>[2] = x
    BY <2>1
  <2>3. ~ (y < x)
    BY <1>2, <2>2
  <2> QED
    BY <2>1, <2>3
<1> QED
  BY <1>3

\* So what holds at 0 and is passed on from n to n + 1 holds of every number.
LEMMA SetInduction ==
  ASSUME NEW T, 0 \in T, \A n \in Nat : n \in T => n + 1 \in T
  PROVE  Nat \subseteq T
<1> SUFFICES ASSUME ~(Nat \subseteq T) PROVE FALSE
  OBVIOUS
<1>1. PICK x \in Nat \ T : \A y \in Nat \ T : x <= y
  BY SmallestNat
<1>2. x # 0 /\ x - 1 \in Nat /\ x - 1 \notin Nat \ T /\ (x - 1) + 1 = x
  BY <1>1
<1> QED
  BY <1>1, <1>2

\* How often Reached passes a call on.
Steps == MaxRuns + MaxOthers + 1

\* What a set of handlers and the handlers they pass calls on to are.
PassedOn(int, S) == S \cup {NextHandler(int, h) : h \in S}

\* f[k] is what a call of the interrupt gets to in k steps, for k up to n.
IsUpTo(int, n, f) ==
    f = [k \in 0 .. n |-> IF k = 0 THEN {vec.ivt[int]} ELSE PassedOn(int, f[k - 1])]

\* The equation of such a function, taken apart.
LEMMA UpToFacts ==
  ASSUME NEW int, NEW n \in Nat, NEW f, IsUpTo(int, n, f)
  PROVE  /\ f[0] = {vec.ivt[int]}
         /\ \A k \in 1 .. n : f[k] = PassedOn(int, f[k - 1])
<1> DEFINE b == [k \in 0 .. n |-> IF k = 0 THEN {vec.ivt[int]} ELSE PassedOn(int, f[k - 1])]
<1>1. f = b
  BY Zenon DEF IsUpTo
<1>2. b[0] = {vec.ivt[int]} /\ \A k \in 1 .. n : b[k] = PassedOn(int, f[k - 1])
  OBVIOUS
<1> HIDE DEF b
<1>3. f[0] = b[0] /\ \A k \in 1 .. n : f[k] = b[k]
  BY <1>1
<1> QED
  BY <1>2, <1>3

\* The recursive definition in Reached has a solution, one step at a time.
LEMMA UpToExists ==
  ASSUME NEW int, NEW n \in Nat
  PROVE  \E f : IsUpTo(int, n, f)
<1> DEFINE T == {k \in Nat : \E f : IsUpTo(int, k, f)}
<1>1. 0 \in T
  <2> DEFINE f == [k \in 0 .. 0 |-> {vec.ivt[int]}]
  <2>1. f = [k \in 0 .. 0 |-> IF k = 0 THEN {vec.ivt[int]} ELSE PassedOn(int, f[k - 1])]
    OBVIOUS
  <2>2. IsUpTo(int, 0, f)
    BY <2>1 DEF IsUpTo
  <2> QED BY <2>2
<1>2. ASSUME NEW k \in Nat, k \in T
      PROVE  k + 1 \in T
  <2>1. PICK f : IsUpTo(int, k, f)
    BY <1>2
  <2> DEFINE g == [j \in 0 .. k + 1 |-> IF j <= k THEN f[j] ELSE PassedOn(int, f[k])]
             b == [j \in 0 .. k + 1 |-> IF j = 0 THEN {vec.ivt[int]}
                                        ELSE PassedOn(int, g[j - 1])]
  <2>2. /\ f[0] = {vec.ivt[int]}
        /\ \A j \in 1 .. k : f[j] = PassedOn(int, f[j - 1])
    BY <2>1, UpToFacts
  <2>3. ASSUME NEW j \in 0 .. k + 1
        PROVE  g[j] = b[j]
    <3>1. CASE j = 0
      BY <2>2, <3>1
    <3>2. CASE j \in 1 .. k
      <4>1. g[j] = f[j] /\ j - 1 \in 0 .. k + 1 /\ j - 1 <= k /\ j # 0
        BY <3>2
      <4>2. g[j - 1] = f[j - 1]
        BY <4>1
      <4>3. b[j] = PassedOn(int, g[j - 1])
        BY <4>1
      <4> HIDE DEF g, b
      <4> QED BY <2>2, <3>2, <4>1, <4>2, <4>3
    <3>3. CASE j = k + 1
      <4>1. g[j] = PassedOn(int, f[k]) /\ j - 1 = k /\ k \in 0 .. k + 1 /\ j # 0
        BY <3>3
      <4>2. g[j - 1] = f[k]
        BY <4>1
      <4>3. b[j] = PassedOn(int, g[j - 1])
        BY <4>1
      <4> HIDE DEF g, b
      <4> QED BY <4>1, <4>2, <4>3
    <3> QED BY <3>1, <3>2, <3>3
  <2>4. g = b
    BY <2>3
  <2>5. IsUpTo(int, k + 1, g)
    <3>1. IsUpTo(int, k + 1, g) = (g = b)
      BY DEF IsUpTo
    <3> QED BY <2>4, <3>1
  <2> QED BY <2>5
<1> HIDE DEF T
<1>3. Nat \subseteq T
  BY <1>1, <1>2, SetInduction
<1> QED
  BY <1>3 DEF T

\* Reached, without recursion.
LEMMA ReachedFacts ==
  ASSUME NEW int
  PROVE  \E f : /\ f[0] = {vec.ivt[int]}
                /\ \A k \in 1 .. Steps : f[k] = PassedOn(int, f[k - 1])
                /\ Reached(int) = f[Steps]
<1> DEFINE f == CHOOSE g : IsUpTo(int, Steps, g)
<1>1. Steps \in Nat
  BY OptionRomAssumption DEF Steps
<1>2. Reached(int) = f[Steps]
  BY DEF Reached, IsUpTo, Steps, PassedOn
<1>3. IsUpTo(int, Steps, f)
  BY <1>1, UpToExists
<1> HIDE DEF f
<1>4. /\ f[0] = {vec.ivt[int]}
      /\ \A k \in 1 .. Steps : f[k] = PassedOn(int, f[k - 1])
  BY <1>1, <1>3, UpToFacts
<1> QED
  BY <1>2, <1>4

\* A set that holds the vector and is closed under passing on holds all of it.
LEMMA ReachedWithin ==
  ASSUME NEW int, NEW S, vec.ivt[int] \in S, \A h \in S : NextHandler(int, h) \in S
  PROVE  Reached(int) \subseteq S
<1>1. PICK f : /\ f[0] = {vec.ivt[int]}
               /\ \A k \in 1 .. Steps : f[k] = PassedOn(int, f[k - 1])
               /\ Reached(int) = f[Steps]
  BY ReachedFacts
<1>2. Steps \in Nat
  BY OptionRomAssumption DEF Steps
<1> DEFINE T == {k \in Nat : k <= Steps => f[k] \subseteq S}
<1>3. 0 \in T
  BY <1>1
<1>4. ASSUME NEW k \in Nat, k \in T
      PROVE  k + 1 \in T
  <2> SUFFICES ASSUME k + 1 <= Steps PROVE f[k + 1] \subseteq S
    OBVIOUS
  <2>1. f[k] \subseteq S
    BY <1>2, <1>4
  <2>2. k + 1 \in 1 .. Steps /\ (k + 1) - 1 = k
    BY <1>2
  <2>3. f[k + 1] = PassedOn(int, f[k])
    BY <1>1, <2>2
  <2> QED
    BY <2>1, <2>3 DEF PassedOn
<1> HIDE DEF T
<1>5. Nat \subseteq T
  BY <1>3, <1>4, SetInduction
<1> QED
  BY <1>1, <1>2, <1>5 DEF T

\* A path of handlers that is not too long is reached.
LEMMA ReachedAlong ==
  ASSUME NEW int, NEW n \in Nat, n <= Steps, NEW p, p[0] = vec.ivt[int],
         \A k \in 1 .. n : p[k] = NextHandler(int, p[k - 1])
  PROVE  \A k \in 0 .. n : p[k] \in Reached(int)
<1>1. PICK f : /\ f[0] = {vec.ivt[int]}
               /\ \A k \in 1 .. Steps : f[k] = PassedOn(int, f[k - 1])
               /\ Reached(int) = f[Steps]
  BY ReachedFacts
<1>2. Steps \in Nat
  BY OptionRomAssumption DEF Steps
<1>3. \A k \in 1 .. Steps : f[k - 1] \subseteq f[k]
  BY <1>1 DEF PassedOn
<1> DEFINE T == {k \in Nat : k <= n => p[k] \in f[k]}
           U == {k \in Nat : \A j \in Nat : j + k <= Steps => f[j] \subseteq f[j + k]}
<1>4. 0 \in T
  BY <1>1
<1>5. ASSUME NEW k \in Nat, k \in T
      PROVE  k + 1 \in T
  <2> SUFFICES ASSUME k + 1 <= n PROVE p[k + 1] \in f[k + 1]
    OBVIOUS
  <2>1. p[k] \in f[k]
    BY <1>5
  <2>2. k + 1 \in 1 .. n /\ k + 1 \in 1 .. Steps /\ (k + 1) - 1 = k
    BY <1>2
  <2>3. p[k + 1] = NextHandler(int, p[k]) /\ f[k + 1] = PassedOn(int, f[k])
    BY <1>1, <2>2
  <2> QED
    BY <2>1, <2>3 DEF PassedOn
<1>6. 0 \in U
  OBVIOUS
<1>7. ASSUME NEW k \in Nat, k \in U
      PROVE  k + 1 \in U
  <2> SUFFICES ASSUME NEW j \in Nat, j + (k + 1) <= Steps
               PROVE  f[j] \subseteq f[j + (k + 1)]
    OBVIOUS
  <2>1. f[j] \subseteq f[j + k]
    BY <1>2, <1>7
  <2>2. j + k + 1 \in 1 .. Steps /\ (j + k + 1) - 1 = j + k /\ j + (k + 1) = j + k + 1
    BY <1>2
  <2>3. f[j + k] \subseteq f[j + k + 1]
    BY <1>3, <2>2
  <2> QED
    BY <2>1, <2>2, <2>3
<1> HIDE DEF T, U
<1>8. Nat \subseteq T /\ Nat \subseteq U
  <2>1. Nat \subseteq T
    BY <1>4, <1>5, SetInduction
  <2>2. Nat \subseteq U
    BY <1>6, <1>7, SetInduction
  <2> QED BY <2>1, <2>2
<1>9. ASSUME NEW k \in 0 .. n
      PROVE  p[k] \in Reached(int)
  <2>1. k \in Nat /\ k <= n /\ Steps - k \in Nat /\ k + (Steps - k) = Steps
    BY <1>2
  <2>2. p[k] \in f[k]
    BY <1>8, <2>1 DEF T
  <2>3. f[k] \subseteq f[k + (Steps - k)]
    <3>1. Steps - k \in U
      BY <1>8, <2>1
    <3> QED BY <1>2, <2>1, <3>1 DEF U
  <2> QED BY <1>1, <2>1, <2>2, <2>3
<1> QED
  BY <1>9

-----------------------------------------------------------------------------
(* The handlers of an interrupt as a stack.                                *)

\* Handlers, and no handler at all.
HandlerType == {"bios", "rom", "ipxe", "other", "null"} \X Nat

\* Handlers of different kinds, and of different owners, are different.
LEMMA HandlerFacts ==
  /\ Bios \in HandlerType /\ Rom \in HandlerType /\ Null \in HandlerType
  /\ \A i \in Nat : Ipxe(i) \in HandlerType /\ Other(i) \in HandlerType
  /\ Bios[1] = "bios" /\ Rom[1] = "rom" /\ Null[1] = "null"
  /\ \A i : Ipxe(i)[1] = "ipxe" /\ Ipxe(i)[2] = i
  /\ \A i : Other(i)[1] = "other" /\ Other(i)[2] = i
  /\ Bios # Rom /\ Bios # Null /\ Rom # Null
  /\ \A i : Ipxe(i) # Bios /\ Ipxe(i) # Rom /\ Ipxe(i) # Null
  /\ \A i : Other(i) # Bios /\ Other(i) # Rom /\ Other(i) # Null
  /\ \A i, j : Ipxe(i) # Other(j)
  /\ \A i, j : Ipxe(i) = Ipxe(j) => i = j
  /\ \A i, j : Other(i) = Other(j) => i = j
  BY DEF HandlerType, Bios, Rom, Null, Ipxe, Other

\* What the vectors are made of.
VecType == [ivt : [Ints -> HandlerType],
            chain : [Copies -> [Ints -> HandlerType]],
            hooked : [Copies -> Int]]

\* The handlers of an interrupt are a stack s of height n: the BIOS or the ROM at the
\* bottom, the vector at the top, and each hook knows what is below it.  A copy
\* whose chaining vector is set is on the stack, and nobody is on it twice.
IsStack(v, o, int, n, s) ==
    /\ s[1] \in {Bios, Rom}
    /\ s[n] = v.ivt[int]
    /\ \A j \in 2 .. n :
          \/ \E i \in Copies : s[j] = Ipxe(i) /\ v.chain[i][int] = s[j - 1]
          \/ \E k \in 1 .. Len(o) : s[j] = Other(k) /\ o[k].next = s[j - 1]
    /\ \A j, k \in 1 .. n : s[j] = s[k] => j = k
    /\ \A i \in Copies : v.chain[i][int] # Null => \E j \in 2 .. n : s[j] = Ipxe(i)

\* Some height and some stack of that height.
Stacked(v, o, int) == \E n \in Nat \ {0} : \E s : IsStack(v, o, int, n, s)

\* The interrupts that a copy has hooked.
Hooks(v, i) == {int \in Ints : v.chain[i][int] # Null}

\* hooked_bios_interrupts counts the interrupts a copy has hooked.
Counted(v) == \A i \in Copies : v.hooked[i] = Cardinality(Hooks(v, i))

\* What every step keeps of the vectors.
VecInv(v, o) ==
    /\ v \in VecType
    /\ \A int \in Ints : Stacked(v, o, int)
    /\ Counted(v)

\* Nobody on a stack is Null.
LEMMA StackElement ==
  ASSUME NEW v, NEW o, NEW int, NEW n \in Nat \ {0}, NEW s, IsStack(v, o, int, n, s),
         NEW j \in 1 .. n
  PROVE  /\ s[j] # Null
         /\ s[j] \in {Bios, Rom} \/ (\E i \in Copies : s[j] = Ipxe(i))
                                 \/ (\E k \in 1 .. Len(o) : s[j] = Other(k))
<1>1. CASE j = 1
  BY <1>1, HandlerFacts DEF IsStack
<1>2. CASE j # 1
  <2>1. j \in 2 .. n
    BY <1>2
  <2>2. \/ \E i \in Copies : s[j] = Ipxe(i)
        \/ \E k \in 1 .. Len(o) : s[j] = Other(k)
    BY <2>1 DEF IsStack
  <2> QED
    BY <2>2, HandlerFacts
<1> QED
  BY <1>1, <1>2

\* A stack is unchanged when the vector and what the hooks know are.
LEMMA StackKept ==
  ASSUME NEW v, NEW w, NEW o, NEW int, Stacked(v, o, int),
         w.ivt[int] = v.ivt[int],
         \A i \in Copies : w.chain[i][int] = v.chain[i][int]
  PROVE  Stacked(w, o, int)
<1>1. PICK n \in Nat \ {0} : \E s : IsStack(v, o, int, n, s)
  BY DEF Stacked
<1>2. PICK s : IsStack(v, o, int, n, s)
  BY <1>1
<1>3. IsStack(w, o, int, n, s)
  <2>1. \A j \in 2 .. n :
          \/ \E i \in Copies : s[j] = Ipxe(i) /\ w.chain[i][int] = s[j - 1]
          \/ \E k \in 1 .. Len(o) : s[j] = Other(k) /\ o[k].next = s[j - 1]
    BY <1>2 DEF IsStack
  <2>2. \A i \in Copies : w.chain[i][int] # Null => \E j \in 2 .. n : s[j] = Ipxe(i)
    BY <1>2 DEF IsStack
  <2> QED
    BY <1>2, <2>1, <2>2 DEF IsStack
<1> QED
  BY <1>3 DEF Stacked

\* A hook goes on top: a copy that is not on the stack, or another program.
LEMMA Push ==
  ASSUME NEW v, NEW w, NEW o, NEW q, NEW int, Stacked(v, o, int),
         Len(o) \in Nat, Len(q) \in Nat, Len(o) <= Len(q),
         \A k \in 1 .. Len(o) : q[k] = o[k],
         NEW h, w.ivt[int] = h,
         \/ \E i \in Copies : /\ h = Ipxe(i)
                              /\ v.chain[i][int] = Null
                              /\ w.chain[i][int] = v.ivt[int]
                              /\ \A j \in Copies \ {i} : w.chain[j][int] = v.chain[j][int]
         \/ /\ \A j \in Copies : w.chain[j][int] = v.chain[j][int]
            /\ \E k \in 1 .. Len(q) : /\ h = Other(k) /\ k > Len(o)
                                      /\ q[k].next = v.ivt[int]
  PROVE  Stacked(w, q, int)
<1>1. PICK n \in Nat \ {0} : \E s : IsStack(v, o, int, n, s)
  BY DEF Stacked
<1>2. PICK s : IsStack(v, o, int, n, s)
  BY <1>1
<1> DEFINE t == [j \in 1 .. n + 1 |-> IF j <= n THEN s[j] ELSE h]
<1>3. t[n + 1] = h /\ \A j \in 1 .. n : t[j] = s[j]
  OBVIOUS
<1>4. s[1] \in {Bios, Rom} /\ s[n] = v.ivt[int]
  BY <1>2 DEF IsStack
<1>5. \A j \in 1 .. n : s[j] # h
  <2> SUFFICES ASSUME NEW j \in 1 .. n, s[j] = h PROVE FALSE
    OBVIOUS
  <2>1. \/ \E i \in Copies : h = Ipxe(i) /\ v.chain[i][int] = Null
        \/ \E k \in 1 .. Len(q) : h = Other(k) /\ k > Len(o)
    OBVIOUS
  <2>2. j # 1
    BY <1>4, <2>1, HandlerFacts
  <2>3. j \in 2 .. n /\ j - 1 \in 1 .. n
    BY <2>2
  <2>4. \/ \E i \in Copies : s[j] = Ipxe(i) /\ v.chain[i][int] = s[j - 1]
        \/ \E k \in 1 .. Len(o) : s[j] = Other(k)
    BY <1>2, <2>3 DEF IsStack
  <2>5. s[j - 1] # Null
    BY <1>2, <2>3, StackElement
  <2> QED
    BY <2>1, <2>4, <2>5, HandlerFacts
<1>6. \A i \in Copies : v.chain[i][int] # Null => w.chain[i][int] = v.chain[i][int]
  OBVIOUS
<1> HIDE DEF t
<1>7. ASSUME NEW j \in 2 .. n + 1
      PROVE  \/ \E i \in Copies : t[j] = Ipxe(i) /\ w.chain[i][int] = t[j - 1]
             \/ \E k \in 1 .. Len(q) : t[j] = Other(k) /\ q[k].next = t[j - 1]
  <2>1. CASE j = n + 1
    <3>1. t[j] = h /\ t[j - 1] = v.ivt[int]
      BY <1>3, <1>4, <2>1
    <3> QED BY <3>1
  <2>2. CASE j # n + 1
    <3>1. j \in 2 .. n /\ j \in 1 .. n /\ j - 1 \in 1 .. n
      BY <2>2
    <3>2. t[j] = s[j] /\ t[j - 1] = s[j - 1] /\ s[j - 1] # Null
      <4>1. \A m \in 1 .. n : s[m] # Null
        BY <1>2, StackElement
      <4> QED BY <1>3, <3>1, <4>1
    <3>3. \/ \E i \in Copies : s[j] = Ipxe(i) /\ v.chain[i][int] = s[j - 1]
          \/ \E k \in 1 .. Len(o) : s[j] = Other(k) /\ o[k].next = s[j - 1]
      BY <1>2, <3>1 DEF IsStack
    <3>4. CASE \E i \in Copies : s[j] = Ipxe(i) /\ v.chain[i][int] = s[j - 1]
      BY <1>6, <3>2, <3>4
    <3>5. CASE \E k \in 1 .. Len(o) : s[j] = Other(k) /\ o[k].next = s[j - 1]
      <4>1. PICK k \in 1 .. Len(o) : s[j] = Other(k) /\ o[k].next = s[j - 1]
        BY <3>5
      <4>2. k \in 1 .. Len(q) /\ q[k].next = s[j - 1]
        BY <4>1
      <4> QED BY <3>2, <4>1, <4>2
    <3> QED BY <3>3, <3>4, <3>5
  <2> QED BY <2>1, <2>2
<1>8. ASSUME NEW j \in 1 .. n + 1, NEW k \in 1 .. n + 1, t[j] = t[k]
      PROVE  j = k
  <2>1. \A a, b \in 1 .. n : s[a] = s[b] => a = b
    BY <1>2 DEF IsStack
  <2>2. (j \in 1 .. n \/ j = n + 1) /\ (k \in 1 .. n \/ k = n + 1)
    OBVIOUS
  <2> QED BY <1>3, <1>5, <1>8, <2>1, <2>2
<1>9. ASSUME NEW i \in Copies, w.chain[i][int] # Null
      PROVE  \E j \in 2 .. n + 1 : t[j] = Ipxe(i)
  <2>1. CASE h = Ipxe(i)
    BY <1>3, <2>1
  <2>2. CASE h # Ipxe(i)
    <3>1. w.chain[i][int] = v.chain[i][int]
      BY <2>2
    <3>2. PICK j \in 2 .. n : s[j] = Ipxe(i)
      BY <1>2, <1>9, <3>1 DEF IsStack
    <3> QED BY <1>3, <3>2
  <2> QED BY <2>1, <2>2
<1>10. t[1] \in {Bios, Rom} /\ t[n + 1] = w.ivt[int]
  BY <1>3, <1>4
<1>11. IsStack(w, q, int, n + 1, t)
  BY <1>7, <1>8, <1>9, <1>10 DEF IsStack
<1> QED
  BY <1>11 DEF Stacked

\* The hook at the top goes, and the vector is what was below it.
LEMMA Pop ==
  ASSUME NEW v, NEW w, NEW o, NEW int, Stacked(v, o, int),
         \/ \E i \in Copies : /\ v.ivt[int] = Ipxe(i)
                              /\ w.ivt[int] = v.chain[i][int]
                              /\ w.chain[i][int] = Null
                              /\ \A j \in Copies \ {i} : w.chain[j][int] = v.chain[j][int]
         \/ /\ \A j \in Copies : w.chain[j][int] = v.chain[j][int]
            /\ \E k : /\ v.ivt[int] = Other(k)
                      /\ w.ivt[int] = o[k].next
  PROVE  Stacked(w, o, int)
<1>1. PICK n \in Nat \ {0} : \E s : IsStack(v, o, int, n, s)
  BY DEF Stacked
<1>2. PICK s : IsStack(v, o, int, n, s)
  BY <1>1
<1>3. s[1] \in {Bios, Rom} /\ s[n] = v.ivt[int]
  BY <1>2 DEF IsStack
<1>4. n # 1
  BY <1>3, HandlerFacts
<1>5. n - 1 \in Nat \ {0} /\ n \in 2 .. n /\ n - 1 \in 1 .. n
  BY <1>4
<1>6. w.ivt[int] = s[n - 1]
  <2>1. \/ \E i \in Copies : s[n] = Ipxe(i) /\ v.chain[i][int] = s[n - 1]
        \/ \E k \in 1 .. Len(o) : s[n] = Other(k) /\ o[k].next = s[n - 1]
    BY <1>2, <1>5 DEF IsStack
  <2> QED BY <1>3, <2>1, HandlerFacts
<1>7. \A i \in Copies : Ipxe(i) # s[n] => w.chain[i][int] = v.chain[i][int]
  BY <1>3
<1>8. \A i \in Copies : Ipxe(i) = s[n] => w.chain[i][int] = Null
  BY <1>3, HandlerFacts
<1>9. \A j, k \in 1 .. n : s[j] = s[k] => j = k
  BY <1>2 DEF IsStack
<1>10. ASSUME NEW j \in 2 .. n - 1
       PROVE  \/ \E i \in Copies : s[j] = Ipxe(i) /\ w.chain[i][int] = s[j - 1]
              \/ \E k \in 1 .. Len(o) : s[j] = Other(k) /\ o[k].next = s[j - 1]
  <2>1. j \in 2 .. n /\ j \in 1 .. n /\ n \in 1 .. n /\ j # n
    BY <1>5
  <2>2. s[j] # s[n]
    BY <1>9, <2>1
  <2>3. \/ \E i \in Copies : s[j] = Ipxe(i) /\ v.chain[i][int] = s[j - 1]
        \/ \E k \in 1 .. Len(o) : s[j] = Other(k) /\ o[k].next = s[j - 1]
    BY <1>2, <2>1 DEF IsStack
  <2> QED BY <1>7, <2>2, <2>3
<1>11. ASSUME NEW i \in Copies, w.chain[i][int] # Null
       PROVE  \E j \in 2 .. n - 1 : s[j] = Ipxe(i)
  <2>1. Ipxe(i) # s[n]
    BY <1>8, <1>11
  <2>2. v.chain[i][int] # Null
    BY <1>7, <1>11, <2>1
  <2>3. PICK j \in 2 .. n : s[j] = Ipxe(i)
    BY <1>2, <2>2 DEF IsStack
  <2>4. j \in 2 .. n - 1
    BY <2>1, <2>3
  <2> QED BY <2>3, <2>4
<1>12. \A j, k \in 1 .. n - 1 : s[j] = s[k] => j = k
  BY <1>5, <1>9
<1>13. IsStack(w, o, int, n - 1, s)
  BY <1>3, <1>6, <1>10, <1>11, <1>12 DEF IsStack
<1> QED
  BY <1>5, <1>13 DEF Stacked

\* Hooking sets the chaining vector of one copy for one interrupt.
Hooking(v, w, i, int) ==
    /\ w.chain[i][int] # Null
    /\ v.chain[i][int] = Null => w.ivt[int] = Ipxe(i) /\ w.chain[i][int] = v.ivt[int]
    /\ v.chain[i][int] # Null => w = v
    /\ \A j \in Copies, m \in Ints : j # i \/ m # int => w.chain[j][m] = v.chain[j][m]
    /\ \A m \in Ints \ {int} : w.ivt[m] = v.ivt[m]

\* Unhooking clears it, if the copy is at the top.
Unhooking(v, w, i, int) ==
    /\ v.ivt[int] = Ipxe(i) => w.ivt[int] = v.chain[i][int] /\ w.chain[i][int] = Null
    /\ v.ivt[int] # Ipxe(i) => w = v
    /\ \A j \in Copies, m \in Ints : j # i \/ m # int => w.chain[j][m] = v.chain[j][m]
    /\ \A m \in Ints \ {int} : w.ivt[m] = v.ivt[m]

\* The fields of a value of the type.
LEMMA VecFields ==
  ASSUME NEW v \in VecType
  PROVE  /\ v.ivt \in [Ints -> HandlerType]
         /\ v.chain \in [Copies -> [Ints -> HandlerType]]
         /\ v.hooked \in [Copies -> Int]
  BY DEF VecType

\* And a value of the type from its fields.
LEMMA VecBuilt ==
  ASSUME NEW a \in [Ints -> HandlerType], NEW b \in [Copies -> [Ints -> HandlerType]],
         NEW c \in [Copies -> Int]
  PROVE  [ivt |-> a, chain |-> b, hooked |-> c] \in VecType
  BY DEF VecType

\* Five interrupts are finitely many.
LEMMA IntsFinite == IsFiniteSet(Ints)
<1>1. IsFiniteSet({"13"})
  BY FS_Singleton
<1>2. IsFiniteSet({"13"} \cup {"15"})
  BY <1>1, FS_AddElement
<1>3. IsFiniteSet(({"13"} \cup {"15"}) \cup {"16"})
  BY <1>2, FS_AddElement
<1>4. IsFiniteSet((({"13"} \cup {"15"}) \cup {"16"}) \cup {"18"})
  BY <1>3, FS_AddElement
<1>5. IsFiniteSet(((({"13"} \cup {"15"}) \cup {"16"}) \cup {"18"}) \cup {"19"})
  BY <1>4, FS_AddElement
<1>6. Ints = ((({"13"} \cup {"15"}) \cup {"16"}) \cup {"18"}) \cup {"19"}
  BY DEF Ints
<1> QED
  BY <1>5, <1>6

\* So a copy has finitely many hooks.
LEMMA HooksFinite ==
  ASSUME NEW v, NEW i
  PROVE  IsFiniteSet(Hooks(v, i)) /\ Cardinality(Hooks(v, i)) \in Nat
<1>1. Hooks(v, i) \in SUBSET Ints
  BY DEF Hooks
<1> HIDE DEF Hooks
<1>2. IsFiniteSet(Hooks(v, i))
  BY <1>1, IntsFinite, FS_Subset
<1> QED
  BY <1>2, FS_CardinalityType

\* hook_bios_interrupt.
LEMMA HookInv ==
  ASSUME NEW v, NEW o, Len(o) \in Nat, VecInv(v, o), NEW i \in Copies, NEW int \in Ints
  PROVE  /\ VecInv(hook_bios_interrupt(v, i, int), o)
         /\ Hooking(v, hook_bios_interrupt(v, i, int), i, int)
<1> DEFINE w == hook_bios_interrupt(v, i, int)
<1>1. CASE v.chain[i][int] # Null
  <2>1. w = v
    BY <1>1 DEF hook_bios_interrupt
  <2> QED
    BY <1>1, <2>1 DEF Hooking
<1>2. CASE v.chain[i][int] = Null
  <2>1. v \in VecType
    BY DEF VecInv
  <2>2. /\ v.ivt \in [Ints -> HandlerType]
        /\ v.chain \in [Copies -> [Ints -> HandlerType]]
        /\ v.hooked \in [Copies -> Int]
    BY <2>1, VecFields
  <2> DEFINE a == [v.ivt EXCEPT ![int] = Ipxe(i)]
             b == [v.chain EXCEPT ![i][int] = v.ivt[int]]
             c == [v.hooked EXCEPT ![i] = @ + 1]
  <2>3. w = [ivt |-> a, chain |-> b, hooked |-> c]
    BY <1>2 DEF hook_bios_interrupt
  <2>4. i \in Nat /\ v.ivt[int] \in HandlerType /\ Ipxe(i) \in HandlerType
    <3>1. i \in Nat
      BY OptionRomAssumption DEF Copies
    <3> QED BY <2>2, <3>1, HandlerFacts
  <2>5. /\ a \in [Ints -> HandlerType] /\ a[int] = Ipxe(i)
        /\ \A m \in Ints \ {int} : a[m] = v.ivt[m]
    BY <2>2, <2>4
  <2>6. /\ b \in [Copies -> [Ints -> HandlerType]] /\ b[i][int] = v.ivt[int]
        /\ \A j \in Copies, m \in Ints : j # i \/ m # int => b[j][m] = v.chain[j][m]
    BY <2>2, <2>4
  <2>7. /\ c \in [Copies -> Int] /\ c[i] = v.hooked[i] + 1
        /\ \A j \in Copies \ {i} : c[j] = v.hooked[j]
    BY <2>2
  <2>8. w \in VecType
    <3> HIDE DEF a, b, c, w
    <3> QED BY <2>3, <2>5, <2>6, <2>7, VecBuilt
  <2>9. w.ivt = a /\ w.chain = b /\ w.hooked = c
    BY <2>3
  <2> HIDE DEF a, b, c, w
  <2>10. v.ivt[int] # Null
    <3>1. PICK n \in Nat \ {0} : \E s : IsStack(v, o, int, n, s)
      BY DEF VecInv, Stacked
    <3>2. PICK s : IsStack(v, o, int, n, s)
      BY <3>1
    <3>3. n \in 1 .. n /\ s[n] = v.ivt[int]
      BY <3>2 DEF IsStack
    <3> QED BY <3>2, <3>3, StackElement
  <2>11. Hooking(v, w, i, int)
    BY <1>2, <2>5, <2>6, <2>9, <2>10 DEF Hooking
  <2>12. ASSUME NEW m \in Ints PROVE Stacked(w, o, m)
    <3>1. Stacked(v, o, m)
      BY DEF VecInv
    <3>2. CASE m = int
      <4>1. \A k \in 1 .. Len(o) : o[k] = o[k]
        OBVIOUS
      <4>2. /\ w.ivt[int] = Ipxe(i) /\ w.chain[i][int] = v.ivt[int]
            /\ \A j \in Copies \ {i} : w.chain[j][int] = v.chain[j][int]
        BY <1>2, <2>11 DEF Hooking
      <4>3. Stacked(w, o, int)
        BY <1>2, <3>1, <3>2, <4>1, <4>2, Push
      <4> QED BY <3>2, <4>3
    <3>3. CASE m # int
      <4>1. w.ivt[m] = v.ivt[m] /\ \A j \in Copies : w.chain[j][m] = v.chain[j][m]
        BY <2>11, <3>3 DEF Hooking
      <4> QED BY <3>1, <4>1, StackKept
    <3> QED BY <3>2, <3>3
  <2>13. Counted(w)
    <3> SUFFICES ASSUME NEW j \in Copies PROVE w.hooked[j] = Cardinality(Hooks(w, j))
      BY DEF Counted
    <3>1. v.hooked[j] = Cardinality(Hooks(v, j))
      BY DEF VecInv, Counted
    <3>2. CASE j = i
      <4>1. Hooks(w, i) = Hooks(v, i) \cup {int} /\ int \notin Hooks(v, i)
        BY <1>2, <2>11 DEF Hooking, Hooks
      <4>2. Cardinality(Hooks(v, i) \cup {int}) = Cardinality(Hooks(v, i)) + 1
        BY <4>1, HooksFinite, FS_AddElement
      <4> QED BY <2>7, <2>9, <3>1, <3>2, <4>1, <4>2
    <3>3. CASE j # i
      <4>1. Hooks(w, j) = Hooks(v, j)
        BY <2>11, <3>3 DEF Hooking, Hooks
      <4> QED BY <2>7, <2>9, <3>1, <3>3, <4>1
    <3> QED BY <3>2, <3>3
  <2>14. VecInv(w, o)
    BY <2>8, <2>12, <2>13 DEF VecInv
  <2> QED
    BY <2>11, <2>14 DEF w
<1> QED
  BY <1>1, <1>2

\* unhook_bios_interrupt.
LEMMA UnhookInv ==
  ASSUME NEW v, NEW o, VecInv(v, o), NEW i \in Copies, NEW int \in Ints
  PROVE  /\ VecInv(unhook_bios_interrupt(v, i, int), o)
         /\ Unhooking(v, unhook_bios_interrupt(v, i, int), i, int)
<1> DEFINE w == unhook_bios_interrupt(v, i, int)
<1>1. CASE v.ivt[int] # Ipxe(i)
  <2>1. w = v
    BY <1>1 DEF unhook_bios_interrupt
  <2> QED
    BY <1>1, <2>1 DEF Unhooking
<1>2. CASE v.ivt[int] = Ipxe(i)
  <2>1. v \in VecType
    BY DEF VecInv
  <2>2. /\ v.ivt \in [Ints -> HandlerType]
        /\ v.chain \in [Copies -> [Ints -> HandlerType]]
        /\ v.hooked \in [Copies -> Int]
    BY <2>1, VecFields
  <2> DEFINE a == [v.ivt EXCEPT ![int] = v.chain[i][int]]
             b == [v.chain EXCEPT ![i][int] = Null]
             c == [v.hooked EXCEPT ![i] = @ - 1]
  <2>3. w = [ivt |-> a, chain |-> b, hooked |-> c]
    BY <1>2 DEF unhook_bios_interrupt
  <2>4. v.chain[i][int] \in HandlerType /\ Null \in HandlerType
    BY <2>2, HandlerFacts
  <2>5. /\ a \in [Ints -> HandlerType] /\ a[int] = v.chain[i][int]
        /\ \A m \in Ints \ {int} : a[m] = v.ivt[m]
    BY <2>2, <2>4
  <2>6. /\ b \in [Copies -> [Ints -> HandlerType]] /\ b[i][int] = Null
        /\ \A j \in Copies, m \in Ints : j # i \/ m # int => b[j][m] = v.chain[j][m]
    BY <2>2, <2>4
  <2>7. /\ c \in [Copies -> Int] /\ c[i] = v.hooked[i] - 1
        /\ \A j \in Copies \ {i} : c[j] = v.hooked[j]
    BY <2>2
  <2>8. w \in VecType
    <3> HIDE DEF a, b, c, w
    <3> QED BY <2>3, <2>5, <2>6, <2>7, VecBuilt
  <2>9. w.ivt = a /\ w.chain = b /\ w.hooked = c
    BY <2>3
  <2> HIDE DEF a, b, c, w
  <2>10. v.chain[i][int] # Null
    <3>1. PICK n \in Nat \ {0} : \E s : IsStack(v, o, int, n, s)
      BY DEF VecInv, Stacked
    <3>2. PICK s : IsStack(v, o, int, n, s)
      BY <3>1
    <3>3. s[1] \in {Bios, Rom} /\ s[n] = Ipxe(i)
      BY <1>2, <3>2 DEF IsStack
    <3>4. n # 1
      BY <3>3, HandlerFacts
    <3>5. n \in 2 .. n /\ n - 1 \in 1 .. n
      BY <3>4
    <3>6. v.chain[i][int] = s[n - 1]
      <4>1. \/ \E j \in Copies : s[n] = Ipxe(j) /\ v.chain[j][int] = s[n - 1]
            \/ \E k \in 1 .. Len(o) : s[n] = Other(k)
        BY <3>2, <3>5 DEF IsStack
      <4> QED BY <3>3, <4>1, HandlerFacts
    <3>7. s[n - 1] # Null
      BY <3>2, <3>5, StackElement
    <3> QED BY <3>6, <3>7
  <2>11. Unhooking(v, w, i, int)
    BY <1>2, <2>5, <2>6, <2>9 DEF Unhooking
  <2>12. ASSUME NEW m \in Ints PROVE Stacked(w, o, m)
    <3>1. Stacked(v, o, m)
      BY DEF VecInv
    <3>2. CASE m = int
      <4>1. /\ w.ivt[int] = v.chain[i][int] /\ w.chain[i][int] = Null
            /\ \A j \in Copies \ {i} : w.chain[j][int] = v.chain[j][int]
        BY <1>2, <2>11 DEF Unhooking
      <4>2. Stacked(w, o, int)
        BY <1>2, <3>1, <3>2, <4>1, Pop
      <4> QED BY <3>2, <4>2
    <3>3. CASE m # int
      <4>1. w.ivt[m] = v.ivt[m] /\ \A j \in Copies : w.chain[j][m] = v.chain[j][m]
        BY <2>11, <3>3 DEF Unhooking
      <4> QED BY <3>1, <4>1, StackKept
    <3> QED BY <3>2, <3>3
  <2>13. Counted(w)
    <3> SUFFICES ASSUME NEW j \in Copies PROVE w.hooked[j] = Cardinality(Hooks(w, j))
      BY DEF Counted
    <3>1. v.hooked[j] = Cardinality(Hooks(v, j))
      BY DEF VecInv, Counted
    <3>2. CASE j = i
      <4>1. Hooks(w, i) = Hooks(v, i) \ {int} /\ int \in Hooks(v, i)
        BY <1>2, <2>10, <2>11 DEF Unhooking, Hooks
      <4>2. Cardinality(Hooks(v, i) \ {int}) = Cardinality(Hooks(v, i)) - 1
        BY <4>1, HooksFinite, FS_RemoveElement
      <4> QED BY <2>7, <2>9, <3>1, <3>2, <4>1, <4>2
    <3>3. CASE j # i
      <4>1. Hooks(w, j) = Hooks(v, j)
        BY <2>11, <3>3 DEF Unhooking, Hooks
      <4> QED BY <2>7, <2>9, <3>1, <3>3, <4>1
    <3> QED BY <3>2, <3>3
  <2>14. VecInv(w, o)
    BY <2>8, <2>12, <2>13 DEF VecInv
  <2> QED
    BY <2>11, <2>14 DEF w
<1> QED
  BY <1>1, <1>2

\* Two interrupts of a copy get hooked, and no other.
HookingBoth(v, w, i, a, b) ==
    /\ w.chain[i][a] # Null /\ w.chain[i][b] # Null
    /\ \A j \in Copies, m \in Ints : j # i \/ m \notin {a, b} =>
          w.chain[j][m] = v.chain[j][m]

\* One after the other.
LEMMA HookTwice ==
  ASSUME NEW v, NEW u, NEW w, NEW i \in Copies, NEW a \in Ints, NEW b \in Ints, a # b,
         Hooking(v, u, i, a), Hooking(u, w, i, b)
  PROVE  HookingBoth(v, w, i, a, b)
<1>1. u.chain[i][a] # Null
      /\ \A j \in Copies, m \in Ints : j # i \/ m # a => u.chain[j][m] = v.chain[j][m]
  BY DEF Hooking
<1>2. w.chain[i][b] # Null
      /\ \A j \in Copies, m \in Ints : j # i \/ m # b => w.chain[j][m] = u.chain[j][m]
  BY DEF Hooking
<1> QED
  BY <1>1, <1>2 DEF HookingBoth

\* A stack is unchanged when hooks of other programs are added to the list.
LEMMA StackGrown ==
  ASSUME NEW v, NEW w, NEW o, NEW q, NEW int, Stacked(v, o, int),
         Len(o) \in Nat, Len(q) \in Nat, Len(o) <= Len(q),
         \A k \in 1 .. Len(o) : q[k] = o[k],
         w.ivt[int] = v.ivt[int],
         \A i \in Copies : w.chain[i][int] = v.chain[i][int]
  PROVE  Stacked(w, q, int)
<1>1. PICK n \in Nat \ {0} : \E s : IsStack(v, o, int, n, s)
  BY DEF Stacked
<1>2. PICK s : IsStack(v, o, int, n, s)
  BY <1>1
<1>3. IsStack(w, q, int, n, s)
  <2>1. ASSUME NEW j \in 2 .. n
        PROVE  \/ \E i \in Copies : s[j] = Ipxe(i) /\ w.chain[i][int] = s[j - 1]
               \/ \E k \in 1 .. Len(q) : s[j] = Other(k) /\ q[k].next = s[j - 1]
    <3>1. \/ \E i \in Copies : s[j] = Ipxe(i) /\ v.chain[i][int] = s[j - 1]
          \/ \E k \in 1 .. Len(o) : s[j] = Other(k) /\ o[k].next = s[j - 1]
      BY <1>2 DEF IsStack
    <3>2. 1 .. Len(o) \subseteq 1 .. Len(q)
      OBVIOUS
    <3> QED BY <3>1, <3>2
  <2>2. \A i \in Copies : w.chain[i][int] # Null => \E j \in 2 .. n : s[j] = Ipxe(i)
    BY <1>2 DEF IsStack
  <2> QED
    BY <1>2, <2>1, <2>2 DEF IsStack
<1> QED
  BY <1>3 DEF Stacked

-----------------------------------------------------------------------------
(* The stack and the calls.                                                *)

\* Where the handlers on a stack pass a call on to.
LEMMA NextHandlerCases ==
  ASSUME NEW int
  PROVE  /\ NextHandler(int, Bios) = Bios /\ NextHandler(int, Rom) = Bios
         /\ \A k : NextHandler(int, Other(k)) = others[k].next
         /\ int \in {"13", "15", "16"} =>
               \A i : NextHandler(int, Ipxe(i)) = vec.chain[i][int]
         /\ int \notin {"13", "15", "16"} =>
               \A i : NextHandler(int, Ipxe(i)) = Ipxe(i)
<1>1. NextHandler(int, Bios) = Bios
  BY DEF NextHandler, Bios
<1>2. NextHandler(int, Rom) = Bios
  BY DEF NextHandler, Rom
<1>3. ASSUME NEW k PROVE NextHandler(int, Other(k)) = others[k].next
  BY DEF NextHandler, Other
<1>4. ASSUME NEW i, int \in {"13", "15", "16"}
      PROVE  NextHandler(int, Ipxe(i)) = vec.chain[i][int]
  BY <1>4 DEF NextHandler, Ipxe
<1>5. ASSUME NEW i, int \notin {"13", "15", "16"}
      PROVE  NextHandler(int, Ipxe(i)) = Ipxe(i)
  BY <1>5 DEF NextHandler, Ipxe
<1> QED
  BY <1>1, <1>2, <1>3, <1>4, <1>5

\* A stack is no higher than there are hooks: everybody is on it at most once.
LEMMA StackHeight ==
  ASSUME NEW v, NEW o, Len(o) \in 0 .. MaxOthers, NEW int, NEW n \in Nat \ {0}, NEW s,
         IsStack(v, o, int, n, s)
  PROVE  n - 1 <= MaxRuns + MaxOthers
<1>1. MaxRuns \in Nat /\ MaxOthers \in Nat
  BY OptionRomAssumption
<1> DEFINE M == MaxRuns + MaxOthers
           f == [j \in 2 .. n |-> IF s[j][1] = "ipxe" THEN s[j][2] ELSE MaxRuns + s[j][2]]
<1>2. ASSUME NEW j \in 2 .. n
      PROVE  \/ \E i \in 1 .. MaxRuns : s[j] = Ipxe(i) /\ f[j] = i
             \/ \E k \in 1 .. MaxOthers : s[j] = Other(k) /\ f[j] = MaxRuns + k
  <2>1. \/ \E i \in Copies : s[j] = Ipxe(i)
        \/ \E k \in 1 .. Len(o) : s[j] = Other(k)
    BY DEF IsStack
  <2>2. CASE \E i \in Copies : s[j] = Ipxe(i)
    BY <2>2, HandlerFacts DEF Copies
  <2>3. CASE \E k \in 1 .. Len(o) : s[j] = Other(k)
    <3>1. PICK k \in 1 .. Len(o) : s[j] = Other(k)
      BY <2>3
    <3>2. k \in 1 .. MaxOthers
      BY <1>1
    <3>3. s[j][1] # "ipxe" /\ s[j][2] = k
      BY <3>1, HandlerFacts
    <3> QED BY <3>1, <3>2, <3>3
  <2> QED BY <2>1, <2>2, <2>3
<1> HIDE DEF f
<1>3. \A j \in 2 .. n : f[j] \in 1 .. M
  BY <1>1, <1>2
<1>4. ASSUME NEW j \in 2 .. n, NEW k \in 2 .. n, f[j] = f[k]
      PROVE  j = k
  <2>1. s[j] = s[k]
    <3>1. \/ \E i \in 1 .. MaxRuns : s[j] = Ipxe(i) /\ f[j] = i
          \/ \E m \in 1 .. MaxOthers : s[j] = Other(m) /\ f[j] = MaxRuns + m
      BY <1>2
    <3>2. \/ \E i \in 1 .. MaxRuns : s[k] = Ipxe(i) /\ f[k] = i
          \/ \E m \in 1 .. MaxOthers : s[k] = Other(m) /\ f[k] = MaxRuns + m
      BY <1>2
    <3> QED BY <1>1, <1>4, <3>1, <3>2
  <2>2. j \in 1 .. n /\ k \in 1 .. n
    OBVIOUS
  <2> QED BY <2>1, <2>2 DEF IsStack
<1>5. f \in Injection(2 .. n, 1 .. M)
  <2>1. f \in [2 .. n -> 1 .. M]
    BY <1>3 DEF f
  <2> QED BY <1>4, <2>1, Zenon DEF Injection, IsInjective
<1>6. IsFiniteSet(1 .. M) /\ Cardinality(1 .. M) = M /\ Cardinality(2 .. n) = n - 1
  <2>1. M \in Nat /\ 1 \in Int /\ 2 \in Int /\ n \in Int /\ M \in Int
    BY <1>1
  <2> HIDE DEF M
  <2>2. IsFiniteSet(1 .. M) /\ Cardinality(1 .. M) = IF 1 > M THEN 0 ELSE M - 1 + 1
    BY <2>1, FS_Interval
  <2>3. Cardinality(2 .. n) = IF 2 > n THEN 0 ELSE n - 2 + 1
    BY <2>1, FS_Interval
  <2> QED BY <2>1, <2>2, <2>3
<1>7. Cardinality(2 .. n) <= Cardinality(1 .. M)
  <2> HIDE DEF M
  <2> QED BY <1>5, <1>6, FS_Injection
<1> QED
  BY <1>6, <1>7

\* A call gets to nobody who is not on the stack, except the BIOS.
LEMMA ReachedOnStack ==
  ASSUME NEW int, NEW n \in Nat \ {0}, NEW s, IsStack(vec, others, int, n, s)
  PROVE  Reached(int) \subseteq {s[j] : j \in 1 .. n} \cup {Bios}
<1>2. IsStack(vec, others, int, n, s)
  OBVIOUS
<1> DEFINE S == {s[j] : j \in 1 .. n} \cup {Bios}
<1>3. vec.ivt[int] \in S
  <2>1. n \in 1 .. n /\ s[n] = vec.ivt[int]
    BY <1>2 DEF IsStack
  <2> QED BY <2>1
<1>4. ASSUME NEW h \in S PROVE NextHandler(int, h) \in S
  <2>1. CASE h \in {Bios, Rom}
    BY <2>1, NextHandlerCases
  <2>2. CASE h \notin {Bios, Rom}
    <3>1. PICK j \in 1 .. n : h = s[j]
      BY <2>2
    <3>2. j # 1
      BY <1>2, <2>2, <3>1 DEF IsStack
    <3>3. j \in 2 .. n /\ j - 1 \in 1 .. n
      BY <3>2
    <3>4. s[j - 1] \in S /\ s[j] \in S
      BY <3>3
    <3>5. \/ \E k \in Copies : s[j] = Ipxe(k) /\ vec.chain[k][int] = s[j - 1]
          \/ \E k \in 1 .. Len(others) : s[j] = Other(k) /\ others[k].next = s[j - 1]
      BY <1>2, <3>3 DEF IsStack
    <3> HIDE DEF S
    <3>6. CASE \E k \in Copies : s[j] = Ipxe(k) /\ vec.chain[k][int] = s[j - 1]
      <4>1. PICK k \in Copies : s[j] = Ipxe(k) /\ vec.chain[k][int] = s[j - 1]
        BY <3>6
      <4>2. NextHandler(int, Ipxe(k)) \in {vec.chain[k][int], Ipxe(k)}
        BY NextHandlerCases
      <4> QED BY <3>1, <3>4, <4>1, <4>2
    <3>7. CASE \E k \in 1 .. Len(others) : s[j] = Other(k) /\ others[k].next = s[j - 1]
      <4>1. PICK k \in 1 .. Len(others) : s[j] = Other(k) /\ others[k].next = s[j - 1]
        BY <3>7
      <4>2. NextHandler(int, Other(k)) = others[k].next
        BY NextHandlerCases
      <4> QED BY <3>1, <3>4, <4>1, <4>2
    <3> QED BY <3>5, <3>6, <3>7
  <2> QED BY <2>1, <2>2
<1>5. Reached(int) \subseteq S
  <2> HIDE DEF S
  <2> QED BY <1>3, <1>4, ReachedWithin
<1> QED
  BY <1>5

\* A copy that a call gets to is one of the copies.
LEMMA ReachedIpxe ==
  ASSUME VecInv(vec, others), NEW int \in Ints, NEW h \in Reached(int), h[1] = "ipxe"
  PROVE  h[2] \in Copies /\ h = Ipxe(h[2])
<1>1. PICK n \in Nat \ {0} : \E s : IsStack(vec, others, int, n, s)
  BY DEF VecInv, Stacked
<1>2. PICK s : IsStack(vec, others, int, n, s)
  BY <1>1
<1>3. h \in {s[j] : j \in 1 .. n} \cup {Bios}
  BY <1>2, ReachedOnStack
<1>4. h # Bios /\ h # Rom /\ \A k : h # Other(k)
  BY HandlerFacts
<1>5. PICK j \in 1 .. n : h = s[j]
  BY <1>3, <1>4
<1>6. j \in 2 .. n
  <2>1. s[1] \in {Bios, Rom}
    BY <1>2 DEF IsStack
  <2>2. j # 1
    BY <1>4, <1>5, <2>1
  <2> QED BY <2>2
<1>7. PICK i \in Copies : h = Ipxe(i)
  <2>1. \/ \E i \in Copies : s[j] = Ipxe(i)
        \/ \E k \in 1 .. Len(others) : s[j] = Other(k)
    BY <1>2, <1>6 DEF IsStack
  <2> QED BY <1>4, <1>5, <2>1
<1> QED
  BY <1>7, HandlerFacts

\* A call gets only to copies that have hooked the interrupt.
LEMMA ServingHooked ==
  ASSUME VecInv(vec, others), NEW int \in Ints, NEW i \in Serving(int)
  PROVE  i \in Copies /\ vec.chain[i][int] # Null
<1>1. PICK n \in Nat \ {0} : \E s : IsStack(vec, others, int, n, s)
  BY DEF VecInv, Stacked
<1>2. PICK s : IsStack(vec, others, int, n, s)
  BY <1>1
<1> DEFINE S == {s[j] : j \in 1 .. n} \cup {Bios}
<1>5. Reached(int) \subseteq S
  BY <1>2, ReachedOnStack
<1>6. i \in Copies /\ Ipxe(i) \in S
  BY <1>5 DEF Serving
<1>7. PICK j \in 1 .. n : s[j] = Ipxe(i)
  BY <1>6, HandlerFacts
<1>8. j # 1
  BY <1>2, <1>7, HandlerFacts DEF IsStack
<1>9. j \in 2 .. n /\ j - 1 \in 1 .. n
  BY <1>8
<1>10. vec.chain[i][int] = s[j - 1]
  <2>1. \/ \E k \in Copies : s[j] = Ipxe(k) /\ vec.chain[k][int] = s[j - 1]
        \/ \E k \in 1 .. Len(others) : s[j] = Other(k)
    BY <1>2, <1>9 DEF IsStack
  <2> QED BY <1>7, <2>1, HandlerFacts
<1>11. s[j - 1] # Null
  <2>1. \A m \in 1 .. n : s[m] # Null
    BY <1>2, StackElement
  <2> QED BY <1>9, <2>1
<1> QED
  BY <1>6, <1>10, <1>11

\* The part of a stack above place m is reached, if every hook in it passes on.
LEMMA TopReached ==
  ASSUME Len(others) \in 0 .. MaxOthers, NEW int, NEW n \in Nat \ {0}, NEW s,
         IsStack(vec, others, int, n, s), NEW m \in 1 .. n,
         \A j \in m + 1 .. n : s[j][1] = "other" \/ int \in {"13", "15", "16"}
  PROVE  \A j \in m .. n : s[j] \in Reached(int)
<1> DEFINE p == [k \in 0 .. n - m |-> s[n - k]]
<1>1. n - m \in Nat /\ n - m <= Steps
  <2>1. n - 1 <= MaxRuns + MaxOthers
    BY StackHeight
  <2> QED BY <2>1, OptionRomAssumption DEF Steps
<1>2. p[0] = vec.ivt[int]
  <2>1. p[0] = s[n]
    BY <1>1
  <2> QED BY <2>1 DEF IsStack
<1>3. ASSUME NEW k \in 1 .. n - m PROVE p[k] = NextHandler(int, p[k - 1])
  <2> DEFINE j == n - (k - 1)
  <2>1. j \in m + 1 .. n /\ j \in 2 .. n /\ j - 1 = n - k
    OBVIOUS
  <2>2. p[k] = s[j - 1] /\ p[k - 1] = s[j]
    <3>1. k \in 0 .. n - m /\ k - 1 \in 0 .. n - m
      OBVIOUS
    <3>2. p[k] = s[n - k] /\ p[k - 1] = s[n - (k - 1)]
      BY <3>1
    <3> QED BY <2>1, <3>2
  <2> HIDE DEF j, p
  <2>3. \/ \E i \in Copies : s[j] = Ipxe(i) /\ vec.chain[i][int] = s[j - 1]
        \/ \E i \in 1 .. Len(others) : s[j] = Other(i) /\ others[i].next = s[j - 1]
    BY <2>1 DEF IsStack
  <2>4. s[j][1] = "other" \/ int \in {"13", "15", "16"}
    BY <2>1
  <2>5. CASE \E i \in Copies : s[j] = Ipxe(i) /\ vec.chain[i][int] = s[j - 1]
    <3>1. int \in {"13", "15", "16"}
      BY <2>4, <2>5, HandlerFacts
    <3>2. PICK i \in Copies : s[j] = Ipxe(i) /\ vec.chain[i][int] = s[j - 1]
      BY <2>5
    <3>3. NextHandler(int, Ipxe(i)) = vec.chain[i][int]
      BY <3>1, NextHandlerCases
    <3> QED BY <2>2, <3>2, <3>3
  <2>6. CASE \E i \in 1 .. Len(others) : s[j] = Other(i) /\ others[i].next = s[j - 1]
    <3>1. PICK i \in 1 .. Len(others) : s[j] = Other(i) /\ others[i].next = s[j - 1]
      BY <2>6
    <3>2. NextHandler(int, Other(i)) = others[i].next
      BY NextHandlerCases
    <3> QED BY <2>2, <3>1, <3>2
  <2> QED BY <2>3, <2>5, <2>6
<1>4. \A k \in 0 .. n - m : p[k] \in Reached(int)
  <2> HIDE DEF p
  <2> QED BY <1>1, <1>2, <1>3, ReachedAlong
<1>5. ASSUME NEW j \in m .. n PROVE s[j] \in Reached(int)
  <2>1. n - j \in 0 .. n - m /\ n - (n - j) = j
    OBVIOUS
  <2>2. p[n - j] = s[n - (n - j)]
    BY <2>1
  <2> HIDE DEF p
  <2> QED BY <1>4, <2>1, <2>2
<1> QED
  BY <1>5

\* A copy that has hooked INT 15 hides its memory.
LEMMA HookedHidden ==
  ASSUME VecInv(vec, others), Len(others) \in 0 .. MaxOthers, NEW i \in Copies,
         vec.chain[i]["15"] # Null
  PROVE  copies[i].high \in Hidden
<1>1. "15" \in Ints
  BY DEF Ints
<1>2. PICK n \in Nat \ {0} : \E s : IsStack(vec, others, "15", n, s)
  BY <1>1 DEF VecInv, Stacked
<1>3. PICK s : IsStack(vec, others, "15", n, s)
  BY <1>2
<1>4. PICK j \in 2 .. n : s[j] = Ipxe(i)
  BY <1>3 DEF IsStack
<1>5. \A k \in 1 .. n : s[k] \in Reached("15")
  <2>1. 1 \in 1 .. n
    OBVIOUS
  <2> QED BY <1>3, <2>1, TopReached
<1>6. i \in Serving("15")
  <2>1. j \in 1 .. n
    OBVIOUS
  <2> QED BY <1>4, <1>5, <2>1 DEF Serving
<1> QED
  BY <1>6 DEF Hidden

\* INT 18 and INT 19 end up where they are passed on to.
LEMMA FailHandlerReached ==
  ASSUME VecInv(vec, others), Len(others) \in 0 .. MaxOthers, NEW int \in {"18", "19"}
  PROVE  FailHandler(int) \in Reached(int)
<1>1. int \in Ints /\ int \notin {"13", "15", "16"}
  BY DEF Ints
<1>2. PICK n \in Nat \ {0} : \E s : IsStack(vec, others, int, n, s)
  BY <1>1 DEF VecInv, Stacked
<1>3. PICK s : IsStack(vec, others, int, n, s)
  BY <1>2
<1> DEFINE D == {d \in Nat : d < n /\ s[n - d][1] # "other"}
<1>4. PICK d \in D : \A e \in D : d <= e
  <2>1. n - 1 \in D
    <3>1. n - 1 \in Nat /\ n - 1 < n /\ n - (n - 1) = 1
      OBVIOUS
    <3>2. s[1][1] # "other"
      BY <1>3, HandlerFacts DEF IsStack
    <3> QED BY <3>1, <3>2
  <2> HIDE DEF D
  <2>2. D \subseteq Nat
    BY DEF D
  <2> QED BY <2>1, <2>2, SmallestNat
<1> DEFINE m == n - d
<1>5. m \in 1 .. n /\ s[m][1] # "other"
  OBVIOUS
<1>6. ASSUME NEW j \in m + 1 .. n PROVE s[j][1] = "other"
  <2>1. n - j \in Nat /\ n - j < n /\ n - j < d /\ n - (n - j) = j
    BY <1>5
  <2>2. n - j \notin D
    <3>1. d \in Nat
      OBVIOUS
    <3>2. \A e \in D : d <= e
      BY <1>4
    <3> HIDE DEF D
    <3> QED BY <2>1, <3>1, <3>2
  <2> QED BY <2>1, <2>2
<1> HIDE DEF D, m
<1>7. s[m] \in Reached(int)
  <2>1. \A j \in m .. n : s[j] \in Reached(int)
    BY <1>3, <1>5, <1>6, TopReached
  <2> QED BY <1>5, <2>1
<1> DEFINE S == {s[j] : j \in m .. n} \cup {Bios}
<1>8. Reached(int) \subseteq S
  <2>1. vec.ivt[int] \in S
    <3>1. n \in m .. n /\ s[n] = vec.ivt[int]
      BY <1>3, <1>5 DEF IsStack
    <3> QED BY <3>1
  <2>2. ASSUME NEW h \in S PROVE NextHandler(int, h) \in S
    <3>1. CASE h \in {Bios, Rom}
      BY <3>1, NextHandlerCases
    <3>2. CASE h \notin {Bios, Rom}
      <4>1. PICK j \in m .. n : h = s[j]
        BY <3>2
      <4>2. j \in 1 .. n
        BY <1>5
      <4>3. \/ \E i \in Copies : s[j] = Ipxe(i)
            \/ \E k \in 1 .. Len(others) : s[j] = Other(k)
        BY <1>3, <3>2, <4>1, <4>2, StackElement
      <4>4. CASE \E i \in Copies : s[j] = Ipxe(i)
        <5>1. PICK i \in Copies : s[j] = Ipxe(i)
          BY <4>4
        <5>2. NextHandler(int, Ipxe(i)) = Ipxe(i)
          BY <1>1, NextHandlerCases
        <5> QED BY <4>1, <5>1, <5>2
      <4>5. CASE \E k \in 1 .. Len(others) : s[j] = Other(k)
        <5>1. j # m
          BY <1>5, <4>5, HandlerFacts
        <5>2. j \in 2 .. n /\ j - 1 \in m .. n
          BY <1>5, <5>1
        <5>3. \/ \E i \in Copies : s[j] = Ipxe(i)
              \/ \E k \in 1 .. Len(others) : s[j] = Other(k) /\ others[k].next = s[j - 1]
          BY <1>3, <5>2 DEF IsStack
        <5>4. NextHandler(int, s[j]) = s[j - 1]
          <6>1. PICK k \in 1 .. Len(others) : s[j] = Other(k) /\ others[k].next = s[j - 1]
            BY <4>5, <5>3, HandlerFacts
          <6>2. NextHandler(int, Other(k)) = others[k].next
            BY NextHandlerCases
          <6> QED BY <6>1, <6>2
        <5> QED BY <4>1, <5>2, <5>4
      <4> QED BY <4>3, <4>4, <4>5
    <3> QED BY <3>1, <3>2
  <2> HIDE DEF S
  <2> QED BY <2>1, <2>2, ReachedWithin
<1>9. \A g \in S : g = s[m] \/ g[1] = "other" \/ g = Bios
  <2>1. \A j \in m .. n : j = m \/ j \in m + 1 .. n
    BY <1>5
  <2> QED BY <1>6, <2>1
<1> HIDE DEF S
<1> DEFINE Ends(h) == /\ h[1] # "other"
                      /\ \A g \in Reached(int) : g[1] \notin {"other", "bios"} => g = h
                      /\ h = Bios => \A g \in Reached(int) : g[1] \in {"other", "bios"}
<1>10. Ends(s[m])
  BY <1>5, <1>8, <1>9, HandlerFacts
<1>11. FailHandler(int) = CHOOSE h \in Reached(int) : Ends(h)
  BY DEF FailHandler
<1> HIDE DEF Ends
<1> QED
  BY <1>7, <1>10, <1>11

-----------------------------------------------------------------------------
(* What holds of copies, memory and vectors.                               *)

\* What is kept of a copy.
CopyType == [base : Nat, high : Nat, started : BOOLEAN, devices : BOOLEAN,
             keep : Nat, sandev : BOOLEAN]

\* A copy runs in these, and in no other state.
RunStates == {"startup", "hook", "describe", "boot", "fail", "shutdown", "uninstall"}
\* All states.
States == RunStates \cup {"post", "bios", "bootsector", "halted"}

\* The types of the other variables.
BootType ==
    /\ others \in Seq([int : Ints, next : HandlerType]) /\ Len(others) \in 0 .. MaxOthers
    /\ fbms \in 0 .. BaseTop
    /\ copies \in [Copies -> CopyType]
    /\ base \in [0 .. BaseTop - 1 -> Nat]
    /\ high \in [Places -> Nat]
    /\ at[1] \in States
    /\ at[1] \in RunStates \cup {"bootsector"} => at[2] \in Copies

\* Copies are entered one after the other, and each has taken at most one unit.
EnteredInv ==
    /\ \E e \in 0 .. MaxRuns : Entered = 1 .. e /\ fbms >= BaseTop - e
    /\ \A i \in Copies : copies[i].sandev => copies[i].high # 0

\* INT 15 is the first interrupt a copy hooks and the last it unhooks.
Anchored(v) ==
    \A i \in Copies, int \in Ints : v.chain[i][int] # Null => v.chain[i]["15"] # Null

\* The copy whose code runs.
Running(i) == at[2] = i /\ at[1] \in RunStates

\* A copy that a vector leads to, or that runs, has its memory.
Live(i) == vec.chain[i]["15"] # Null \/ Running(i)

\* Its base memory is above the counter, and nobody has used it.
Resident(i) ==
    /\ copies[i].base \in fbms .. BaseTop - 1 /\ base[copies[i].base] = i
    /\ copies[i].high \in Places /\ high[copies[i].high] = i

\* Copies that are needed are resident.
MemInv == \A i \in Copies : Live(i) => Resident(i)

\* What holds where the code runs.
AtInv ==
    /\ at[1] = "post" => /\ \A int \in Ints : vec.ivt[int] = Bios
                         /\ \A i \in Copies, int \in Ints : vec.chain[i][int] = Null
    /\ at[1] = "startup" => /\ copies[at[2]].base = fbms
                            /\ \A int \in Ints : vec.chain[at[2]][int] = Null
    /\ at[1] \in {"hook", "describe", "boot", "bootsector"} =>
          vec.chain[at[2]]["15"] # Null
    /\ at[1] = "hook" => copies[at[2]].devices

\* A copy that has hooked INT 13 has its SAN device, and keeps its device tree.
DevInv ==
    \A i \in Copies : vec.chain[i]["13"] # Null =>
        copies[i].sandev /\ copies[i].devices /\ copies[i].keep # 0

\* The inductive invariant.
BootInv ==
    /\ VecInv(vec, others) /\ BootType /\ EnteredInv /\ Anchored(vec)
    /\ MemInv /\ AtInv /\ DevInv

\* Five interrupts, all different.
LEMMA IntsFacts ==
  /\ "13" \in Ints /\ "15" \in Ints /\ "16" \in Ints /\ "18" \in Ints /\ "19" \in Ints
  /\ \A int \in Ints : int \in {"13", "15", "16", "18", "19"}
  BY DEF Ints

\* Before the ROM has been entered.
LEMMA InitBootInv == Init => BootInv
<1> SUFFICES ASSUME Init PROVE BootInv
  OBVIOUS
<1>1. MaxRuns \in Nat /\ MaxOthers \in Nat /\ BaseTop \in Nat
  BY OptionRomAssumption
<1>2. vec = [ivt |-> [int \in Ints |-> Bios],
             chain |-> [i \in Copies |-> [int \in Ints |-> Null]],
             hooked |-> [i \in Copies |-> 0]]
  BY DEF Init
<1>3. /\ \A int \in Ints : vec.ivt[int] = Bios
      /\ \A i \in Copies, int \in Ints : vec.chain[i][int] = Null
      /\ \A i \in Copies : vec.hooked[i] = 0
  BY <1>2
<1>4. others = <<>> /\ fbms = BaseTop /\ at[1] = "post" /\ at = <<"post", 0>>
  BY DEF Init
<1>5. VecInv(vec, others)
  <2>1. vec \in VecType
    <3>1. /\ [int \in Ints |-> Bios] \in [Ints -> HandlerType]
          /\ [i \in Copies |-> [int \in Ints |-> Null]] \in [Copies -> [Ints -> HandlerType]]
          /\ [i \in Copies |-> 0] \in [Copies -> Int]
      BY HandlerFacts
    <3> QED BY <1>2, <3>1, VecBuilt
  <2>2. ASSUME NEW int \in Ints PROVE Stacked(vec, others, int)
    <3> DEFINE s == [j \in {1} |-> Bios]
    <3>1. s[1] = Bios
      OBVIOUS
    <3>2. IsStack(vec, others, int, 1, s)
      <4>1. 2 .. 1 = {} /\ 1 .. 1 = {1}
        OBVIOUS
      <4> HIDE DEF s
      <4> QED BY <1>3, <3>1, <4>1 DEF IsStack
    <3> QED BY <3>2 DEF Stacked
  <2>3. Counted(vec)
    <3>1. \A i \in Copies : Hooks(vec, i) = {}
      BY <1>3 DEF Hooks
    <3> QED BY <1>3, <3>1, FS_EmptySet DEF Counted
  <2> QED BY <2>1, <2>2, <2>3 DEF VecInv
<1>6. BootType
  <2>1. Absent \in CopyType
    BY DEF Absent, CopyType
  <2>2. copies \in [Copies -> CopyType]
    BY <2>1 DEF Init
  <2>3. others \in Seq([int : Ints, next : HandlerType]) /\ Len(others) \in 0 .. MaxOthers
    BY <1>1, <1>4
  <2>4. base \in [0 .. BaseTop - 1 -> Nat] /\ high \in [Places -> Nat]
    BY DEF Init, Nobody
  <2>5. at[1] \in States /\ at[1] \notin RunStates \cup {"bootsector"}
    BY <1>4 DEF States, RunStates
  <2> QED BY <1>1, <1>4, <2>2, <2>3, <2>4, <2>5 DEF BootType
<1>7. EnteredInv
  <2>1. \A i \in Copies : copies[i].high = 0 /\ ~copies[i].sandev
    BY DEF Init, Absent
  <2>2. Entered = 1 .. 0 /\ 0 \in 0 .. MaxRuns
    BY <1>1, <2>1 DEF Entered
  <2> QED BY <1>1, <1>4, <2>1, <2>2 DEF EnteredInv
<1>8. Anchored(vec) /\ DevInv
  BY <1>3, IntsFacts DEF Anchored, DevInv
<1>9. MemInv
  BY <1>3, <1>4, IntsFacts DEF MemInv, Live, Running, RunStates
<1>10. AtInv
  BY <1>3, <1>4 DEF AtInv
<1> QED
  BY <1>5, <1>6, <1>7, <1>8, <1>9, <1>10 DEF BootInv

\* Memory is kept by a step that touches neither memory nor the counter.
LEMMA MemKept ==
  ASSUME MemInv, UNCHANGED <<fbms, base, high>>,
         \A j \in Copies : copies'[j].base = copies[j].base /\ copies'[j].high = copies[j].high,
         \A j \in Copies : Live(j)' => Live(j)
  PROVE  MemInv'
  BY DEF MemInv, Resident, Places

\* And so is the order of entry.
LEMMA EnteredKept ==
  ASSUME EnteredInv, BootType, fbms' \in Nat, fbms' >= fbms,
         \A j \in Copies : copies'[j].high = copies[j].high,
         \A j \in Copies : copies'[j].sandev => copies[j].high # 0
  PROVE  EnteredInv'
<1>1. Entered' = Entered
  BY DEF Entered
<1>2. PICK e \in 0 .. MaxRuns : Entered = 1 .. e /\ fbms >= BaseTop - e
  BY DEF EnteredInv
<1>3. fbms' >= BaseTop - e
  <2>1. fbms \in Int /\ BaseTop \in Int /\ e \in Int
    BY OptionRomAssumption DEF BootType
  <2> QED BY <1>2, <2>1
<1> QED
  BY <1>1, <1>2, <1>3 DEF EnteredInv

\* The type of a copy, and of a copy after a change of one field.
LEMMA CopyFields ==
  ASSUME NEW c \in CopyType
  PROVE  /\ c.base \in Nat /\ c.high \in Nat /\ c.started \in BOOLEAN
         /\ c.devices \in BOOLEAN /\ c.keep \in Nat /\ c.sandev \in BOOLEAN
  BY DEF CopyType

\* Places have a highest one.
LEMMA MaxPlace ==
  ASSUME NEW S \in SUBSET Places, S # {}
  PROVE  Max(S) \in S
<1>1. MaxRuns \in Nat
  BY OptionRomAssumption
<1> DEFINE D == {d \in Nat : d <= MaxRuns /\ (MaxRuns + 1) - d \in S}
<1>2. ASSUME NEW q \in S
      PROVE  /\ q \in 1 .. MaxRuns + 1 /\ (MaxRuns + 1) - q \in D
             /\ (MaxRuns + 1) - ((MaxRuns + 1) - q) = q
  <2>1. q \in 1 .. MaxRuns + 1
    BY DEF Places
  <2> QED BY <1>1, <2>1
<1>3. PICK d \in D : \A e \in D : d <= e
  <2>1. D # {} /\ D \subseteq Nat
    BY <1>2
  <2> HIDE DEF D
  <2> QED BY <2>1, SmallestNat
<1> DEFINE m == (MaxRuns + 1) - d
<1>4. m \in S /\ d \in Nat
  OBVIOUS
<1>5. ASSUME NEW q \in S PROVE m >= q
  <2>1. d <= (MaxRuns + 1) - q /\ q \in 1 .. MaxRuns + 1
    BY <1>2, <1>3
  <2> HIDE DEF D
  <2> QED BY <1>1, <1>4, <2>1
<1> HIDE DEF m
<1> QED
  BY <1>4, <1>5 DEF Max

\* relocate() leaves the program where it is or moves it to memory that is not hidden.
LEMMA RelocatedPlace ==
  ASSUME NEW t \in Places
  PROVE  Relocated(t) \in Places /\ (Relocated(t) = t \/ Relocated(t) \notin Hidden)
<1> DEFINE above == {p \in Places \ Hidden : p > t}
<1>1. above # {} => Max(above) \in above
  BY MaxPlace
<1>2. Relocated(t) = IF above = {} THEN t ELSE Max(above)
  BY DEF Relocated
<1> QED
  BY <1>1, <1>2

\* The two invariants of the vectors, of the next state.
LEMMA VecInvPrimed ==
  ASSUME others' = others, VecInv(vec', others), Anchored(vec')
  PROVE  VecInv(vec, others)' /\ Anchored(vec)'
<1>1. VecInv(vec', others')
  OBVIOUS
<1>2. VecInv(vec, others)'
  BY <1>1, Zenon DEF VecInv, Stacked, IsStack, Counted, Hooks
<1> QED
  BY <1>2, Zenon DEF Anchored

\* unhide_etherboot unhooks INT 15 only if nothing else of the copy is hooked.
LEMMA ShutdownVectorsInv ==
  ASSUME NEW v, NEW o, VecInv(v, o), Anchored(v), NEW i \in Copies
  PROVE  /\ VecInv(ShutdownVectors(v, i), o) /\ Anchored(ShutdownVectors(v, i))
         /\ \A j \in Copies, m \in Ints : j # i \/ m \notin {"15", "16"} =>
               ShutdownVectors(v, i).chain[j][m] = v.chain[j][m]
         /\ \A j \in Copies, m \in Ints : ShutdownVectors(v, i).chain[j][m] # Null =>
               v.chain[j][m] # Null
<1> DEFINE u == unhook_bios_interrupt(v, i, "16")
           w == unhide_etherboot(u, i)
<1>1. VecInv(u, o) /\ Unhooking(v, u, i, "16")
  BY IntsFacts, UnhookInv
<1>2. ShutdownVectors(v, i) = w
  BY DEF ShutdownVectors
<1> HIDE DEF u
<1>3. /\ \A j \in Copies, m \in Ints : j # i \/ m # "16" => u.chain[j][m] = v.chain[j][m]
      /\ \A j \in Copies, m \in Ints : u.chain[j][m] # Null => v.chain[j][m] # Null
  BY <1>1 DEF Unhooking
<1>4. Anchored(u)
  BY <1>3, IntsFacts DEF Anchored
<1>5. CASE w = u
  <2>1. ShutdownVectors(v, i) = u
    BY <1>2, <1>5
  <2> HIDE DEF w
  <2> QED BY <1>1, <1>3, <1>4, <2>1, SMTT(30)
<1>6. CASE w # u
  <2>1. ~(u.hooked[i] > 1) /\ w = unhook_bios_interrupt(u, i, "15")
    BY <1>6 DEF unhide_etherboot
  <2>2. VecInv(w, o) /\ Unhooking(u, w, i, "15")
    BY <1>1, <2>1, IntsFacts, UnhookInv
  <2> HIDE DEF w
  <2>3. /\ \A j \in Copies, m \in Ints : j # i \/ m # "15" => w.chain[j][m] = u.chain[j][m]
        /\ \A j \in Copies, m \in Ints : w.chain[j][m] # Null => u.chain[j][m] # Null
    BY <2>2 DEF Unhooking
  <2>4. ASSUME NEW m \in Ints, m # "15", u.chain[i][m] # Null PROVE FALSE
    <3>1. u.chain[i]["15"] # Null
      BY <1>4, <2>4 DEF Anchored
    <3>2. {"15", m} \in SUBSET Hooks(u, i)
      BY <2>4, <3>1, IntsFacts DEF Hooks
    <3>3. Cardinality({"15"} \cup {m}) = 2
      <4>1. IsFiniteSet({"15"}) /\ Cardinality({"15"}) = 1
        BY FS_Singleton
      <4>2. Cardinality({"15"} \cup {m}) = Cardinality({"15"}) + 1
        BY <2>4, <4>1, FS_AddElement
      <4> QED BY <4>1, <4>2
    <3>4. {"15"} \cup {m} = {"15", m}
      OBVIOUS
    <3>5. Cardinality({"15", m}) <= Cardinality(Hooks(u, i))
      BY <3>2, HooksFinite, FS_Subset
    <3>6. u.hooked[i] = Cardinality(Hooks(u, i)) /\ Cardinality(Hooks(u, i)) \in Nat
      BY <1>1, HooksFinite DEF VecInv, Counted
    <3> QED BY <2>1, <3>3, <3>4, <3>5, <3>6
  <2>5. Anchored(w)
    <3> SUFFICES ASSUME NEW j \in Copies, NEW m \in Ints, w.chain[j][m] # Null
                 PROVE  w.chain[j]["15"] # Null
      BY DEF Anchored
    <3>1. u.chain[j][m] # Null
      BY <2>3
    <3>2. u.chain[j]["15"] # Null
      BY <1>4, <3>1 DEF Anchored
    <3>3. CASE j # i
      BY <2>3, <3>2, <3>3, IntsFacts
    <3>4. CASE j = i
      BY <2>4, <3>1, <3>4
    <3> QED BY <3>3, <3>4
  <2>6. /\ \A j \in Copies, m \in Ints : j # i \/ m \notin {"15", "16"} =>
               w.chain[j][m] = v.chain[j][m]
        /\ \A j \in Copies, m \in Ints : w.chain[j][m] # Null => v.chain[j][m] # Null
    BY <1>3, <2>3, SMTT(30)
  <2> QED BY <1>2, <2>2, <2>5, <2>6
<1> QED
  BY <1>5, <1>6
=============================================================================
