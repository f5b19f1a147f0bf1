-------------------------- MODULE SdcdbBreakProofs --------------------------
(***************************************************************************)
(* The debugger's and the simulator's tables agree where the debugger      *)
(* relies on it, for every program, call stack and sequence of commands.   *)
(***************************************************************************)
EXTENDS SdcdbBreak, TLAPS, FiniteSetTheorems, WellFoundedInduction

-----------------------------------------------------------------------------
(* Induction up to N for a property given as the set of what has it.       *)

LEMMA Least ==
  ASSUME NEW T, T \subseteq Nat, T # {}
  PROVE  \E m \in T : \A k \in T : m <= k
<1> DEFINE R == OpToRel(<, Nat)
<1>1. IsWellFoundedOn(R, Nat)
  BY NatLessThanWellFounded
<1>2. \A a, b \in Nat : a < b => <<a, b>> \in R
  BY DEF OpToRel
<1> HIDE DEF R
<1>3. PICK m \in T : \A k \in T : ~(<<k, m>> \in R)
  BY <1>1, WFMin
<1>4. \A k \in T : ~(k < m)
  BY <1>2, <1>3
<1>5. \A k \in T : m <= k
  BY <1>4
<1> QED
  BY <1>5

LEMMA UpTo ==
  ASSUME NEW N \in Nat, NEW T, 0 \in T,
         ASSUME NEW n \in 0 .. N - 1, n \in T PROVE n + 1 \in T
  PROVE  0 .. N \subseteq T
<1> DEFINE Not == {n \in 0 .. N : n \notin T}
<1> SUFFICES ASSUME Not # {} PROVE FALSE
  OBVIOUS
<1>1. PICK m \in Not : \A k \in Not : m <= k
  <2>1. Not \subseteq Nat
    OBVIOUS
  <2> HIDE DEF Not
  <2> QED
    BY <2>1, Least
<1>2. m \in 0 .. N /\ m \notin T /\ m # 0
  BY <1>1
<1>3. m - 1 \in 0 .. N - 1 /\ m - 1 \in T
  BY <1>1, <1>2
<1>4. (m - 1) + 1 \in T
  BY <1>3
<1> QED
  BY <1>2, <1>4

-----------------------------------------------------------------------------
(* Counting in a char.                                                     *)

LEMMA ModDef ==
  ASSUME NEW m \in Nat \ {0}, NEW a \in Int
  PROVE  a % m \in 0 .. m - 1 /\ \E q \in Int : a = m * q + (a % m)
<1>1. a = m * (a \div m) + (a % m) /\ a \div m \in Int
  OBVIOUS
<1>2. a % m \in 0 .. m - 1
  OBVIOUS
<1>3. \E q \in Int : a = m * q + (a % m)
  BY <1>1, Zenon
<1> QED
  BY <1>2, <1>3

LEMMA ModUnique ==
  ASSUME NEW m \in Nat \ {0}, NEW q \in Int, NEW p \in Int, NEW r \in 0 .. m - 1, NEW s \in 0 .. m - 1,
         m * q + r = m * p + s
  PROVE  r = s
<1>1. m * (q - p) = s - r
  OBVIOUS
<1>2. CASE q - p >= 1
  <2>1. m * (q - p) >= m
    BY <1>2
  <2> QED
    BY <1>1, <2>1
<1>3. CASE q - p <= -1
  <2>1. m * (q - p) <= -m
    BY <1>3
  <2> QED
    BY <1>1, <2>1
<1> QED
  BY <1>2, <1>3

LEMMA ModAdded ==
  ASSUME NEW m \in Nat \ {0}, NEW a \in Int, NEW b \in Int
  PROVE  ((a % m) + b) % m = (a + b) % m
<1>1. PICK r \in 0 .. m - 1, q \in Int : r = a % m /\ a = m * q + r
  BY ModDef, Zenon
<1>2. r + b \in Int /\ a + b \in Int
  BY <1>1
<1>3. PICK s \in 0 .. m - 1, p \in Int : s = (r + b) % m /\ r + b = m * p + s
  BY <1>2, ModDef, Zenon
<1>4. PICK t \in 0 .. m - 1, k \in Int : t = (a + b) % m /\ a + b = m * k + t
  BY <1>2, ModDef, Zenon
<1>5. m * k + t = m * (q + p) + s
  <2>1. a + b = m * q + (m * p + s)
    BY <1>1, <1>3
  <2> QED
    BY <1>4, <2>1
<1>6. q + p \in Int
  OBVIOUS
<1>7. t = s
  BY <1>5, <1>6, ModUnique
<1> QED
  BY <1>1, <1>3, <1>4, <1>7

LEMMA ModTaken ==
  ASSUME NEW m \in Nat \ {0}, NEW a \in Int, NEW b \in Int
  PROVE  ((a % m) - b) % m = (a - b) % m
<1>1. -b \in Int /\ a % m \in Int
  BY ModDef
<1>2. ((a % m) + -b) % m = (a + -b) % m
  BY <1>1, ModAdded
<1>3. (a % m) + -b = (a % m) - b /\ a + -b = a - b
  BY <1>1
<1> QED
  BY <1>2, <1>3, Zenon

-----------------------------------------------------------------------------
(* Chains.                                                                 *)

LEMMA RangeOfAppend ==
  ASSUME NEW S, NEW s \in Seq(S), NEW e
  PROVE  Range(Append(s, e)) = Range(s) \cup {e}
<1>1. \A i \in 1 .. Len(s) : Append(s, e)[i] = s[i]
  OBVIOUS
<1>2. Append(s, e)[Len(s) + 1] = e /\ DOMAIN Append(s, e) = 1 .. Len(s) + 1
  OBVIOUS
<1>3. DOMAIN s = 1 .. Len(s) /\ Len(s) \in Nat
  OBVIOUS
<1> QED
  BY <1>1, <1>2, <1>3 DEF Range

LEMMA RangeOfCat ==
  ASSUME NEW S, NEW s \in Seq(S), NEW t \in Seq(S)
  PROVE  s \o t \in Seq(S) /\ Range(s \o t) = Range(s) \cup Range(t)
<1>1. /\ DOMAIN s = 1 .. Len(s) /\ DOMAIN t = 1 .. Len(t)
      /\ DOMAIN (s \o t) = 1 .. Len(s) + Len(t)
      /\ Len(s) \in Nat /\ Len(t) \in Nat
  OBVIOUS
<1>2. /\ \A i \in 1 .. Len(s) : (s \o t)[i] = s[i]
      /\ \A i \in Len(s) + 1 .. Len(s) + Len(t) : (s \o t)[i] = t[i - Len(s)]
  OBVIOUS
<1>3. \A i \in 1 .. Len(t) : (s \o t)[Len(s) + i] = t[i]
  BY <1>1, <1>2
<1>4. Range(s) \cup Range(t) \subseteq Range(s \o t)
  <2>1. \A i \in 1 .. Len(t) : Len(s) + i \in DOMAIN (s \o t)
    BY <1>1
  <2>2. \A i \in 1 .. Len(s) : i \in DOMAIN (s \o t)
    BY <1>1
  <2>3. \A i \in 1 .. Len(s) : s[i] \in Range(s \o t)
    BY <1>2, <2>2 DEF Range
  <2>4. \A i \in 1 .. Len(t) : t[i] \in Range(s \o t)
    <3>1. \A j \in DOMAIN (s \o t) : (s \o t)[j] \in Range(s \o t)
      BY DEF Range
    <3> HIDE DEF Range
    <3> QED
      BY <1>3, <2>1, <3>1
  <2> QED
    BY <1>1, <2>3, <2>4 DEF Range
<1>5. Range(s \o t) \subseteq Range(s) \cup Range(t)
  <2> SUFFICES ASSUME NEW i \in DOMAIN (s \o t)
               PROVE  (s \o t)[i] \in Range(s) \cup Range(t)
    BY DEF Range
  <2>1. CASE i \in 1 .. Len(s)
    BY <1>1, <1>2, <2>1 DEF Range
  <2>2. CASE i \in Len(s) + 1 .. Len(s) + Len(t)
    <3>1. i - Len(s) \in DOMAIN t
      BY <1>1, <2>2
    <3> QED
      BY <1>2, <2>2, <3>1 DEF Range
  <2> QED
    BY <1>1, <2>1, <2>2
<1> QED
  BY <1>4, <1>5

\* The steps of the walk that takes gone off a chain.
Walk(s, gone, f, m) ==
  f = [n \in 0 .. m |->
         IF n = 0 THEN << >>
         ELSE IF s[n] \in gone THEN f[n - 1] ELSE Append(f[n - 1], s[n])]

LEMMA WalkExists ==
  ASSUME NEW S, NEW s \in Seq(S), NEW gone
  PROVE  \E f : Walk(s, gone, f, Len(s))
<1> DEFINE T == {m \in Nat : \E f : Walk(s, gone, f, m)}
<1>1. 0 \in T
  <2> DEFINE g == [n \in 0 .. 0 |-> << >>]
  <2>1. Walk(s, gone, g, 0)
    BY DEF Walk
  <2> QED
    BY <2>1
<1>2. ASSUME NEW m \in 0 .. Len(s) - 1, m \in T PROVE m + 1 \in T
  <2>1. PICK f : Walk(s, gone, f, m)
    BY <1>2
  <2> DEFINE last == IF s[m + 1] \in gone THEN f[m] ELSE Append(f[m], s[m + 1])
             g == [n \in 0 .. m + 1 |-> IF n = m + 1 THEN last ELSE f[n]]
             h == [n \in 0 .. m + 1 |->
                     IF n = 0 THEN << >>
                     ELSE IF s[n] \in gone THEN g[n - 1] ELSE Append(g[n - 1], s[n])]
  <2>2. \A n \in 0 .. m + 1 : g[n] = h[n]
    <3> SUFFICES ASSUME NEW n \in 0 .. m + 1 PROVE g[n] = h[n]
      OBVIOUS
    <3>1. CASE n = m + 1
      BY <3>1
    <3>2. CASE n # m + 1
      <4>1. n \in 0 .. m /\ g[n] = f[n]
        BY <3>2
      <4>2. n # 0 => g[n - 1] = f[n - 1]
        BY <4>1
      <4>3. f[n] = IF n = 0 THEN << >>
                   ELSE IF s[n] \in gone THEN f[n - 1] ELSE Append(f[n - 1], s[n])
        BY <2>1, <4>1 DEF Walk
      <4> QED
        BY <4>1, <4>2, <4>3
    <3> QED
      BY <3>1, <3>2
  <2>3. g = h
    BY <2>2
  <2>4. Walk(s, gone, g, m + 1)
    BY <2>3 DEF Walk
  <2> QED
    BY <2>4
<1> HIDE DEF T
<1>3. Len(s) \in Nat
  OBVIOUS
<1>4. 0 .. Len(s) \subseteq T
  BY <1>1, <1>2, <1>3, UpTo
<1> QED
  BY <1>3, <1>4 DEF T

LEMMA WithoutWalks ==
  ASSUME NEW S, NEW s \in Seq(S), NEW gone
  PROVE  \E f : Walk(s, gone, f, Len(s)) /\ Without(s, gone) = f[Len(s)]
<1> DEFINE L == CHOOSE f : Walk(s, gone, f, Len(s))
<1>1. Walk(s, gone, L, Len(s))
  BY WalkExists
<1>2. Without(s, gone) = L[Len(s)]
  BY DEF Without, Walk
<1> QED
  BY <1>1, <1>2

LEMMA WithoutRange ==
  ASSUME NEW S, NEW s \in Seq(S), NEW gone
  PROVE  Without(s, gone) \in Seq(S) /\ Range(Without(s, gone)) = Range(s) \ gone
<1>1. PICK f : Walk(s, gone, f, Len(s)) /\ Without(s, gone) = f[Len(s)]
  BY WithoutWalks
<1> DEFINE Passed(m) == {s[i] : i \in 1 .. m}
           T == {m \in 0 .. Len(s) : f[m] \in Seq(S) /\ Range(f[m]) = Passed(m) \ gone}
<1>0. Len(s) \in Nat /\ DOMAIN s = 1 .. Len(s)
  OBVIOUS
<1>2. 0 \in T
  <2>1. f[0] = << >>
    BY <1>1, <1>0 DEF Walk
  <2>2. Range(<< >>) = {} /\ Passed(0) = {}
    BY DEF Range
  <2>3. f[0] \in Seq(S) /\ Range(f[0]) = Passed(0) \ gone
    BY <2>1, <2>2
  <2>4. 0 \in 0 .. Len(s)
    BY <1>0
  <2> QED
    BY <2>3, <2>4
<1>3. ASSUME NEW m \in 0 .. Len(s) - 1, m \in T PROVE m + 1 \in T
  <2>1. f[m + 1] = IF s[m + 1] \in gone THEN f[m] ELSE Append(f[m], s[m + 1])
    <3>1. m + 1 \in 0 .. Len(s) /\ m + 1 # 0 /\ (m + 1) - 1 = m
      BY <1>0
    <3>2. f[m + 1] = IF m + 1 = 0 THEN << >>
                     ELSE IF s[m + 1] \in gone THEN f[(m + 1) - 1]
                          ELSE Append(f[(m + 1) - 1], s[m + 1])
      BY <1>1, <3>1 DEF Walk
    <3> QED
      BY <3>1, <3>2
  <2>2. s[m + 1] \in S /\ Passed(m + 1) = Passed(m) \cup {s[m + 1]}
    OBVIOUS
  <2>3. f[m] \in Seq(S) /\ Range(f[m]) = Passed(m) \ gone
    BY <1>3
  <2>4. Range(Append(f[m], s[m + 1])) = Range(f[m]) \cup {s[m + 1]}
    BY <2>3, RangeOfAppend
  <2> HIDE DEF Passed
  <2>5. f[m + 1] \in Seq(S)
    BY <2>1, <2>2, <2>3
  <2>6. Range(f[m + 1]) = Passed(m + 1) \ gone
    BY <2>1, <2>2, <2>3, <2>4
  <2> QED
    BY <2>5, <2>6
<1> HIDE DEF T
<1>4. 0 .. Len(s) \subseteq T
  BY <1>0, <1>2, <1>3, UpTo
<1>5. Len(s) \in T
  BY <1>0, <1>4
<1>6. f[Len(s)] \in Seq(S) /\ Range(f[Len(s)]) = Passed(Len(s)) \ gone
  BY <1>5 DEF T
<1>7. Passed(Len(s)) = Range(s)
  BY <1>0 DEF Range
<1> QED
  BY <1>1, <1>6, <1>7

-----------------------------------------------------------------------------
(* The inductive invariant of the table.                                   *)

\* Only the user's entries have a number, and none that is still to come.
Paired ==
  \A a \in Addrs : \A e \in Range(bptable[a]) :
    e.num <= bpnum /\ (IsUser(e) <=> e.num # 0)

\* No number is given twice.
OneEach ==
  \A a, b \in Addrs : \A d \in Users(a), e \in Users(b) :
    d.num = e.num => a = b /\ d = e

\* The char holds what it can of the count.
Counted == userBpPresent = Cardinality(UserNumbers) % Char

TableInv ==
  /\ bptable \in [Addrs -> Seq(EntryType)]
  /\ bpnum \in 0 .. MaxBp /\ sim \subseteq Addrs
  /\ Paired /\ OneEach /\ Counted /\ FunctionPointsArmed

\* What an entry more or less does to the char, n being the count before it.
LEMMA CharAdds ==
  ASSUME NEW n \in Nat, NEW p, p = n % Char
  PROVE  (p + 1) % Char = (n + 1) % Char
<1>1. Char \in Nat \ {0} /\ n \in Int /\ 1 \in Int
  BY BreakAssumption
<1>2. ((n % Char) + 1) % Char = (n + 1) % Char
  BY <1>1, ModAdded, Zenon
<1> QED
  BY <1>2, Zenon

LEMMA WithoutPart ==
  ASSUME NEW S, NEW T, IsFiniteSet(S), T \subseteq S
  PROVE  Cardinality(S \ T) = Cardinality(S) - Cardinality(T)
<1>1. S \cap T = T
  OBVIOUS
<1> QED
  BY <1>1, FS_Difference

LEMMA CharTakes ==
  ASSUME NEW n \in Nat, NEW k \in Nat, NEW p, p = n % Char
  PROVE  (p - k) % Char = (n - k) % Char
<1>1. Char \in Nat \ {0} /\ n \in Int /\ k \in Int
  BY BreakAssumption
<1>2. ((n % Char) - k) % Char = (n - k) % Char
  BY <1>1, ModTaken, Zenon
<1> QED
  BY <1>2, Zenon

LEMMA PlacesAreAddrs ==
  ASSUME NEW f \in Functions
  PROVE  Entry[f] \in Addrs /\ Exit[f] \in Addrs
BY BreakAssumption DEF Addrs

LEMMA EntriesTyped ==
  ASSUME TableInv, NEW a \in Addrs
  PROVE  bptable[a] \in Seq(EntryType) /\ Range(bptable[a]) \subseteq EntryType
<1>1. bptable[a] \in Seq(EntryType)
  BY DEF TableInv
<1>2. \A i \in DOMAIN bptable[a] : bptable[a][i] \in EntryType
  BY <1>1
<1> QED
  BY <1>1, <1>2 DEF Range

LEMMA NumbersFinite ==
  ASSUME TableInv
  PROVE  /\ UserNumbers \subseteq 1 .. bpnum /\ IsFiniteSet(UserNumbers)
         /\ Cardinality(UserNumbers) \in Nat
<1>1. ASSUME NEW a \in Addrs, NEW e \in Users(a) PROVE e.num \in 1 .. bpnum
  <2>1. e \in Range(bptable[a]) /\ IsUser(e)
    BY DEF Users
  <2>2. e.num \in 0 .. MaxBp
    BY <2>1, EntriesTyped DEF EntryType
  <2>3. e.num # 0 /\ e.num <= bpnum
    BY <2>1 DEF TableInv, Paired
  <2> QED
    BY <2>2, <2>3, BreakAssumption DEF TableInv
<1>2. UserNumbers \subseteq 1 .. bpnum
  BY <1>1 DEF UserNumbers
<1>3. IsFiniteSet(1 .. bpnum)
  BY FS_Interval DEF TableInv
<1>4. IsFiniteSet(UserNumbers)
  BY <1>2, <1>3, FS_Subset
<1> QED
  BY <1>2, <1>4, FS_CardinalityType

\* A step that only takes entries off, none of them a function's, and tells the
\* simulator only of addresses where none is left.
LEMMA Shrinks ==
  ASSUME TableInv, UNCHANGED bpnum,
         bptable' \in [Addrs -> Seq(EntryType)],
         \A a \in Addrs : Range(bptable'[a]) \subseteq Range(bptable[a]),
         \A a \in Addrs : \A e \in Range(bptable[a]) :
           e.type \in {"FENTRY", "FEXIT"} => e \in Range(bptable'[a]),
         sim' \subseteq sim,
         \A a \in sim \ sim' : Range(bptable'[a]) = {}
  PROVE  Paired' /\ OneEach' /\ FunctionPointsArmed'
<1>1. Paired'
  BY DEF TableInv, Paired, IsUser
<1>2. \A a \in Addrs : Users(a)' \subseteq Users(a)
  BY DEF Users, IsUser
<1>3. OneEach'
  BY <1>2 DEF TableInv, OneEach
<1>4. ASSUME NEW f \in Functions
      PROVE  /\ Entry[f] \in sim' /\ Exit[f] \in sim'
             /\ Plain("FENTRY", "fentryCB") \in Range(bptable'[Entry[f]])
             /\ Plain("FEXIT", "fexitCB") \in Range(bptable'[Exit[f]])
  <2>1. /\ Entry[f] \in sim /\ Exit[f] \in sim
        /\ Plain("FENTRY", "fentryCB") \in Range(bptable[Entry[f]])
        /\ Plain("FEXIT", "fexitCB") \in Range(bptable[Exit[f]])
    BY DEF TableInv, FunctionPointsArmed
  <2>2. /\ Plain("FENTRY", "fentryCB").type = "FENTRY"
        /\ Plain("FEXIT", "fexitCB").type = "FEXIT"
    BY DEF Plain
  <2>3. /\ Plain("FENTRY", "fentryCB") \in Range(bptable'[Entry[f]])
        /\ Plain("FEXIT", "fexitCB") \in Range(bptable'[Exit[f]])
    BY <2>1, <2>2, PlacesAreAddrs
  <2> QED
    BY <2>1, <2>3
<1>5. FunctionPointsArmed'
  BY <1>4 DEF FunctionPointsArmed
<1> QED
  BY <1>1, <1>3, <1>5

-----------------------------------------------------------------------------
(* The user's commands.                                                    *)

LEMMA SetInv ==
  ASSUME TableInv, NEW a \in Addrs, NEW type \in UserTypes, setBreakPoint(a, type)
  PROVE  TableInv'
<1> DEFINE new == User(type, bpnum + 1)
<1>1. /\ bpnum < MaxBp /\ bpnum' = bpnum + 1 /\ userBpPresent' = (userBpPresent + 1) % Char
      /\ bptable' = [bptable EXCEPT ![a] = Append(@, new)]
      /\ sim' = IF bptable[a] = << >> THEN sim \cup {a} ELSE sim
  BY DEF setBreakPoint
<1>2. bpnum \in 0 .. MaxBp /\ MaxBp \in Nat /\ bpnum' \in 0 .. MaxBp
  BY <1>1, BreakAssumption DEF TableInv
<1>3. new \in EntryType /\ new.num = bpnum + 1 /\ IsUser(new)
  BY <1>1, <1>2 DEF User, IsUser, EntryType, UserTypes, Types, CallBacks
<1> HIDE DEF new
<1>4. bptable' \in [Addrs -> Seq(EntryType)]
  <2>1. Append(bptable[a], new) \in Seq(EntryType)
    BY <1>3, EntriesTyped
  <2> QED
    BY <1>1, <2>1 DEF TableInv
<1>5. /\ Range(bptable'[a]) = Range(bptable[a]) \cup {new}
      /\ \A b \in Addrs : b # a => bptable'[b] = bptable[b]
  <2>1. bptable'[a] = Append(bptable[a], new)
    BY <1>1 DEF TableInv
  <2>2. Range(Append(bptable[a], new)) = Range(bptable[a]) \cup {new}
    BY EntriesTyped, RangeOfAppend
  <2> QED
    BY <1>1, <2>1, <2>2 DEF TableInv
<1>6. Paired'
  <2> SUFFICES ASSUME NEW b \in Addrs, NEW e \in Range(bptable'[b])
               PROVE  e.num <= bpnum' /\ (IsUser(e) <=> e.num # 0)
    BY DEF Paired, IsUser
  <2>1. CASE e \in Range(bptable[b])
    <3>1. e.num <= bpnum /\ (IsUser(e) <=> e.num # 0)
      BY <2>1 DEF TableInv, Paired
    <3>2. e.num \in Nat
      BY <2>1, EntriesTyped, <1>2 DEF EntryType
    <3> QED
      BY <3>1, <3>2, <1>1, <1>2
  <2>2. CASE e = new
    BY <2>2, <1>1, <1>2, <1>3
  <2> QED
    BY <1>5, <2>1, <2>2
<1>7. \A b \in Addrs : Users(b)' = IF b = a THEN Users(b) \cup {new} ELSE Users(b)
  BY <1>3, <1>5 DEF Users, IsUser
<1>8. \A b \in Addrs : \A e \in Users(b) : e.num # new.num
  <2>1. \A b \in Addrs : \A e \in Users(b) : e.num \in UserNumbers
    BY DEF UserNumbers
  <2>2. \A n \in UserNumbers : n # bpnum + 1
    BY <1>2, NumbersFinite
  <2> QED
    BY <1>3, <2>1, <2>2
<1>9. OneEach'
  BY <1>7, <1>8 DEF TableInv, OneEach
<1>10. UserNumbers' = UserNumbers \cup {bpnum + 1}
  BY <1>3, <1>7 DEF UserNumbers
<1>11. Counted'
  <2>1. bpnum + 1 \notin UserNumbers
    BY <1>2, NumbersFinite
  <2>2. Cardinality(UserNumbers \cup {bpnum + 1}) = Cardinality(UserNumbers) + 1
    BY <2>1, NumbersFinite, FS_AddElement
  <2>3. (userBpPresent + 1) % Char = (Cardinality(UserNumbers) + 1) % Char
    BY NumbersFinite, CharAdds, Zenon DEF TableInv, Counted
  <2> QED
    BY <1>1, <1>10, <2>2, <2>3 DEF Counted
<1>12. sim \subseteq sim' /\ sim' \subseteq Addrs
  BY <1>1 DEF TableInv
<1>13. \A b \in Addrs : Range(bptable[b]) \subseteq Range(bptable'[b])
  BY <1>5
<1>14. FunctionPointsArmed'
  BY <1>12, <1>13, PlacesAreAddrs DEF TableInv, FunctionPointsArmed
<1> QED
  BY <1>2, <1>4, <1>6, <1>9, <1>11, <1>12, <1>14 DEF TableInv

LEMMA DeleteInv ==
  ASSUME TableInv, UNCHANGED bpnum, NEW gone, gone \subseteq UserNumbers, DeleteUser(gone)
  PROVE  TableInv'
<1> DEFINE off == {e \in EntryType : e.num \in gone}
           chains == [a \in Addrs |-> Without(bptable[a], off)]
<1>1. /\ bptable' = chains
      /\ sim' = sim \ Unused(chains, Addrs)
      /\ userBpPresent' = (userBpPresent - Cardinality(gone)) % Char
  BY DEF DeleteUser, Removed
<1>2. \A a \in Addrs : /\ chains[a] \in Seq(EntryType)
                       /\ Range(chains[a]) = Range(bptable[a]) \ off
  BY EntriesTyped, WithoutRange
<1>3. \A a \in sim \ sim' : chains[a] = << >>
  BY <1>1 DEF Unused
<1> HIDE DEF chains
<1>4. bptable' \in [Addrs -> Seq(EntryType)]
  BY <1>1, <1>2 DEF chains
<1>5. \A a \in Addrs : \A e \in Range(bptable[a]) :
        e.num \in gone => IsUser(e)
  <2>1. \A n \in gone : n # 0
    BY NumbersFinite
  <2> QED
    BY <2>1 DEF TableInv, Paired
<1>6. \A a \in Addrs : Range(bptable'[a]) \subseteq Range(bptable[a])
  BY <1>1, <1>2
<1>7. \A a \in Addrs : \A e \in Range(bptable[a]) :
        e.type \in {"FENTRY", "FEXIT"} => e \in Range(bptable'[a])
  BY <1>1, <1>2, <1>5 DEF IsUser, UserTypes
<1>8. sim' \subseteq sim
  BY <1>1
<1>9. \A a \in sim \ sim' : Range(bptable'[a]) = {}
  BY <1>1, <1>3 DEF Range
<1>10. Paired' /\ OneEach' /\ FunctionPointsArmed'
  BY <1>4, <1>6, <1>7, <1>8, <1>9, Shrinks
<1>11. \A a \in Addrs : Users(a)' = {e \in Users(a) : e.num \notin gone}
  <2> SUFFICES ASSUME NEW a \in Addrs
               PROVE  Users(a)' = {e \in Users(a) : e.num \notin gone}
    OBVIOUS
  <2>1. Range(bptable'[a]) = Range(bptable[a]) \ off
    BY <1>1, <1>2
  <2>2. Range(bptable[a]) \subseteq EntryType
    BY EntriesTyped
  <2> QED
    BY <2>1, <2>2 DEF Users, IsUser
<1>12. UserNumbers' = UserNumbers \ gone
  BY <1>11 DEF UserNumbers
<1>13. Counted'
  <2>1. UserNumbers \cap gone = gone
    OBVIOUS
  <2>2. Cardinality(UserNumbers \ gone) = Cardinality(UserNumbers) - Cardinality(gone)
    BY <2>1, NumbersFinite, FS_Difference
  <2>3. Cardinality(gone) \in Nat
    BY NumbersFinite, FS_Subset, FS_CardinalityType
  <2>4. (userBpPresent - Cardinality(gone)) % Char
          = (Cardinality(UserNumbers) - Cardinality(gone)) % Char
    BY <2>3, NumbersFinite, CharTakes, Zenon DEF TableInv, Counted
  <2> QED
    BY <1>1, <1>12, <2>2, <2>4 DEF Counted
<1> QED
  BY <1>4, <1>8, <1>10, <1>13 DEF TableInv

LEMMA UsersDeleteInv ==
  ASSUME TableInv, deleteUSERbp \/ (\E a \in Addrs : clearUSERbp(a))
  PROVE  TableInv'
<1>1. CASE deleteUSERbp
  <2>1. PICK gone \in {{n} : n \in UserNumbers} \cup {UserNumbers} : DeleteUser(gone)
    BY <1>1 DEF deleteUSERbp
  <2> QED
    BY <1>1, <2>1, DeleteInv DEF deleteUSERbp
<1>2. ASSUME NEW a \in Addrs, clearUSERbp(a) PROVE TableInv'
  <2>1. PICK i \in DOMAIN bptable[a] :
          IsUser(bptable[a][i]) /\ DeleteUser({bptable[a][i].num})
    BY <1>2 DEF clearUSERbp
  <2>2. bptable[a][i] \in Users(a)
    BY <2>1 DEF Users, Range
  <2>3. {bptable[a][i].num} \subseteq UserNumbers
    BY <2>2 DEF UserNumbers
  <2> QED
    BY <1>2, <2>1, <2>3, DeleteInv DEF clearUSERbp
<1> QED
  BY <1>1, <1>2

-----------------------------------------------------------------------------
(* The entries of step, next and finish.                                   *)

StepEntry(e) == e.type \in {"STEP", "NEXT"} /\ e.num = 0 /\ e \in EntryType

LEMMA PlainIsStep ==
  ASSUME NEW type \in {"STEP", "NEXT"}, NEW cb \in StepCBs
  PROVE  StepEntry(Plain(type, cb))
BY BreakAssumption DEF StepEntry, Plain, EntryType, Types, CallBacks

LEMMA WithStepAdds ==
  ASSUME NEW chains \in [Addrs -> Seq(EntryType)], NEW as, NEW e, StepEntry(e)
  PROVE  /\ WithStep(chains, as, e) \in [Addrs -> Seq(EntryType)]
         /\ \A a \in Addrs : Range(chains[a]) \subseteq Range(WithStep(chains, as, e)[a])
         /\ \A a \in Addrs : \A d \in Range(WithStep(chains, as, e)[a]) :
              d \in Range(chains[a]) \/ StepEntry(d)
<1>1. ASSUME NEW a \in Addrs
      PROVE  /\ Append(chains[a], e) \in Seq(EntryType)
             /\ Range(Append(chains[a], e)) = Range(chains[a]) \cup {e}
  BY RangeOfAppend DEF StepEntry
<1>2. ASSUME NEW a \in Addrs
      PROVE  WithStep(chains, as, e)[a] \in {chains[a], Append(chains[a], e)}
  BY DEF WithStep
<1>3. WithStep(chains, as, e) = [a \in Addrs |-> WithStep(chains, as, e)[a]]
  BY DEF WithStep
<1> HIDE DEF WithStep
<1>4. \A a \in Addrs : WithStep(chains, as, e)[a] \in Seq(EntryType)
  BY <1>1, <1>2
<1>5. WithStep(chains, as, e) \in [Addrs -> Seq(EntryType)]
  BY <1>3, <1>4
<1>6. ASSUME NEW a \in Addrs
      PROVE  /\ Range(chains[a]) \subseteq Range(WithStep(chains, as, e)[a])
             /\ Range(WithStep(chains, as, e)[a]) \subseteq Range(chains[a]) \cup {e}
  <2>1. CASE WithStep(chains, as, e)[a] = chains[a]
    BY <2>1
  <2>2. CASE WithStep(chains, as, e)[a] = Append(chains[a], e)
    BY <1>1, <2>2
  <2> QED
    BY <1>2, <2>1, <2>2
<1> QED
  BY <1>5, <1>6

LEMMA StepsInv ==
  ASSUME TableInv, UNCHANGED <<userBpPresent, bpnum, sim>>,
         bptable' \in [Addrs -> Seq(EntryType)],
         \A a \in Addrs : Range(bptable[a]) \subseteq Range(bptable'[a]),
         \A a \in Addrs : \A e \in Range(bptable'[a]) : e \in Range(bptable[a]) \/ StepEntry(e)
  PROVE  TableInv'
<1>1. \A e : StepEntry(e) => e.num = 0 /\ ~IsUser(e)
  BY DEF StepEntry, IsUser, UserTypes
<1>2. Paired'
  <2> SUFFICES ASSUME NEW a \in Addrs, NEW e \in Range(bptable'[a])
               PROVE  e.num <= bpnum /\ (IsUser(e) <=> e.num # 0)
    BY DEF Paired, IsUser
  <2>1. CASE e \in Range(bptable[a])
    BY <2>1 DEF TableInv, Paired
  <2>2. CASE StepEntry(e)
    BY <2>2, <1>1, BreakAssumption DEF TableInv
  <2> QED
    BY <2>1, <2>2
<1>3. \A a \in Addrs : Users(a)' = Users(a)
  BY <1>1 DEF Users, IsUser
<1>4. OneEach'
  BY <1>3 DEF TableInv, OneEach
<1>5. UserNumbers' = UserNumbers
  BY <1>3 DEF UserNumbers
<1>6. Counted'
  BY <1>5 DEF TableInv, Counted
<1>7. FunctionPointsArmed'
  BY PlacesAreAddrs DEF TableInv, FunctionPointsArmed
<1> QED
  BY <1>2, <1>4, <1>6, <1>7 DEF TableInv

LEMMA ProgramInv ==
  ASSUME TableInv, cmdStep \/ cmdNext \/ cmdFinish
  PROVE  TableInv'
<1>0. bptable \in [Addrs -> Seq(EntryType)]
  BY DEF TableInv
<1>1. ASSUME NEW as, NEW type \in {"STEP", "NEXT"}, NEW cb \in StepCBs,
             bptable' = WithStep(bptable, as, Plain(type, cb)),
             UNCHANGED <<userBpPresent, bpnum, sim>>
      PROVE  TableInv'
  BY <1>0, <1>1, PlainIsStep, WithStepAdds, StepsInv
<1>2. CASE cmdStep
  BY <1>1, <1>2 DEF cmdStep, StepCBs
<1>3. CASE cmdFinish
  BY <1>1, <1>3 DEF cmdFinish, StepCBs
<1>4. CASE cmdNext
  <2>1. CASE AtExit
    BY <1>1, <1>4, <2>1 DEF cmdNext, StepCBs
  <2>2. CASE ~AtExit
    <3>1. PICK as, bs :
            bptable' = WithStep(WithStep(bptable, as, Plain("NEXT", "nextBpCB")),
                                bs, Plain("NEXT", "stepBpCB"))
      BY <1>4, <2>2 DEF cmdNext
    <3>2. /\ StepEntry(Plain("NEXT", "nextBpCB")) /\ StepEntry(Plain("NEXT", "stepBpCB"))
      BY PlainIsStep DEF StepCBs
    <3> DEFINE mid == WithStep(bptable, as, Plain("NEXT", "nextBpCB"))
    <3>3. /\ mid \in [Addrs -> Seq(EntryType)]
          /\ \A a \in Addrs : Range(bptable[a]) \subseteq Range(mid[a])
          /\ \A a \in Addrs : \A d \in Range(mid[a]) : d \in Range(bptable[a]) \/ StepEntry(d)
      BY <1>0, <3>2, WithStepAdds
    <3> HIDE DEF mid
    <3>4. bptable' = WithStep(mid, bs, Plain("NEXT", "stepBpCB"))
      BY <3>1 DEF mid
    <3>5. /\ bptable' \in [Addrs -> Seq(EntryType)]
          /\ \A a \in Addrs : Range(mid[a]) \subseteq Range(bptable'[a])
          /\ \A a \in Addrs : \A d \in Range(bptable'[a]) : d \in Range(mid[a]) \/ StepEntry(d)
      BY <3>2, <3>3, <3>4, WithStepAdds
    <3>6. UNCHANGED <<userBpPresent, bpnum, sim>>
      BY <1>4 DEF cmdNext
    <3> QED
      BY <3>3, <3>5, <3>6, StepsInv
  <2> QED
    BY <2>1, <2>2
<1> QED
  BY <1>2, <1>3, <1>4

LEMMA SameTableInv ==
  ASSUME TableInv, UNCHANGED table
  PROVE  TableInv'
<1>1. \A a \in Addrs : Users(a)' = Users(a)
  BY DEF table, Users, IsUser
<1>2. UserNumbers' = UserNumbers
  BY <1>1 DEF UserNumbers
<1>3. Paired' /\ FunctionPointsArmed'
  BY DEF table, TableInv, Paired, FunctionPointsArmed, IsUser
<1>4. OneEach' /\ Counted'
  BY <1>1, <1>2 DEF table, TableInv, OneEach, Counted
<1> QED
  BY <1>3, <1>4 DEF table, TableInv

-----------------------------------------------------------------------------
(* A stop.                                                                 *)

LEMMA CalledInChain ==
  ASSUME NEW chain \in Seq(EntryType)
  PROVE  Range(Called(chain)) \subseteq Range(chain)
<1> DEFINE steps == {i \in DOMAIN chain : chain[i].callBack \in StepCBs}
<1>1. CASE steps = {}
  BY <1>1 DEF Called
<1>2. CASE steps # {}
  <2>1. steps \subseteq 1 .. Len(chain) /\ Len(chain) \in Nat /\ DOMAIN chain = 1 .. Len(chain)
    OBVIOUS
  <2>2. Called(chain) = SubSeq(chain, 1, Min(steps))
    BY <1>2 DEF Called
  <2> HIDE DEF steps
  <2>3. \E m \in steps : \A k \in steps : m <= k
    <3>1. steps \subseteq Nat
      BY <2>1
    <3> QED
      BY <1>2, <3>1, Least
  <2>4. Min(steps) \in steps
    BY <2>3 DEF Min
  <2>5. Min(steps) \in 1 .. Len(chain)
    BY <2>1, <2>4
  <2>6. /\ DOMAIN SubSeq(chain, 1, Min(steps)) = 1 .. Min(steps)
        /\ \A i \in 1 .. Min(steps) : SubSeq(chain, 1, Min(steps))[i] = chain[i]
    BY <2>5
  <2> QED
    BY <2>1, <2>2, <2>5, <2>6 DEF Range
<1> QED
  BY <1>1, <1>2

LEMMA EmptyChain ==
  ASSUME NEW S, NEW s \in Seq(S), Range(s) = {}
  PROVE  s = << >>
<1>1. \A i \in 1 .. Len(s) : s[i] \in Range(s)
  BY DEF Range
<1>2. Len(s) = 0
  BY <1>1
<1> QED
  BY <1>2

LEMMA NumbersOf ==
  ASSUME TableInv, NEW a \in Addrs, NEW gone, gone \subseteq Users(a)
  PROVE  /\ {e.num : e \in gone} \subseteq UserNumbers
         /\ Cardinality({e.num : e \in gone}) = Cardinality(gone)
         /\ \A b \in Addrs : \A e \in Users(b) :
              e.num \in {d.num : d \in gone} <=> b = a /\ e \in gone
<1> DEFINE N == {e.num : e \in gone}
           f == [e \in gone |-> e.num]
<1>1. N \subseteq UserNumbers
  BY DEF UserNumbers
<1>2. IsFiniteSet(N)
  BY <1>1, NumbersFinite, FS_Subset
<1>3. \A d, e \in gone : d.num = e.num => d = e
  BY DEF TableInv, OneEach
<1>4. f \in Injection(gone, N) /\ f \in Surjection(gone, N)
  <2>1. f \in [gone -> N]
    OBVIOUS
  <2>2. \A d, e \in gone : f[d] = f[e] => d = e
    BY <1>3
  <2>3. \A n \in N : \E e \in gone : f[e] = n
    OBVIOUS
  <2> HIDE DEF f, N
  <2> QED
    BY <2>1, <2>2, <2>3 DEF Injection, IsInjective, Surjection
<1> HIDE DEF f, N
<1>5. Cardinality(N) = Cardinality(gone)
  BY <1>2, <1>4, FS_Injection
<1>6. \A b \in Addrs : \A e \in Users(b) :
        e.num \in {d.num : d \in gone} <=> b = a /\ e \in gone
  BY DEF TableInv, OneEach
<1> QED
  BY <1>1, <1>5, <1>6 DEF N

\* What dispatchCB leaves of the chains.
LEMMA DispatchLeaves ==
  ASSUME TableInv, NEW a \in Addrs,
         NEW said \in SUBSET {e \in Range(Called(bptable[a])) : IsUser(e)}, dispatchCB(a, said)
  PROVE  \E gone, off :
           /\ gone \subseteq Users(a)
           /\ \A e \in off : e.type \in {"STEP", "NEXT"}
           /\ bptable' \in [Addrs -> Seq(EntryType)]
           /\ \A b \in Addrs :
                Range(bptable'[b]) = (Range(bptable[b]) \ {e \in gone : b = a}) \ off
           /\ sim' \subseteq sim
           /\ \A b \in sim \ sim' : Range(bptable'[b]) = {}
           /\ userBpPresent' = (userBpPresent - Cardinality(gone)) % Char
           /\ bpnum' = bpnum
<1> DEFINE called == Range(Called(bptable[a]))
           gone == {e \in said : e.type = "TMPUSER"}
           steps == {e \in called : e.callBack \in StepCBs}
           users == [bptable EXCEPT ![a] = Without(@, gone)]
           deleted == Deleted(steps)
           off == {e \in EntryType : e.type \in deleted}
<1>1. /\ sim' = sim \ Unused(users, {a})
      /\ bptable' = IF deleted = {} THEN users
                    ELSE [b \in Addrs |-> Without(users[b], off)]
      /\ userBpPresent' = (userBpPresent - Cardinality(gone)) % Char
      /\ bpnum' = bpnum
  BY DEF dispatchCB
<1>2. deleted \subseteq {"STEP", "NEXT"}
  BY DEF Deleted
<1>3. gone \subseteq Users(a)
  BY EntriesTyped, CalledInChain DEF Users
<1> HIDE DEF deleted
<1>4. \A e \in off : e.type \in {"STEP", "NEXT"}
  BY <1>2
<1>5. \A b \in Addrs : Without(bptable[b], gone) \in Seq(EntryType)
                       /\ Range(Without(bptable[b], gone)) = Range(bptable[b]) \ gone
  BY EntriesTyped, WithoutRange
<1> HIDE DEF gone, off
<1>6. /\ users \in [Addrs -> Seq(EntryType)]
      /\ users[a] = Without(bptable[a], gone)
      /\ \A b \in Addrs \ {a} : users[b] = bptable[b]
  BY <1>5 DEF TableInv
<1> HIDE DEF users
<1>7. \A b \in Addrs : Range(users[b]) = Range(bptable[b]) \ {e \in gone : b = a}
  BY <1>5, <1>6
<1>8. \A b \in Addrs : /\ Without(users[b], off) \in Seq(EntryType)
                       /\ Range(Without(users[b], off)) = Range(users[b]) \ off
  BY <1>6, WithoutRange
<1>9. /\ bptable' \in [Addrs -> Seq(EntryType)]
      /\ \A b \in Addrs : Range(bptable'[b]) = Range(users[b]) \ off
  <2>1. CASE deleted = {}
    <3>1. off = {}
      BY <2>1 DEF off
    <3> QED
      BY <1>1, <1>6, <2>1, <3>1
  <2>2. CASE deleted # {}
    BY <1>1, <1>8, <2>2
  <2> QED
    BY <2>1, <2>2
<1>10. \A b \in sim \ sim' : Range(bptable'[b]) = {}
  <2>1. \A b \in sim \ sim' : b = a /\ users[b] = << >>
    BY <1>1 DEF Unused
  <2>2. Range(<< >>) = {}
    BY DEF Range
  <2> QED
    BY <1>9, <2>1, <2>2
<1>11. sim' \subseteq sim
  BY <1>1
<1>12. \A b \in Addrs :
         Range(bptable'[b]) = (Range(bptable[b]) \ {e \in gone : b = a}) \ off
  BY <1>7, <1>9
<1>13. /\ gone \subseteq Users(a)
       /\ \A e \in off : e.type \in {"STEP", "NEXT"}
       /\ bptable' \in [Addrs -> Seq(EntryType)]
       /\ \A b \in Addrs :
            Range(bptable'[b]) = (Range(bptable[b]) \ {e \in gone : b = a}) \ off
       /\ sim' \subseteq sim
       /\ \A b \in sim \ sim' : Range(bptable'[b]) = {}
       /\ userBpPresent' = (userBpPresent - Cardinality(gone)) % Char
       /\ bpnum' = bpnum
  BY <1>1, <1>3, <1>4, <1>9, <1>10, <1>11, <1>12, Zenon
<1> QED
  BY <1>13, Zenon

LEMMA DispatchInv ==
  ASSUME TableInv, NEW a \in Addrs,
         NEW said \in SUBSET {e \in Range(Called(bptable[a])) : IsUser(e)}, dispatchCB(a, said)
  PROVE  TableInv' /\ \A b \in sim \ sim' : bptable'[b] = << >>
<1>1. PICK gone, off :
        /\ gone \subseteq Users(a)
        /\ \A e \in off : e.type \in {"STEP", "NEXT"}
        /\ bptable' \in [Addrs -> Seq(EntryType)]
        /\ \A b \in Addrs :
             Range(bptable'[b]) = (Range(bptable[b]) \ {e \in gone : b = a}) \ off
        /\ sim' \subseteq sim
        /\ \A b \in sim \ sim' : Range(bptable'[b]) = {}
        /\ userBpPresent' = (userBpPresent - Cardinality(gone)) % Char
        /\ bpnum' = bpnum
  BY DispatchLeaves
<1>2. \A e \in gone : IsUser(e)
  BY <1>1 DEF Users
<1>3. \A b \in Addrs : \A e \in Range(bptable[b]) :
        e.type \in {"FENTRY", "FEXIT"} => e \in Range(bptable'[b])
  BY <1>1, <1>2 DEF IsUser, UserTypes
<1>4. Paired' /\ OneEach' /\ FunctionPointsArmed'
  BY <1>1, <1>3, Shrinks
<1>5. \A b \in Addrs : Users(b)' = Users(b) \ {e \in gone : b = a}
  BY <1>1 DEF Users, IsUser, UserTypes
<1> DEFINE N == {e.num : e \in gone}
<1>6. /\ N \subseteq UserNumbers /\ Cardinality(N) = Cardinality(gone)
      /\ \A b \in Addrs : \A e \in Users(b) : e.num \in N <=> b = a /\ e \in gone
  BY <1>1, NumbersOf
<1> HIDE DEF N
<1>7. UserNumbers' = UserNumbers \ N
  <2>1. ASSUME NEW n \in UserNumbers' PROVE n \in UserNumbers \ N
    <3>1. PICK b \in Addrs : \E e \in Users(b)' : n = e.num
      BY <2>1 DEF UserNumbers
    <3>2. PICK e \in Users(b)' : n = e.num
      BY <3>1
    <3>3. e \in Users(b) /\ e \notin {d \in gone : b = a}
      BY <1>5, <3>2
    <3> QED
      BY <1>6, <3>2, <3>3 DEF UserNumbers
  <2>2. ASSUME NEW n \in UserNumbers \ N PROVE n \in UserNumbers'
    <3>1. PICK b \in Addrs : \E e \in Users(b) : n = e.num
      BY <2>2 DEF UserNumbers
    <3>2. PICK e \in Users(b) : n = e.num
      BY <3>1
    <3>3. e \in Users(b)'
      BY <1>5, <1>6, <2>2, <3>2
    <3> QED
      BY <3>2, <3>3 DEF UserNumbers
  <2> QED
    BY <2>1, <2>2
<1>8. Counted'
  <2>1. IsFiniteSet(UserNumbers)
    BY NumbersFinite
  <2>2. Cardinality(UserNumbers \ N) = Cardinality(UserNumbers) - Cardinality(N)
    BY <1>6, <2>1, WithoutPart, Zenon
  <2>3. Cardinality(N) \in Nat
    BY <1>6, NumbersFinite, FS_Subset, FS_CardinalityType
  <2>4. (userBpPresent - Cardinality(N)) % Char
          = (Cardinality(UserNumbers) - Cardinality(N)) % Char
    BY <2>3, NumbersFinite, CharTakes, Zenon DEF TableInv, Counted
  <2> QED
    BY <1>1, <1>6, <1>7, <2>2, <2>4 DEF Counted
<1>9. \A b \in sim \ sim' : b \in Addrs /\ bptable'[b] = << >>
  BY <1>1, EmptyChain DEF TableInv
<1> QED
  BY <1>1, <1>4, <1>8, <1>9 DEF TableInv

-----------------------------------------------------------------------------
(* The call stack and the rest of the state.                               *)

StackInv ==
  /\ callStack \in Seq(Functions) /\ Len(callStack) <= MaxStack
  /\ bottom \in Functions \cup {None}
  /\ at \in Addrs
  /\ mode \in {"prompt", "continue", "run", "step", "next", "stepi"}
  /\ userinterrupt \in BOOLEAN

LEMMA FuncAtIsFunction ==
  ASSUME NEW a \in Addrs
  PROVE  FuncAt(a) \in Functions
<1>1. \E f \in Functions : a \in Body[f]
  BY DEF Addrs
<1> QED
  BY <1>1 DEF FuncAt

LEMMA PushAndPop ==
  ASSUME StackInv, NEW a \in Addrs, NEW types
  PROVE  /\ Left(a, types) \in Seq(Functions) /\ Len(Left(a, types)) <= MaxStack
         /\ Bottom(a, types) \in Functions \cup {None}
<1>0. MaxStack \in Nat /\ FuncAt(a) \in Functions
  BY FuncAtIsFunction, BreakAssumption
<1>1. Entered(a, types) \in Seq(Functions) /\ Len(Entered(a, types)) <= MaxStack
  <2>1. CASE Pushes(types)
    <3>1. Entered(a, types) = Append(callStack, FuncAt(a)) /\ Len(callStack) < MaxStack
      BY <2>1 DEF Entered, Pushes
    <3> QED
      BY <3>1, <1>0 DEF StackInv
  <2>2. CASE ~Pushes(types)
    BY <2>2 DEF Entered, StackInv
  <2> QED
    BY <2>1, <2>2
<1>2. ASSUME NEW s \in Seq(Functions), s # << >>
      PROVE  Front(s) \in Seq(Functions) /\ Len(Front(s)) <= Len(s)
  BY <1>2 DEF Front
<1>3. Left(a, types) \in Seq(Functions) /\ Len(Left(a, types)) <= MaxStack
  <2>1. Left(a, types) = Entered(a, types)
        \/ (Entered(a, types) # << >> /\ Left(a, types) = Front(Entered(a, types)))
    BY DEF Left
  <2> HIDE DEF Left
  <2>2. Left(a, types) \in Seq(Functions) /\ Len(Left(a, types)) <= Len(Entered(a, types))
    BY <1>1, <1>2, <2>1
  <2> QED
    BY <1>0, <1>1, <2>2
<1>4. Bottom(a, types) \in Functions \cup {None}
  BY <1>0 DEF Bottom, StackInv
<1> QED
  BY <1>3, <1>4

LEMMA InitInv == Init => TableInv /\ StackInv
<1> SUFFICES ASSUME Init PROVE TableInv /\ StackInv
  OBVIOUS
<1> DEFINE entry == Plain("FENTRY", "fentryCB")
           exit == Plain("FEXIT", "fexitCB")
           isEntry(a) == \E f \in Functions : Entry[f] = a
           isExit(a) == \E f \in Functions : Exit[f] = a
           first(a) == IF isEntry(a) THEN <<entry>> ELSE << >>
           second(a) == IF isExit(a) THEN <<exit>> ELSE << >>
<1>1. /\ entry \in EntryType /\ exit \in EntryType
      /\ entry.num = 0 /\ exit.num = 0 /\ ~IsUser(entry) /\ ~IsUser(exit)
  BY BreakAssumption DEF Plain, EntryType, IsUser, UserTypes, Types, CallBacks
<1>2. bptable = [a \in Addrs |-> first(a) \o second(a)]
  BY DEF Init
<1> HIDE DEF entry, exit, isEntry, isExit
<1>3. ASSUME NEW a \in Addrs
      PROVE  /\ bptable[a] \in Seq(EntryType)
             /\ isEntry(a) => entry \in Range(bptable[a])
             /\ isExit(a) => exit \in Range(bptable[a])
             /\ \A e \in Range(bptable[a]) : e = entry \/ e = exit
  <2>1. bptable[a] = first(a) \o second(a)
    BY <1>2
  <2>2. first(a) \in Seq(EntryType) /\ second(a) \in Seq(EntryType)
    BY <1>1
  <2>3. /\ Range(first(a)) = IF isEntry(a) THEN {entry} ELSE {}
        /\ Range(second(a)) = IF isExit(a) THEN {exit} ELSE {}
    <3>1. \A x : Range(<<x>>) = {x}
      BY DEF Range
    <3>2. Range(<< >>) = {}
      BY DEF Range
    <3> QED
      BY <3>1, <3>2
  <2> HIDE DEF first, second
  <2>4. /\ bptable[a] \in Seq(EntryType)
        /\ Range(bptable[a]) = Range(first(a)) \cup Range(second(a))
    BY <2>1, <2>2, RangeOfCat
  <2> QED
    BY <2>3, <2>4
<1>4. bptable \in [Addrs -> Seq(EntryType)]
  <2>1. bptable = [a \in Addrs |-> bptable[a]]
    BY <1>2
  <2> QED
    BY <1>3, <2>1
<1>5. \A a \in Addrs : Users(a) = {}
  BY <1>1, <1>3 DEF Users
<1>6. Paired
  <2>1. bpnum = 0
    BY DEF Init
  <2>2. \A a \in Addrs : \A e \in Range(bptable[a]) : e.num = 0 /\ ~IsUser(e)
    BY <1>1, <1>3
  <2> QED
    BY <2>1, <2>2 DEF Paired
<1>7. OneEach /\ UserNumbers = {}
  BY <1>5 DEF OneEach, UserNumbers
<1>8. Counted
  <2>1. 0 % Char = 0
    BY BreakAssumption
  <2> QED
    BY <1>7, <2>1, FS_EmptySet DEF Counted, Init
<1>9. FunctionPointsArmed
  <2> SUFFICES ASSUME NEW f \in Functions
               PROVE  /\ {Entry[f], Exit[f]} \subseteq sim
                      /\ entry \in Range(bptable[Entry[f]])
                      /\ exit \in Range(bptable[Exit[f]])
    BY DEF FunctionPointsArmed, entry, exit
  <2>1. isEntry(Entry[f]) /\ isExit(Exit[f])
    BY DEF isEntry, isExit
  <2>2. {Entry[f], Exit[f]} \subseteq sim
    BY DEF Init
  <2>3. /\ entry \in Range(bptable[Entry[f]])
        /\ exit \in Range(bptable[Exit[f]])
    BY <1>3, <2>1, PlacesAreAddrs
  <2> QED
    BY <2>2, <2>3
<1>10. bpnum \in 0 .. MaxBp /\ sim \subseteq Addrs
  BY PlacesAreAddrs, BreakAssumption DEF Init
<1>11. StackInv
  <2>1. /\ callStack = << >> /\ bottom = None /\ at = Entry[Main]
        /\ mode = "prompt" /\ userinterrupt = FALSE
    BY DEF Init
  <2>2. Entry[Main] \in Addrs /\ MaxStack \in Nat
    BY PlacesAreAddrs, BreakAssumption
  <2>3. << >> \in Seq(Functions) /\ Len(<< >>) = 0
    OBVIOUS
  <2>4. /\ callStack \in Seq(Functions) /\ Len(callStack) <= MaxStack
        /\ bottom \in Functions \cup {None} /\ at \in Addrs
    BY <2>1, <2>2, <2>3
  <2>5. /\ mode \in {"prompt", "continue", "run", "step", "next", "stepi"}
        /\ userinterrupt \in BOOLEAN
    BY <2>1
  <2> QED
    BY <2>4, <2>5 DEF StackInv
<1> QED
  BY <1>4, <1>6, <1>7, <1>8, <1>9, <1>10, <1>11 DEF TableInv

LEMMA TableStep == TableInv /\ [Next]_vars => TableInv'
<1> SUFFICES ASSUME TableInv, [Next]_vars PROVE TableInv'
  OBVIOUS
<1>1. CASE \E a \in Addrs : simGo(a)
  <2>1. PICK a \in Addrs : simGo(a)
    BY <1>1
  <2>2. PICK said \in SUBSET {e \in Range(Called(bptable[a])) : IsUser(e)} :
          dispatchCB(a, said)
    BY <2>1 DEF simGo
  <2> QED
    BY <2>2, DispatchInv
<1>2. CASE cmdContinue \/ cmdStepi \/ cmdRun \/ sigintr \/ simGoOutside \/ UNCHANGED vars
  <2>1. UNCHANGED table
    BY <1>2 DEF cmdContinue, cmdStepi, cmdRun, sigintr, simGoOutside, vars, table
  <2> QED
    BY <2>1, SameTableInv
<1> QED
  BY <1>1, <1>2, SetInv, UsersDeleteInv, ProgramInv DEF Next, Command, Stop

LEMMA CountFits == TableInv => userBpPresent \in 0 .. Char - 1 /\ UserCount
<1> SUFFICES ASSUME TableInv PROVE userBpPresent \in 0 .. Char - 1 /\ UserCount
  OBVIOUS
<1> DEFINE n == Cardinality(UserNumbers)
<1>1. n \in Nat /\ (n = 0 <=> UserNumbers = {}) /\ Char \in Nat \ {0}
  BY NumbersFinite, FS_EmptySet, BreakAssumption
<1>2. userBpPresent = n % Char
  BY DEF TableInv, Counted
<1> HIDE DEF n
<1>3. userBpPresent \in 0 .. Char - 1
  BY <1>1, <1>2, ModDef
<1>4. n < Char => userBpPresent = n
  BY <1>1, <1>2
<1> QED
  BY <1>1, <1>2, <1>3, <1>4 DEF UserCount, NoneReported, n

LEMMA StackStep == StackInv /\ [Next]_vars => StackInv'
<1> SUFFICES ASSUME StackInv, [Next]_vars PROVE StackInv'
  OBVIOUS
<1>1. ASSUME UNCHANGED <<callStack, bottom, at, mode>>, userinterrupt' \in BOOLEAN
      PROVE  StackInv'
  BY <1>1 DEF StackInv
<1>2. ASSUME NEW m \in {"continue", "run", "step", "next", "stepi"}, Start(m)
      PROVE  StackInv'
  <2>1. CASE m = "run" /\ ~userinterrupt /\ 0 \in Addrs /\ Len(callStack) < MaxStack
    <3>1. FuncAt(0) \in Functions
      BY <2>1, FuncAtIsFunction
    <3>2. callStack' = Append(callStack, FuncAt(0)) /\ bottom' \in {FuncAt(0), bottom}
      BY <1>2, <2>1 DEF Start
    <3>3. Append(callStack, FuncAt(0)) \in Seq(Functions)
          /\ Len(Append(callStack, FuncAt(0))) <= MaxStack
      BY <2>1, <3>1, BreakAssumption DEF StackInv
    <3> QED
      BY <1>2, <3>1, <3>2, <3>3 DEF Start, StackInv
  <2>2. CASE ~(m = "run" /\ ~userinterrupt /\ 0 \in Addrs /\ Len(callStack) < MaxStack)
    <3>1. UNCHANGED <<callStack, bottom>>
      BY <1>2, <2>2 DEF Start
    <3> QED
      BY <1>2, <3>1 DEF Start, StackInv
  <2> QED
    BY <2>1, <2>2
<1>3. ASSUME NEW a \in Addrs, simGo(a) PROVE StackInv'
  <2>1. PICK said \in SUBSET {e \in Range(Called(bptable[a])) : IsUser(e)} :
          dispatchCB(a, said)
    BY <1>3 DEF simGo
  <2>2. \E types : callStack' = Left(a, types) /\ bottom' = Bottom(a, types)
    BY <2>1 DEF dispatchCB
  <2>3. \E ends : Loop(ends)
    BY <2>1 DEF dispatchCB
  <2>4. callStack' \in Seq(Functions) /\ Len(callStack') <= MaxStack
        /\ bottom' \in Functions \cup {None}
    BY <2>2, PushAndPop
  <2>5. mode' \in {"prompt", "continue", "run", "step", "next", "stepi"}
        /\ userinterrupt' \in BOOLEAN
    BY <2>3 DEF Loop, StackInv
  <2> QED
    BY <1>3, <2>4, <2>5 DEF simGo, StackInv
<1>4. CASE Stop
  <2>1. CASE simGoOutside
    BY <2>1 DEF simGoOutside, Loop, StackInv
  <2> QED
    BY <1>3, <1>4, <2>1 DEF Stop
<1>5. CASE cmdStep \/ cmdNext \/ cmdFinish \/ cmdContinue \/ cmdStepi \/ cmdRun
  BY <1>2, <1>5 DEF cmdStep, cmdNext, cmdFinish, cmdContinue, cmdStepi, cmdRun
<1>6. CASE (\E a \in Addrs, type \in UserTypes : setBreakPoint(a, type))
           \/ deleteUSERbp \/ (\E a \in Addrs : clearUSERbp(a)) \/ UNCHANGED vars
  BY <1>1, <1>6 DEF setBreakPoint, deleteUSERbp, clearUSERbp, AtPrompt, vars, StackInv
<1>7. CASE sigintr
  BY <1>1, <1>7 DEF sigintr
<1> QED
  BY <1>4, <1>5, <1>6, <1>7 DEF Next, Command

-----------------------------------------------------------------------------
\* Both tables, their count and the call stack stay as they should, whatever
\* the program does and whatever commands and ^C come in between.
THEOREM BreakInvariant == Spec => [](TableInv /\ StackInv)
<1>1. Init => TableInv /\ StackInv
  BY InitInv
<1>2. TableInv /\ StackInv /\ [Next]_vars => TableInv' /\ StackInv'
  BY TableStep, StackStep
<1> QED
  BY <1>1, <1>2, PTL DEF Spec

\* Every variable stays in its range: the call stack does not outgrow its array,
\* the count is a value of its char, and the chains hold whole entries only.
THEOREM BreakTypeCorrect == Spec => []TypeOK
<1>1. TableInv /\ StackInv => TypeOK
  BY CountFits DEF TableInv, StackInv, TypeOK
<1> QED
  BY <1>1, BreakInvariant, PTL

\* Whatever the user sets, clears or steps over at a function's entry or exit,
\* the debugger's own break point stays there and the simulator keeps it.
THEOREM CallStackFollowed == Spec => []FunctionPointsArmed
<1>1. TableInv => FunctionPointsArmed
  BY DEF TableInv
<1> QED
  BY <1>1, BreakInvariant, PTL

\* setBreakPoint, delete, clear and the temporary break points that remove
\* themselves keep userBpPresent the number of the user's entries modulo the values
\* of a char, whatever these are: with fewer entries than that, info break and delete
\* say that there are none exactly when there are none.
THEOREM BreakPointsCounted == Spec => []UserCount
<1>1. TableInv => UserCount
  BY CountFits
<1> QED
  BY <1>1, BreakInvariant, PTL

\* deleteUSERbp, clearUSERbp and the temporary break points clear an address in
\* the simulator only when their table has no entry left there.
THEOREM ClearsOnlyUnused == Spec => ClearedOnlyWhenUnused
<1> DEFINE Kept == \A a \in sim \ sim' : bptable'[a] = << >>
<1>1. TableInv /\ [Next]_vars => [Kept]_vars
  <2> SUFFICES ASSUME TableInv, [Next]_vars PROVE [Kept]_vars
    OBVIOUS
  <2>1. CASE \E a \in Addrs : simGo(a)
    <3>1. PICK a \in Addrs : simGo(a)
      BY <2>1
    <3>2. PICK said \in SUBSET {e \in Range(Called(bptable[a])) : IsUser(e)} :
            dispatchCB(a, said)
      BY <3>1 DEF simGo
    <3> QED
      BY <3>2, DispatchInv
  <2>2. ASSUME NEW gone, DeleteUser(gone) PROVE Kept
    <3> DEFINE chains == [a \in Addrs |-> Without(bptable[a], {e \in EntryType : e.num \in gone})]
    <3>1. bptable' = chains /\ sim' = sim \ Unused(chains, Addrs)
      BY <2>2 DEF DeleteUser
    <3> HIDE DEF chains
    <3> QED
      BY <3>1 DEF Unused
  <2>3. CASE deleteUSERbp \/ (\E a \in Addrs : clearUSERbp(a))
    BY <2>2, <2>3 DEF deleteUSERbp, clearUSERbp
  <2>4. CASE \E a \in Addrs, type \in UserTypes : setBreakPoint(a, type)
    <3>1. sim \subseteq sim'
      BY <2>4 DEF setBreakPoint
    <3> QED
      BY <3>1
  <2>5. CASE cmdStep \/ cmdNext \/ cmdFinish \/ cmdContinue \/ cmdStepi \/ cmdRun \/ sigintr
             \/ simGoOutside
    <3>1. sim' = sim
      BY <2>5 DEF cmdStep, cmdNext, cmdFinish, cmdContinue, cmdStepi, cmdRun, sigintr,
                  simGoOutside, table
    <3> QED
      BY <3>1
  <2> QED
    BY <2>1, <2>3, <2>4, <2>5 DEF Next, Command, Stop
<1> HIDE DEF Kept
<1>2. Spec => [][Kept]_vars
  BY <1>1, BreakInvariant, PTL DEF Spec
<1> QED
  BY <1>2 DEF Kept, ClearedOnlyWhenUnused

\* The first stop after ^C leads to the prompt, under every command and with
\* every chain of call backs at the address.
THEOREM InterruptAnswered == Spec => InterruptEnds
<1> DEFINE Ends == userinterrupt /\ mode # "prompt" => mode' = "prompt"
<1>1. StackInv /\ [Next]_vars => [Ends]_vars
  <2> SUFFICES ASSUME StackInv, Next, userinterrupt, mode # "prompt"
               PROVE  mode' = "prompt" \/ UNCHANGED vars
    OBVIOUS
  <2>1. CASE Stop
    <3>1. \E ends : Loop(ends)
      BY <2>1 DEF Stop, simGo, simGoOutside, dispatchCB
    <3> QED
      BY <3>1 DEF Loop, Interrupted
  <2>2. CASE sigintr
    BY <2>2 DEF sigintr, table, vars, StackInv
  <2>3. ~Command
    BY DEF Command, setBreakPoint, deleteUSERbp, clearUSERbp, AtPrompt, cmdStep, cmdNext,
           cmdFinish, cmdContinue, cmdStepi, cmdRun, Start
  <2> QED
    BY <2>1, <2>2, <2>3 DEF Next
<1> HIDE DEF Ends
<1>2. Spec => [][Ends]_vars
  BY <1>1, BreakInvariant, PTL DEF Spec
<1> QED
  BY <1>2 DEF Ends, InterruptEnds

=============================================================================
