----------------------------- MODULE CommonProofs -----------------------------
(***************************************************************************)
(* Proofs about the two components of cyrus_common the programs build on.  *)
(*                                                                         *)
(* AgentProtocol, for bytes of any number of values, any requests and      *)
(* answers that fit their lengths, and any cuts: a handler gets the        *)
(* request that was sent, the gateway gets the handler's chunks.           *)
(* BufferPool, for any number of buffers and of handles: whatever is       *)
(* moved, a buffer is in exactly one place.                                *)
(***************************************************************************)
EXTENDS AgentProtocol, BufferPool, Integers, TLAPS, WellFoundedInduction, SequenceTheorems

-----------------------------------------------------------------------------
(* Induction, with sets and functions for the operators the provers cannot *)
(* instantiate                                                             *)

\* A nonempty set of naturals has a least element.
LEMMA LeastNumber ==
  ASSUME NEW S \in SUBSET Nat, S # {}
  PROVE  \E n \in S : \A m \in S : n <= m
  <1>1. PICK n \in S : \A m \in S : ~(<<m, n>> \in OpToRel(<, Nat))
    BY NatLessThanWellFounded, WFMin
  <1>2. ASSUME NEW m \in S PROVE n <= m
    <2>1. m \in Nat /\ n \in Nat
      OBVIOUS
    <2>2. ~(m < n)
      BY <1>1, <2>1 DEF OpToRel
    <2> QED BY <2>1, <2>2
  <1> QED BY <1>2

\* What holds of 0 and with n of n + 1 holds of every natural up to m.
LEMMA Induction ==
  ASSUME NEW m \in Nat, NEW S, 0 \in S, \A n \in 0..(m - 1) : n \in S => n + 1 \in S
  PROVE  \A n \in 0..m : n \in S
  <1> DEFINE Others == {n \in 0..m : n \notin S}
  <1>1. ASSUME Others # {} PROVE FALSE
    <2>0. Others \in SUBSET Nat
      OBVIOUS
    <2>1. PICK n \in Others : \A k \in Others : n <= k
      <3> HIDE DEF Others
      <3> QED BY <1>1, <2>0, LeastNumber
    <2>2. n \in 0..m /\ n # 0 /\ n \notin S
      BY <2>1
    <2>3. n - 1 \in 0..(m - 1) /\ (n - 1) + 1 = n /\ ~(n <= n - 1)
      BY <2>2
    <2>4. n - 1 \in S
      BY <2>1, <2>3
    <2> QED BY <2>2, <2>3, <2>4
  <1> QED BY <1>1

Steps(m, S) == [1..m -> [S -> S]]
Chains(m, S, base, step) ==
  {f \in [0..m -> S] : f[0] = base /\ \A i \in 1..m : f[i] = step[i][f[i - 1]]}

\* There is a function with a given first value and a given step from each value to the next.
LEMMA Recursion ==
  ASSUME NEW m \in Nat, NEW S, NEW base \in S, NEW step \in Steps(m, S)
  PROVE  Chains(m, S, base, step) # {}
  <1> USE DEF Steps
  <1> DEFINE Step(f, i) == IF i = 0 THEN base ELSE step[i][f[i - 1]]
             Upto(n) == {f \in [0..n -> S] : \A i \in 0..n : f[i] = Step(f, i)}
             Reached == {n \in 0..m : Upto(n) # {}}
  <1>1. 0 \in Reached
    <2>1. [i \in 0..0 |-> base] \in Upto(0)
      OBVIOUS
    <2> QED BY <2>1
  <1>2. ASSUME NEW n \in 0..(m - 1), n \in Reached PROVE n + 1 \in Reached
    <2>1. PICK f \in [0..n -> S] : \A i \in 0..n : f[i] = Step(f, i)
      BY <1>2
    <2>2. n + 1 \in 1..m /\ n + 1 \in 0..m /\ n \in 0..n /\ n + 1 # 0 /\ (n + 1) - 1 = n
      OBVIOUS
    <2>3. step[n + 1][f[n]] \in S
      BY <2>1, <2>2
    <2> DEFINE g == [i \in 0..(n + 1) |-> IF i = n + 1 THEN step[n + 1][f[n]] ELSE f[i]]
    <2>4. g \in [0..(n + 1) -> S]
      BY <2>3
    <2>5. ASSUME NEW i \in 0..(n + 1) PROVE g[i] = Step(g, i)
      <3>1. CASE i = n + 1
        <4>1. g[n] = f[n] /\ g[n + 1] = step[n + 1][f[n]]
          BY <2>2
        <4> QED BY <3>1, <4>1, <2>2
      <3>2. CASE i \in 0..n
        <4>1. g[i] = f[i] /\ (i # 0 => i - 1 \in 0..n /\ g[i - 1] = f[i - 1])
          BY <3>2
        <4> QED BY <2>1, <3>2, <4>1
      <3> QED BY <3>1, <3>2
    <2> QED BY <2>2, <2>4, <2>5
  <1>3. \A n \in 0..m : n \in Reached
    <2> HIDE DEF Reached
    <2> QED BY <1>1, <1>2, Induction
  <1>4. PICK f \in [0..m -> S] : \A i \in 0..m : f[i] = Step(f, i)
    BY <1>3
  <1>5. 0 \in 0..m /\ \A i \in 1..m : i \in 0..m /\ i # 0
    OBVIOUS
  <1>6. f[0] = base /\ \A i \in 1..m : f[i] = step[i][f[i - 1]]
    BY <1>4, <1>5
  <1> QED BY <1>6 DEF Chains

-----------------------------------------------------------------------------
(* Numbers                                                                 *)

Digit == 0..(Base - 1)

\* The assumptions on the widths.
LEMMA BaseIs == Base \in Nat /\ Base > 5 /\ Bytes = Seq(Digit) /\ LengthBytes \in Nat /\ LengthBytes > 0
  BY ProtocolAssumption DEF Bytes, Digit

\* Division by the number of values of a byte.
LEMMA Division ==
  ASSUME NEW v \in Nat
  PROVE  /\ v \div Base \in Nat /\ v % Base \in Digit
         /\ (v \div Base) * Base + (v % Base) = v
         /\ v < Base => v \div Base = 0
  <1>1. Base \in Nat /\ Base > 0
    BY BaseIs
  <1>2. v \div Base \in Nat /\ v % Base \in 0..(Base - 1)
    BY <1>1
  <1>3. (v \div Base) * Base + (v % Base) = v
    BY <1>1
  <1>4. v < Base => v \div Base = 0
    BY <1>1
  <1> QED BY <1>2, <1>3, <1>4 DEF Digit

\* How NumberAt gets to a number, byte by byte.
Readings(s, n) ==
  {value \in [0..n -> Nat] : value[0] = 0 /\ \A i \in 1..n : value[i] = value[i - 1] * Base + s[i]}

\* The number is the last value of the reading of its bytes.
LEMMA NumberIs ==
  ASSUME NEW n \in Nat, NEW s \in Seq(Digit), n <= Len(s)
  PROVE  \E value \in Readings(s, n) : NumberAt(s, n) = value[n]
  <1> DEFINE step == [i \in 1..n |-> [x \in Nat |-> x * Base + s[i]]]
             Value(f) == [i \in 0..n |-> IF i = 0 THEN 0 ELSE f[i - 1] * Base + s[i]]
             value == CHOOSE f : f = Value(f)
  <1>1. \A i \in 1..n : s[i] \in Nat
    BY BaseIs DEF Digit
  <1>2. step \in [1..n -> [Nat -> Nat]]
    BY <1>1, BaseIs
  <1>3. PICK f \in [0..n -> Nat] : f[0] = 0 /\ \A i \in 1..n : f[i] = step[i][f[i - 1]]
    <2> HIDE DEF step
    <2>1. step \in Steps(n, Nat) /\ 0 \in Nat
      BY <1>2 DEF Steps
    <2>2. Chains(n, Nat, 0, step) # {}
      BY <2>1, Recursion
    <2> QED BY <2>2 DEF Chains
  <1>4. f = Value(f)
    <2>1. ASSUME NEW i \in 1..n PROVE f[i] = f[i - 1] * Base + s[i]
      <3>1. i - 1 \in 0..n /\ f[i - 1] \in Nat
        OBVIOUS
      <3> QED BY <1>3, <3>1
    <2>2. \A i \in 0..n : f[i] = IF i = 0 THEN 0 ELSE f[i - 1] * Base + s[i]
      <3>1. ASSUME NEW i \in 0..n PROVE i = 0 \/ i \in 1..n
        OBVIOUS
      <3> QED BY <1>3, <2>1, <3>1
    <2>3. f = [i \in 0..n |-> f[i]]
      OBVIOUS
    <2> QED BY <2>2, <2>3
  <1>5. value = Value(value)
    BY <1>4
  <1>6. NumberAt(s, n) = value[n]
    BY DEF NumberAt
  <1>7. value[0] = 0 /\ \A i \in 1..n : value[i] = value[i - 1] * Base + s[i]
    <2>1. 0 \in 0..n /\ \A i \in 1..n : i \in 0..n /\ i # 0
      OBVIOUS
    <2>2. \A i \in 0..n : value[i] = IF i = 0 THEN 0 ELSE value[i - 1] * Base + s[i]
      <3> HIDE DEF value
      <3> QED BY <1>5
    <2> HIDE DEF value
    <2> QED BY <2>1, <2>2
  <1>8. value \in [0..n -> Nat]
    <2> HIDE DEF value
    <2> DEFINE S == {i \in 0..n : value[i] \in Nat}
    <2>1. 0 \in S
      BY <1>7
    <2>2. ASSUME NEW i \in 0..(n - 1), i \in S PROVE i + 1 \in S
      <3>1. i + 1 \in 1..n /\ (i + 1) - 1 = i /\ value[i] \in Nat
        BY <2>2
      <3>2. value[i + 1] = value[i] * Base + s[i + 1]
        BY <1>7, <3>1
      <3>3. value[i] * Base \in Nat
        BY <3>1, BaseIs
      <3> QED BY <1>1, <3>1, <3>2, <3>3
    <2>3. \A i \in 0..n : value[i] \in Nat
      <3> HIDE DEF S
      <3>1. \A i \in 0..n : i \in S
        BY <2>1, <2>2, Induction
      <3> QED BY <3>1 DEF S
    <2>4. DOMAIN value = 0..n /\ value = [i \in 0..n |-> value[i]]
      BY <1>5
    <2> QED BY <2>3, <2>4
  <1> HIDE DEF value
  <1> QED BY <1>6, <1>7, <1>8 DEF Readings

\* Bytes give a natural number.
LEMMA NumberType ==
  ASSUME NEW n \in Nat, NEW s \in Seq(Digit), n <= Len(s)
  PROVE  NumberAt(s, n) \in Nat
  <1>1. n \in 0..n
    OBVIOUS
  <1> QED BY <1>1, NumberIs DEF Readings

\* A number depends on its own bytes only.
LEMMA NumberSame ==
  ASSUME NEW n \in Nat, NEW s \in Seq(Digit), NEW t \in Seq(Digit), n <= Len(s), n <= Len(t),
         \A i \in 1..n : s[i] = t[i]
  PROVE  NumberAt(s, n) = NumberAt(t, n)
  <1>1. PICK f \in [0..n -> Nat] : /\ f[0] = 0 /\ NumberAt(s, n) = f[n]
                                   /\ \A i \in 1..n : f[i] = f[i - 1] * Base + s[i]
    <2>1. \E f \in Readings(s, n) : NumberAt(s, n) = f[n]
      BY NumberIs
    <2> QED BY <2>1 DEF Readings
  <1>2. PICK g \in [0..n -> Nat] : /\ g[0] = 0 /\ NumberAt(t, n) = g[n]
                                   /\ \A i \in 1..n : g[i] = g[i - 1] * Base + t[i]
    <2>1. \E g \in Readings(t, n) : NumberAt(t, n) = g[n]
      BY NumberIs
    <2> QED BY <2>1 DEF Readings
  <1> DEFINE S == {i \in 0..n : f[i] = g[i]}
  <1>3. 0 \in S
    BY <1>1, <1>2
  <1>4. ASSUME NEW i \in 0..(n - 1), i \in S PROVE i + 1 \in S
    <2>1. i + 1 \in 1..n /\ (i + 1) - 1 = i /\ f[i] = g[i]
      BY <1>4
    <2>2. f[i + 1] = f[i] * Base + s[i + 1] /\ g[i + 1] = g[i] * Base + t[i + 1]
      BY <1>1, <1>2, <2>1
    <2> QED BY <2>1, <2>2
  <1>5. \A i \in 0..n : i \in S
    <2> HIDE DEF S
    <2> QED BY <1>3, <1>4, Induction
  <1>6. n \in 0..n
    OBVIOUS
  <1> QED BY <1>1, <1>2, <1>5, <1>6

\* How Shifted takes the bytes off.
Shiftings(v, n) ==
  {left \in [0..n -> Nat] : left[0] = v /\ \A i \in 1..n : left[i] = left[i - 1] \div Base}

\* Shifted is the last of the repeated divisions.
LEMMA ShiftedIs ==
  ASSUME NEW v \in Nat, NEW n \in Nat
  PROVE  \E left \in Shiftings(v, n) : Shifted(v, n) = left[n]
  <1> DEFINE step == [i \in 1..n |-> [x \in Nat |-> x \div Base]]
             Value(f) == [i \in 0..n |-> IF i = 0 THEN v ELSE f[i - 1] \div Base]
             left == CHOOSE f : f = Value(f)
  <1>1. step \in Steps(n, Nat)
    BY Division DEF Steps
  <1>2. PICK f \in [0..n -> Nat] : f[0] = v /\ \A i \in 1..n : f[i] = step[i][f[i - 1]]
    <2> HIDE DEF step
    <2>1. Chains(n, Nat, v, step) # {}
      BY <1>1, Recursion
    <2> QED BY <2>1 DEF Chains
  <1>3. f = Value(f)
    <2>1. ASSUME NEW i \in 1..n PROVE f[i] = f[i - 1] \div Base
      <3>1. i - 1 \in 0..n /\ f[i - 1] \in Nat
        OBVIOUS
      <3> QED BY <1>2, <3>1
    <2>2. \A i \in 0..n : f[i] = IF i = 0 THEN v ELSE f[i - 1] \div Base
      <3>1. ASSUME NEW i \in 0..n PROVE i = 0 \/ i \in 1..n
        OBVIOUS
      <3> QED BY <1>2, <2>1, <3>1
    <2>3. f = [i \in 0..n |-> f[i]]
      OBVIOUS
    <2> QED BY <2>2, <2>3
  <1>4. left = Value(left)
    BY <1>3
  <1>5. Shifted(v, n) = left[n]
    BY DEF Shifted
  <1>6. left[0] = v /\ \A i \in 1..n : left[i] = left[i - 1] \div Base
    <2>1. 0 \in 0..n /\ \A i \in 1..n : i \in 0..n /\ i # 0
      OBVIOUS
    <2>2. \A i \in 0..n : left[i] = IF i = 0 THEN v ELSE left[i - 1] \div Base
      <3> HIDE DEF left
      <3> QED BY <1>4
    <2> HIDE DEF left
    <2> QED BY <2>1, <2>2
  <1>7. DOMAIN left = 0..n /\ left = [i \in 0..n |-> left[i]]
    <2> HIDE DEF left
    <2> QED BY <1>4
  <1> HIDE DEF left
  <1> DEFINE S == {i \in 0..n : left[i] \in Nat}
  <1>8. 0 \in S
    BY <1>6
  <1>9. ASSUME NEW i \in 0..(n - 1), i \in S PROVE i + 1 \in S
    <2>1. i + 1 \in 1..n /\ (i + 1) - 1 = i /\ left[i] \in Nat
      BY <1>9
    <2>2. left[i + 1] = left[i] \div Base
      BY <1>6, <2>1
    <2>3. left[i] \div Base \in Nat
      BY <2>1, Division
    <2> QED BY <2>1, <2>2, <2>3
  <1>10. \A i \in 0..n : i \in S
    <2> HIDE DEF S
    <2> QED BY <1>8, <1>9, Induction
  <1>11. left \in [0..n -> Nat]
    BY <1>7, <1>10
  <1> QED BY <1>5, <1>6, <1>11 DEF Shiftings

\* One byte more is one division more.
LEMMA Shift ==
  ASSUME NEW v \in Nat, NEW n \in Nat
  PROVE  /\ Shifted(v, n) \in Nat /\ Shifted(v, 0) = v
         /\ Shifted(v, n + 1) = Shifted(v, n) \div Base
  <1>1. PICK f \in [0..n -> Nat] : /\ f[0] = v /\ Shifted(v, n) = f[n]
                                   /\ \A i \in 1..n : f[i] = f[i - 1] \div Base
    <2>1. \E f \in Shiftings(v, n) : Shifted(v, n) = f[n]
      BY ShiftedIs
    <2> QED BY <2>1 DEF Shiftings
  <1>2. PICK g \in [0..(n + 1) -> Nat] : /\ g[0] = v /\ Shifted(v, n + 1) = g[n + 1]
                                         /\ \A i \in 1..(n + 1) : g[i] = g[i - 1] \div Base
    <2>1. \E g \in Shiftings(v, n + 1) : Shifted(v, n + 1) = g[n + 1]
      BY ShiftedIs
    <2> QED BY <2>1 DEF Shiftings
  <1> DEFINE S == {i \in 0..n : f[i] = g[i]}
  <1>3. 0 \in S
    BY <1>1, <1>2
  <1>4. ASSUME NEW i \in 0..(n - 1), i \in S PROVE i + 1 \in S
    <2>1. i + 1 \in 1..n /\ i + 1 \in 1..(n + 1) /\ (i + 1) - 1 = i /\ f[i] = g[i]
      BY <1>4
    <2>2. f[i + 1] = f[i] \div Base /\ g[i + 1] = g[i] \div Base
      BY <1>1, <1>2, <2>1
    <2> QED BY <2>1, <2>2
  <1>5. \A i \in 0..n : i \in S
    <2> HIDE DEF S
    <2> QED BY <1>3, <1>4, Induction
  <1>6. n \in 0..n /\ n + 1 \in 1..(n + 1) /\ (n + 1) - 1 = n
    OBVIOUS
  <1>7. f[n] = g[n] /\ g[n + 1] = g[n] \div Base /\ f[n] \in Nat
    BY <1>2, <1>5, <1>6
  <1>8. Shifted(v, 0) = v
    <2>1. \E h \in Shiftings(v, 0) : Shifted(v, 0) = h[0]
      BY ShiftedIs
    <2> QED BY <2>1 DEF Shiftings
  <1> QED BY <1>1, <1>2, <1>7, <1>8

\* write_u16 and write_u32 give bytes.
LEMMA WrittenType ==
  ASSUME NEW v \in Nat, NEW n \in Nat
  PROVE  /\ Written(v, n) \in Seq(Digit) /\ Len(Written(v, n)) = n
         /\ \A i \in 1..n : Written(v, n)[i] = Shifted(v, n - i) % Base
  <1>1. \A i \in 1..n : n - i \in Nat /\ Shifted(v, n - i) % Base \in Digit
    BY Shift, Division
  <1>2. Written(v, n) \in [1..n -> Digit] /\ \A i \in 1..n : Written(v, n)[i] = Shifted(v, n - i) % Base
    BY <1>1 DEF Written
  <1> HIDE DEF Digit
  <1>3. Written(v, n) \in Seq(Digit)
    BY <1>2
  <1> QED BY <1>2, <1>3

\* ntohl gives back what htonl was given, if it fits.
LEMMA NumberWritten ==
  ASSUME NEW v \in Nat, NEW n \in Nat, Shifted(v, n) = 0,
         NEW s \in Seq(Digit), n <= Len(s), \A i \in 1..n : s[i] = Written(v, n)[i]
  PROVE  NumberAt(s, n) = v
  <1>1. PICK f \in [0..n -> Nat] : /\ f[0] = 0 /\ NumberAt(s, n) = f[n]
                                   /\ \A i \in 1..n : f[i] = f[i - 1] * Base + s[i]
    <2>1. \E f \in Readings(s, n) : NumberAt(s, n) = f[n]
      BY NumberIs
    <2> QED BY <2>1 DEF Readings
  <1> DEFINE S == {i \in 0..n : f[i] = Shifted(v, n - i)}
  <1>2. 0 \in S
    <2>1. n - 0 = n /\ 0 \in 0..n
      OBVIOUS
    <2> QED BY <1>1, <2>1
  <1>3. ASSUME NEW i \in 0..(n - 1), i \in S PROVE i + 1 \in S
    <2>1. PICK k \in Nat : k = n - (i + 1)
      OBVIOUS
    <2>2. i + 1 \in 1..n /\ (i + 1) - 1 = i /\ n - i = k + 1
      BY <2>1
    <2>3. f[i] = Shifted(v, k + 1) /\ Shifted(v, k + 1) = Shifted(v, k) \div Base /\ Shifted(v, k) \in Nat
      BY <1>3, <2>2, Shift
    <2>4. s[i + 1] = Shifted(v, k) % Base
      BY <2>1, <2>2, WrittenType
    <2>5. f[i + 1] = f[i] * Base + s[i + 1]
      BY <1>1, <2>2
    <2>6. f[i + 1] = Shifted(v, k)
      BY <2>3, <2>4, <2>5, Division
    <2> QED BY <2>1, <2>2, <2>6
  <1>4. \A i \in 0..n : i \in S
    <2> HIDE DEF S
    <2> QED BY <1>2, <1>3, Induction
  <1>5. n \in 0..n /\ n - n = 0
    OBVIOUS
  <1> QED BY <1>1, <1>4, <1>5, Shift

\* Of a number in two bytes there is what two bytes can hold.
LEMMA NumberInTwo ==
  ASSUME NEW v \in Nat, NEW s \in Seq(Digit), 2 <= Len(s), \A i \in 1..2 : s[i] = Written(v, 2)[i]
  PROVE  NumberAt(s, 2) = v % (Base * Base)
  <1>1. PICK f \in [0..2 -> Nat] : /\ f[0] = 0 /\ NumberAt(s, 2) = f[2]
                                   /\ \A i \in 1..2 : f[i] = f[i - 1] * Base + s[i]
    <2>1. \E f \in Readings(s, 2) : NumberAt(s, 2) = f[2]
      BY NumberIs
    <2> QED BY <2>1 DEF Readings
  <1>2. f[1] = f[0] * Base + s[1] /\ f[2] = f[1] * Base + s[2]
    BY <1>1
  <1>3. PICK q \in Nat, r \in Digit : q = v \div Base /\ r = v % Base /\ v = q * Base + r
    BY Division
  <1>4. PICK p \in Nat, d \in Digit : p = q \div Base /\ d = q % Base /\ q = p * Base + d
    BY Division
  <1>5. s[1] = d /\ s[2] = r
    <2>1. Shifted(v, 0) = v /\ Shifted(v, 1) = v \div Base
      <3>1. Shifted(v, 0 + 1) = Shifted(v, 0) \div Base /\ Shifted(v, 0) = v
        BY Shift
      <3> QED BY <3>1
    <2>2. 1 \in 1..2 /\ 2 \in 1..2 /\ 2 - 1 = 1 /\ 2 - 2 = 0
      OBVIOUS
    <2>3. Written(v, 2)[1] = Shifted(v, 1) % Base /\ Written(v, 2)[2] = Shifted(v, 0) % Base
      <3>1. \A i \in 1..2 : Written(v, 2)[i] = Shifted(v, 2 - i) % Base
        BY WrittenType
      <3> QED BY <2>2, <3>1
    <2> QED BY <1>3, <1>4, <2>1, <2>2, <2>3
  <1>6. f[2] = d * Base + r
    BY <1>1, <1>2, <1>5, BaseIs DEF Digit
  <1>7. PICK m \in Nat : m = Base * Base
    BY BaseIs
  <1>8. v = p * m + (d * Base + r)
    <2>1. (p * Base + d) * Base = p * m + d * Base
      BY <1>7, BaseIs DEF Digit
    <2>2. q * Base = p * m + d * Base
      BY <1>4, <2>1
    <2>3. v = (p * m + d * Base) + r
      BY <1>3, <2>2
    <2>4. p * m \in Nat /\ d * Base \in Nat /\ r \in Nat
      BY <1>7, BaseIs DEF Digit
    <2> HIDE DEF Digit
    <2> QED BY <2>3, <2>4
  <1>9. d * Base + r \in 0..(m - 1)
    <2>1. d * Base + Base <= m
      <3>1. d + 1 <= Base /\ d \in Nat
        BY BaseIs DEF Digit
      <3>2. (d + 1) * Base <= Base * Base
        BY <3>1, BaseIs
      <3> QED BY <1>7, <3>1, <3>2, BaseIs
    <2>2. d * Base \in Nat /\ r \in Nat /\ r < Base
      BY BaseIs DEF Digit
    <2> QED BY <2>1, <2>2, BaseIs
  <1>10. m > 0
    BY <1>9
  <1>11. ASSUME NEW a \in 0..(m - 1) PROVE (p * m + a) % m = a
    <2>1. p * m \in Nat
      BY <1>7
    <2> QED BY <1>10, <2>1
  <1> QED BY <1>1, <1>6, <1>7, <1>8, <1>9, <1>11

-----------------------------------------------------------------------------
(* Bytes                                                                   *)

\* Two sequences of bytes, one after the other, can be taken apart again.
LEMMA Joined ==
  ASSUME NEW s \in Seq(Digit), NEW t \in Seq(Digit)
  PROVE  /\ s \o t \in Seq(Digit) /\ Len(s \o t) = Len(s) + Len(t)
         /\ \A i \in 1..Len(s) : (s \o t)[i] = s[i]
         /\ \A i \in 1..Len(t) : (s \o t)[Len(s) + i] = t[i]
         /\ Taken(s \o t, Len(s)) = s /\ Dropped(s \o t, Len(s)) = t
  <1> HIDE DEF Digit
  <1>1. PICK u : u = s \o t
    OBVIOUS
  <1>2. /\ u \in Seq(Digit) /\ Len(u) = Len(s) + Len(t) /\ Len(s) \in Nat /\ Len(t) \in Nat
        /\ \A i \in 1..(Len(s) + Len(t)) : u[i] = IF i <= Len(s) THEN s[i] ELSE t[i - Len(s)]
    BY <1>1, ConcatProperties, LenProperties
  <1>3. \A i \in 1..Len(s) : u[i] = s[i]
    BY <1>2
  <1>4. \A i \in 1..Len(t) : u[Len(s) + i] = t[i]
    <2>1. ASSUME NEW i \in 1..Len(t) PROVE u[Len(s) + i] = t[i]
      <3>1. Len(s) + i \in 1..(Len(s) + Len(t)) /\ ~(Len(s) + i <= Len(s)) /\ (Len(s) + i) - Len(s) = i
        BY <1>2
      <3> QED BY <1>2, <3>1
    <2> QED BY <2>1
  <1>5. Taken(u, Len(s)) = s
    <2>1. \A i \in 1..Len(s) : u[i] \in Digit
      BY <1>2, <1>3, ElementOfSeq
    <2>2. /\ SubSeq(u, 1, Len(s)) \in Seq(Digit) /\ Len(SubSeq(u, 1, Len(s))) = Len(s)
          /\ \A i \in 1..Len(s) : SubSeq(u, 1, Len(s))[i] = u[i]
      BY <1>2, <2>1
    <2> QED BY <1>3, <2>2, SeqEqual DEF Taken
  <1>6. Dropped(u, Len(s)) = t
    <2>1. /\ Dropped(u, Len(s)) \in Seq(Digit) /\ Len(Dropped(u, Len(s))) = Len(t)
          /\ \A i \in 1..Len(t) : Dropped(u, Len(s))[i] = u[Len(s) + i]
      BY <1>2 DEF Dropped
    <2> QED BY <1>4, <2>1, SeqEqual
  <1> QED BY <1>1, <1>2, <1>3, <1>4, <1>5, <1>6

\* A sequence is what is taken of it and what is left.
LEMMA Split ==
  ASSUME NEW s \in Seq(Digit), NEW n \in Nat, n <= Len(s)
  PROVE  /\ Taken(s, n) \in Seq(Digit) /\ Len(Taken(s, n)) = n
         /\ \A i \in 1..n : Taken(s, n)[i] = s[i]
         /\ Dropped(s, n) \in Seq(Digit) /\ Len(Dropped(s, n)) = Len(s) - n
         /\ \A i \in 1..(Len(s) - n) : Dropped(s, n)[i] = s[n + i]
         /\ Taken(s, n) \o Dropped(s, n) = s
  <1> HIDE DEF Digit
  <1>1. /\ Taken(s, n) \in Seq(Digit) /\ Len(Taken(s, n)) = n
        /\ \A i \in 1..n : Taken(s, n)[i] = s[i]
    BY DEF Taken
  <1>2. /\ Dropped(s, n) \in Seq(Digit) /\ Len(Dropped(s, n)) = Len(s) - n
        /\ \A i \in 1..(Len(s) - n) : Dropped(s, n)[i] = s[n + i]
    BY DEF Dropped
  <1>3. Taken(s, n) \o Dropped(s, n) = s
    <2>1. PICK t \in Seq(Digit), d \in Seq(Digit) : t = Taken(s, n) /\ d = Dropped(s, n)
      BY <1>1, <1>2
    <2>2. t \o d \in Seq(Digit) /\ Len(t \o d) = Len(s) /\ Len(s) \in Nat
      BY <1>1, <1>2, <2>1, Joined
    <2>3. ASSUME NEW i \in 1..Len(s) PROVE (t \o d)[i] = s[i]
      <3>1. CASE i <= n
        BY <1>1, <2>1, <3>1, Joined
      <3>2. CASE i > n
        <4>1. i - n \in 1..(Len(s) - n) /\ n + (i - n) = i
          BY <2>2, <3>2
        <4>2. Len(t) = n /\ Len(d) = Len(s) - n
          BY <1>1, <1>2, <2>1
        <4>3. \A j \in 1..Len(d) : (t \o d)[Len(t) + j] = d[j]
          BY Joined
        <4>4. (t \o d)[i] = d[i - n]
          BY <4>1, <4>2, <4>3
        <4>5. d[i - n] = s[n + (i - n)]
          BY <1>2, <2>1, <4>1
        <4> QED BY <4>1, <4>4, <4>5
      <3> QED BY <2>2, <3>1, <3>2
    <2> QED BY <2>1, <2>2, <2>3, SeqEqual
  <1> QED BY <1>1, <1>2, <1>3

\* Joining sequences is associative.
LEMMA Grouped ==
  ASSUME NEW s \in Seq(Digit), NEW t \in Seq(Digit), NEW u \in Seq(Digit)
  PROVE  (s \o t) \o u = s \o (t \o u)
  OBVIOUS

\* A remainder is a natural number, no larger than the number.
LEMMA Remainder ==
  ASSUME NEW v \in Nat
  PROVE  /\ Base * Base \in Nat /\ v % (Base * Base) \in Nat /\ v % (Base * Base) <= v
         /\ v < Base * Base => v % (Base * Base) = v
  <1>1. PICK m \in Nat : m = Base * Base /\ m > 0
    BY BaseIs
  <1>2. v % m \in Nat /\ v % m <= v /\ (v < m => v % m = v)
    BY <1>1
  <1> QED BY <1>1, <1>2

\* A number in two bytes before the rest.
LEMMA Counted ==
  ASSUME NEW k \in Nat, NEW t \in Seq(Digit)
  PROVE  /\ Written(k, 2) \o t \in Seq(Digit) /\ Len(Written(k, 2) \o t) = 2 + Len(t)
         /\ NumberAt(Written(k, 2) \o t, 2) = k % (Base * Base)
         /\ Dropped(Written(k, 2) \o t, 2) = t
  <1>1. PICK w \in Seq(Digit) : w = Written(k, 2) /\ Len(w) = 2
    BY WrittenType
  <1>2. PICK s \in Seq(Digit) : /\ s = w \o t /\ Len(s) = 2 + Len(t) /\ Dropped(s, 2) = t
                                /\ \A i \in 1..2 : s[i] = w[i]
    <2>1. PICK s \in Seq(Digit) : /\ s = w \o t /\ Len(s) = Len(w) + Len(t)
                                  /\ Dropped(s, Len(w)) = t /\ \A i \in 1..Len(w) : s[i] = w[i]
      BY Joined
    <2> QED BY <1>1, <2>1
  <1>3. 2 <= Len(s)
    <2>1. Len(t) \in Nat
      OBVIOUS
    <2> QED BY <1>2, <2>1
  <1>4. NumberAt(s, 2) = k % (Base * Base)
    BY <1>1, <1>2, <1>3, NumberInTwo
  <1> QED BY <1>1, <1>2, <1>4

\* read_string gives back what write_string was given, if its length fits; of a longer
\* string the remainder.
LEMMA ReadsString ==
  ASSUME NEW s \in Seq(Digit), NEW t \in Seq(Digit)
  PROVE  /\ WriteString(s) \in Seq(Digit) /\ Len(WriteString(s)) = 2 + Len(s)
         /\ ReadString(WriteString(s) \o t).value = Taken(s \o t, Len(s) % (Base * Base))
         /\ Short(s) => /\ ReadString(WriteString(s) \o t).value = s
                        /\ ReadString(WriteString(s) \o t).rest = t
  <1>1. PICK k \in Nat : k = Len(s)
    OBVIOUS
  <1>2. PICK after \in Seq(Digit) : /\ after = s \o t /\ Len(after) = k + Len(t)
                                    /\ Taken(after, k) = s /\ Dropped(after, k) = t
    BY <1>1, Joined
  <1>3. PICK n \in Nat : n = k % (Base * Base) /\ n <= k /\ (Short(s) => n = k)
    BY <1>1, Remainder DEF Short
  <1>4. PICK rest \in Seq(Digit) : rest = Written(k, 2) \o after /\ Len(rest) = 2 + Len(after)
                                   /\ NumberAt(rest, 2) = n /\ Dropped(rest, 2) = after
    BY <1>3, Counted
  <1>5. WriteString(s) \in Seq(Digit) /\ Len(WriteString(s)) = 2 + Len(s)
    BY <1>1, Counted DEF WriteString
  <1>6. WriteString(s) \o t = rest
    <2>1. PICK w \in Seq(Digit) : w = Written(k, 2)
      BY WrittenType
    <2>2. (w \o s) \o t = w \o (s \o t)
      BY Grouped
    <2> QED BY <1>1, <1>2, <1>4, <2>1, <2>2 DEF WriteString
  <1>7. ~(Len(rest) < 2) /\ ~(n > Len(after))
    <2>1. Len(t) \in Nat /\ Len(after) \in Nat
      OBVIOUS
    <2> QED BY <1>2, <1>3, <1>4, <2>1
  <1>8. ReadString(rest) = [value |-> Taken(after, n), rest |-> Dropped(after, n)]
    BY <1>4, <1>7 DEF ReadString
  <1> QED BY <1>1, <1>2, <1>3, <1>5, <1>6, <1>8

\* Whatever the bytes, read_string gives bytes.
LEMMA ReadType ==
  ASSUME NEW rest \in Seq(Digit)
  PROVE  ReadString(rest).value \in Seq(Digit) /\ ReadString(rest).rest \in Seq(Digit)
  <1>1. CASE Len(rest) < 2
    <2>1. ReadString(rest) = [value |-> <<>>, rest |-> rest]
      BY <1>1 DEF ReadString
    <2> QED BY <2>1, EmptySeq
  <1>2. CASE ~(Len(rest) < 2)
    <2>1. 2 <= Len(rest)
      <3>1. Len(rest) \in Nat
        OBVIOUS
      <3> QED BY <1>2, <3>1
    <2>2. PICK after \in Seq(Digit), n \in Nat : after = Dropped(rest, 2) /\ n = NumberAt(rest, 2)
      BY <2>1, Split, NumberType
    <2>3. CASE n > Len(after)
      <3>1. ReadString(rest) = [value |-> <<>>, rest |-> after]
        BY <1>2, <2>1, <2>2, <2>3 DEF ReadString
      <3> QED BY <3>1, EmptySeq
    <2>4. CASE ~(n > Len(after))
      <3>1. ReadString(rest) = [value |-> Taken(after, n), rest |-> Dropped(after, n)]
        BY <1>2, <2>2, <2>4 DEF ReadString
      <3>2. n <= Len(after)
        <4>1. Len(after) \in Nat
          OBVIOUS
        <4> QED BY <2>4, <4>1
      <3> QED BY <3>1, <3>2, Split
    <2> QED BY <2>3, <2>4
  <1> QED BY <1>1, <1>2

-----------------------------------------------------------------------------
(* The headers of a request                                                *)

Field == [name : Seq(Digit), value : Seq(Digit)]
Fields == Seq(Field)

\* What ParseRequest skips of one header is what the encoder wrote of it.
LEMMA SkipsHeader ==
  ASSUME NEW h \in Field, NEW t \in Seq(Digit)
  PROVE  /\ WriteHeader(h) \in Seq(Digit)
         /\ Short(h.name) /\ Short(h.value) => SkipHeader(WriteHeader(h) \o t) = t
  <1>1. h.name \in Seq(Digit) /\ h.value \in Seq(Digit)
    BY DEF Field
  <1>2. PICK v \in Seq(Digit) : v = WriteString(h.value)
    BY <1>1, ReadsString
  <1>3. PICK w \in Seq(Digit) : w = WriteString(h.name) /\ Len(w) = 2 + Len(h.name)
    BY <1>1, ReadsString
  <1>4. PICK u \in Seq(Digit) : u = v \o t
    BY Joined
  <1>5. WriteHeader(h) = w \o v /\ w \o v \in Seq(Digit) /\ (w \o v) \o t = w \o u
    <2>1. w \o v \in Seq(Digit)
      BY Joined
    <2>2. (w \o v) \o t = w \o (v \o t)
      BY Grouped
    <2> QED BY <1>2, <1>3, <1>4, <2>1, <2>2 DEF WriteHeader
  <1>6. w \o u # <<>>
    <2>1. Len(w \o u) = Len(w) + Len(u) /\ Len(u) \in Nat /\ Len(h.name) \in Nat
      BY <1>1, Joined
    <2>2. Len(w \o u) > 0
      BY <1>3, <2>1
    <2> QED BY <2>2
  <1>7. ASSUME Short(h.name), Short(h.value) PROVE SkipHeader(w \o u) = t
    <2>1. ReadString(w \o u).rest = u
      BY <1>1, <1>3, <1>7, ReadsString
    <2>2. ReadString(u).rest = t
      BY <1>1, <1>2, <1>4, <1>7, ReadsString
    <2> QED BY <1>6, <2>1, <2>2 DEF SkipHeader
  <1> QED BY <1>5, <1>7

\* How WriteHeaders gets to its text, field by field.
Texts(fields) ==
  {text \in [0..Len(fields) -> Seq(Digit)] :
     text[0] = <<>> /\ \A i \in 1..Len(fields) : text[i] = text[i - 1] \o WriteHeader(fields[i])}

\* The text of the headers is the last of the repeated joins.
LEMMA TextIs ==
  ASSUME NEW fields \in Fields
  PROVE  \E text \in Texts(fields) :
           WriteHeaders(fields) = Written(Len(fields), 2) \o text[Len(fields)]
  <1>0. PICK n \in Nat : n = Len(fields)
    BY DEF Fields
  <1> DEFINE step == [i \in 1..n |-> [x \in Seq(Digit) |-> x \o WriteHeader(fields[i])]]
             Value(f) == [i \in 0..n |-> IF i = 0 THEN <<>> ELSE f[i - 1] \o WriteHeader(fields[i])]
             text == CHOOSE f : f = Value(f)
  <1>1. \A i \in 1..n : WriteHeader(fields[i]) \in Seq(Digit)
    <2>1. \A i \in 1..n : fields[i] \in Field
      BY <1>0 DEF Fields
    <2> QED BY <2>1, SkipsHeader, EmptySeq
  <1>2. \A i \in 1..n : \A x \in Seq(Digit) : x \o WriteHeader(fields[i]) \in Seq(Digit)
    BY <1>1, Joined
  <1>3. step \in Steps(n, Seq(Digit)) /\ <<>> \in Seq(Digit)
    BY <1>2, EmptySeq DEF Steps
  <1>4. PICK f \in [0..n -> Seq(Digit)] : f[0] = <<>> /\ \A i \in 1..n : f[i] = step[i][f[i - 1]]
    <2> HIDE DEF step
    <2>1. Chains(n, Seq(Digit), <<>>, step) # {}
      BY <1>3, Recursion
    <2> QED BY <2>1 DEF Chains
  <1>5. f = Value(f)
    <2>1. ASSUME NEW i \in 1..n PROVE f[i] = f[i - 1] \o WriteHeader(fields[i])
      <3>1. i - 1 \in 0..n /\ f[i - 1] \in Seq(Digit)
        OBVIOUS
      <3> QED BY <1>4, <3>1
    <2>2. \A i \in 0..n : f[i] = IF i = 0 THEN <<>> ELSE f[i - 1] \o WriteHeader(fields[i])
      <3>1. ASSUME NEW i \in 0..n PROVE i = 0 \/ i \in 1..n
        OBVIOUS
      <3> QED BY <1>4, <2>1, <3>1
    <2>3. f = [i \in 0..n |-> f[i]]
      OBVIOUS
    <2> QED BY <2>2, <2>3
  <1>6. text = Value(text)
    BY <1>5
  <1>7. WriteHeaders(fields) = Written(n, 2) \o text[n]
    BY <1>0 DEF WriteHeaders
  <1>8. DOMAIN text = 0..n /\ text = [i \in 0..n |-> text[i]]
    <2> HIDE DEF text
    <2> QED BY <1>6
  <1>9. text[0] = <<>> /\ \A i \in 1..n : text[i] = text[i - 1] \o WriteHeader(fields[i])
    <2>1. 0 \in 0..n /\ \A i \in 1..n : i \in 0..n /\ i # 0
      OBVIOUS
    <2>2. \A i \in 0..n : text[i] = IF i = 0 THEN <<>> ELSE text[i - 1] \o WriteHeader(fields[i])
      <3> HIDE DEF text
      <3> QED BY <1>6
    <2> HIDE DEF text
    <2> QED BY <2>1, <2>2
  <1> HIDE DEF text, step
  <1> DEFINE S == {i \in 0..n : text[i] \in Seq(Digit)}
  <1>10. 0 \in S
    <2>1. text[0] = <<>> /\ <<>> \in Seq(Digit) /\ 0 \in 0..n
      BY <1>9, EmptySeq
    <2> QED BY <2>1
  <1>11. ASSUME NEW i \in 0..(n - 1), i \in S PROVE i + 1 \in S
    <2>1. i + 1 \in 1..n /\ (i + 1) - 1 = i /\ text[i] \in Seq(Digit)
      BY <1>11
    <2>2. text[i + 1] = text[i] \o WriteHeader(fields[i + 1])
      BY <1>9, <2>1
    <2>3. text[i] \o WriteHeader(fields[i + 1]) \in Seq(Digit)
      BY <1>2, <2>1
    <2>4. i + 1 \in 0..n
      OBVIOUS
    <2>5. text[i + 1] \in Seq(Digit)
      BY ZenonT(30), <2>2, <2>3
    <2> QED BY <2>4, <2>5
  <1>12. \A i \in 0..n : i \in S
    <2> HIDE DEF S
    <2> QED BY <1>10, <1>11, Induction
  <1>13. text \in [0..n -> Seq(Digit)]
    BY <1>8, <1>12
  <1> QED BY <1>0, <1>7, <1>9, <1>13 DEF Texts

\* How SkipHeaders gets past the fields.
Skips(rest, count) ==
  {after \in [0..count -> Seq(Digit)] :
     after[0] = rest /\ \A i \in 1..count : after[i] = SkipHeader(after[i - 1])}

\* Whatever the bytes, skipping a header leaves bytes.
LEMMA SkipType == ASSUME NEW t \in Seq(Digit) PROVE SkipHeader(t) \in Seq(Digit)
  BY ReadType DEF SkipHeader

\* Skipping headers is skipping one repeatedly.
LEMMA SkipsIs ==
  ASSUME NEW rest \in Seq(Digit), NEW n \in Nat
  PROVE  \E after \in Skips(rest, n) : SkipHeaders(rest, n) = after[n]
  <1> DEFINE step == [i \in 1..n |-> [x \in Seq(Digit) |-> SkipHeader(x)]]
             Value(f) == [i \in 0..n |-> IF i = 0 THEN rest ELSE SkipHeader(f[i - 1])]
             after == CHOOSE f : f = Value(f)
  <1>1. step \in Steps(n, Seq(Digit))
    BY SkipType DEF Steps
  <1>2. PICK f \in [0..n -> Seq(Digit)] : f[0] = rest /\ \A i \in 1..n : f[i] = step[i][f[i - 1]]
    <2> HIDE DEF step
    <2>1. Chains(n, Seq(Digit), rest, step) # {}
      BY <1>1, Recursion
    <2> QED BY <2>1 DEF Chains
  <1>3. f = Value(f)
    <2>1. ASSUME NEW i \in 1..n PROVE f[i] = SkipHeader(f[i - 1])
      <3>1. i - 1 \in 0..n /\ f[i - 1] \in Seq(Digit)
        OBVIOUS
      <3> QED BY <1>2, <3>1
    <2>2. \A i \in 0..n : f[i] = IF i = 0 THEN rest ELSE SkipHeader(f[i - 1])
      <3>1. ASSUME NEW i \in 0..n PROVE i = 0 \/ i \in 1..n
        OBVIOUS
      <3> QED BY <1>2, <2>1, <3>1
    <2>3. f = [i \in 0..n |-> f[i]]
      OBVIOUS
    <2> QED BY <2>2, <2>3
  <1>4. after = Value(after)
    BY <1>3
  <1>5. SkipHeaders(rest, n) = after[n]
    BY DEF SkipHeaders
  <1>6. DOMAIN after = 0..n /\ after = [i \in 0..n |-> after[i]]
    <2> HIDE DEF after
    <2> QED BY <1>4
  <1>7. after[0] = rest /\ \A i \in 1..n : after[i] = SkipHeader(after[i - 1])
    <2>1. 0 \in 0..n /\ \A i \in 1..n : i \in 0..n /\ i # 0
      OBVIOUS
    <2>2. \A i \in 0..n : after[i] = IF i = 0 THEN rest ELSE SkipHeader(after[i - 1])
      <3> HIDE DEF after
      <3> QED BY <1>4
    <2> HIDE DEF after
    <2> QED BY <2>1, <2>2
  <1> HIDE DEF after, step
  <1> DEFINE S == {i \in 0..n : after[i] \in Seq(Digit)}
  <1>8. 0 \in S
    BY <1>7
  <1>9. ASSUME NEW i \in 0..(n - 1), i \in S PROVE i + 1 \in S
    <2>1. i + 1 \in 1..n /\ (i + 1) - 1 = i /\ after[i] \in Seq(Digit)
      BY <1>9
    <2>2. after[i + 1] = SkipHeader(after[i])
      BY <1>7, <2>1
    <2> QED BY <2>1, <2>2, SkipType
  <1>10. \A i \in 0..n : i \in S
    <2> HIDE DEF S
    <2> QED BY <1>8, <1>9, Induction
  <1>11. after \in [0..n -> Seq(Digit)]
    BY <1>6, <1>10
  <1> QED BY <1>5, <1>7, <1>11 DEF Skips

Begins(a, b) == \E v \in Seq(Digit) : b = a \o v

\* The text of the first fields begins the text of all.
LEMMA TextBegins ==
  ASSUME NEW fields \in Fields, NEW text \in Texts(fields)
  PROVE  \A i \in 0..Len(fields) : Begins(text[i], text[Len(fields)])
  <1>0. PICK n \in Nat : n = Len(fields)
    BY DEF Fields
  <1>1. /\ text \in [0..n -> Seq(Digit)] /\ text[0] = <<>>
        /\ \A i \in 1..n : text[i] = text[i - 1] \o WriteHeader(fields[i])
    BY <1>0 DEF Texts
  <1>2. \A i \in 1..n : WriteHeader(fields[i]) \in Seq(Digit)
    <2>1. \A i \in 1..n : fields[i] \in Field
      BY <1>0 DEF Fields
    <2> QED BY <2>1, SkipsHeader, EmptySeq
  <1> DEFINE S == {i \in 0..n : Begins(text[n - i], text[n])}
  <1>3. 0 \in S
    <2>1. 0 \in 0..n /\ n - 0 = n /\ n \in 0..n /\ text[n] \in Seq(Digit)
      BY <1>1
    <2>2. text[n] = text[n] \o <<>>
      BY <2>1
    <2> QED BY <2>1, <2>2, EmptySeq DEF Begins
  <1>4. ASSUME NEW i \in 0..(n - 1), i \in S PROVE i + 1 \in S
    <2>1. PICK k \in 1..n : k = n - i /\ k - 1 = n - (i + 1) /\ k - 1 \in 0..n /\ k \in 0..n
      OBVIOUS
    <2>2. PICK v \in Seq(Digit) : text[n] = text[k] \o v
      BY <1>4, <2>1 DEF Begins
    <2>3. PICK a \in Seq(Digit), w \in Seq(Digit) : a = text[k - 1] /\ w = WriteHeader(fields[k])
      BY <1>1, <1>2, <2>1
    <2>4. text[k] = a \o w
      BY <1>1, <2>1, <2>3
    <2>5. text[n] = a \o (w \o v) /\ w \o v \in Seq(Digit)
      BY <2>2, <2>4, Grouped, Joined
    <2>6. i + 1 \in 0..n
      OBVIOUS
    <2> QED BY <2>1, <2>3, <2>5, <2>6 DEF Begins
  <1>5. \A i \in 0..n : i \in S
    <2> HIDE DEF S
    <2> QED BY <1>3, <1>4, Induction
  <1>6. ASSUME NEW i \in 0..n PROVE Begins(text[i], text[n])
    <2>1. n - i \in 0..n /\ n - (n - i) = i
      OBVIOUS
    <2> QED BY <1>5, <2>1
  <1> QED BY <1>0, <1>6

\* SkipHeader gets past one of the fields.
LEMMA SkipsOne ==
  ASSUME NEW h \in Field, Short(h.name), Short(h.value),
         NEW a \in Seq(Digit), NEW v \in Seq(Digit), NEW t \in Seq(Digit)
  PROVE  SkipHeader(Dropped(((a \o WriteHeader(h)) \o v) \o t, Len(a)))
           = Dropped(((a \o WriteHeader(h)) \o v) \o t, Len(a \o WriteHeader(h)))
  <1>1. PICK w : w \in Seq(Digit) /\ w = WriteHeader(h)
    BY SkipsHeader, EmptySeq
  <1>2. PICK u : u \in Seq(Digit) /\ u = v \o t
    BY Joined
  <1>3. PICK b, c : b \in Seq(Digit) /\ b = a \o w /\ c \in Seq(Digit) /\ c = w \o u
    <2>1. a \o w \in Seq(Digit) /\ w \o u \in Seq(Digit)
      BY <1>1, <1>2, Joined
    <2> QED BY <2>1
  <1>4. (b \o v) \o t = b \o u
    <2>1. (b \o v) \o t = b \o (v \o t)
      BY ZenonT(30), <1>3, Grouped
    <2> QED BY <1>2, <2>1
  <1>5. b \o u = a \o c
    <2>1. (a \o w) \o u = a \o (w \o u)
      BY ZenonT(30), <1>1, <1>2, Grouped
    <2> QED BY <1>3, <2>1
  <1>6. Dropped(b \o u, Len(b)) = u /\ Dropped(a \o c, Len(a)) = c
    BY <1>2, <1>3, Joined
  <1>7. SkipHeader(c) = u
    <2>1. SkipHeader(WriteHeader(h) \o u) = u
      BY <1>2, SkipsHeader
    <2> QED BY <1>1, <1>3, <2>1
  <1>8. SkipHeader(Dropped((b \o v) \o t, Len(a))) = Dropped((b \o v) \o t, Len(b))
    BY <1>4, <1>5, <1>6, <1>7
  <1>9. a \o WriteHeader(h) = b
    BY <1>1, <1>3
  <1> QED BY <1>8, <1>9

\* SkipHeaders leaves what follows the fields.
LEMMA SkipsFields ==
  ASSUME NEW fields \in Fields, NEW text \in Texts(fields), NEW t \in Seq(Digit),
         \A i \in DOMAIN fields : Short(fields[i].name) /\ Short(fields[i].value)
  PROVE  SkipHeaders(text[Len(fields)] \o t, Len(fields)) = t
  <1>0. PICK n \in Nat : n = Len(fields) /\ DOMAIN fields = 1..n
    BY DEF Fields
  <1>1. /\ text \in [0..n -> Seq(Digit)] /\ text[0] = <<>>
        /\ \A i \in 1..n : text[i] = text[i - 1] \o WriteHeader(fields[i])
    BY <1>0 DEF Texts
  <1>2. PICK all \in Seq(Digit) : all = text[n] \o t
    <2>1. text[n] \in Seq(Digit)
      BY <1>1
    <2> QED BY <2>1, Joined
  <1>3. PICK after \in [0..n -> Seq(Digit)] :
           /\ after[0] = all /\ SkipHeaders(all, n) = after[n]
           /\ \A i \in 1..n : after[i] = SkipHeader(after[i - 1])
    <2>1. \E after \in Skips(all, n) : SkipHeaders(all, n) = after[n]
      BY SkipsIs
    <2> QED BY <2>1 DEF Skips
  <1> DEFINE S == {i \in 0..n : after[i] = Dropped(all, Len(text[i]))}
  <1>4. 0 \in S
    <2>1. <<>> \o all = all /\ Len(<<>>) = 0 /\ 0 \in 0..n
      OBVIOUS
    <2>2. Dropped(<<>> \o all, Len(<<>>)) = all
      BY Joined, EmptySeq
    <2> QED BY <1>1, <1>3, <2>1, <2>2
  <1>5. ASSUME NEW i \in 0..(n - 1), i \in S PROVE i + 1 \in S
    <2>1. i + 1 \in 1..n /\ (i + 1) - 1 = i /\ after[i] = Dropped(all, Len(text[i])) /\ i + 1 \in 0..n
      BY <1>5
    <2>2. PICK h : h \in Field /\ h = fields[i + 1] /\ Short(h.name) /\ Short(h.value)
      <3>1. fields[i + 1] \in Field
        BY <1>0, <2>1 DEF Fields
      <3>2. i + 1 \in DOMAIN fields
        BY <1>0, <2>1
      <3> QED BY <3>1, <3>2
    <2>3. PICK a : a \in Seq(Digit) /\ a = text[i] /\ text[i + 1] = a \o WriteHeader(h)
      <3>1. text[i] \in Seq(Digit)
        BY <1>1, <2>1
      <3>2. text[i + 1] = text[i] \o WriteHeader(fields[i + 1])
        BY <1>1, <2>1
      <3> QED BY <2>2, <3>1, <3>2
    <2>4. PICK v : v \in Seq(Digit) /\ text[n] = text[i + 1] \o v
      BY <1>0, <2>1, TextBegins DEF Begins
    <2>5. all = ((a \o WriteHeader(h)) \o v) \o t
      BY <1>2, <2>3, <2>4
    <2>6. SkipHeader(Dropped(all, Len(a))) = Dropped(all, Len(a \o WriteHeader(h)))
      <3>1. SkipHeader(Dropped(((a \o WriteHeader(h)) \o v) \o t, Len(a)))
              = Dropped(((a \o WriteHeader(h)) \o v) \o t, Len(a \o WriteHeader(h)))
        <4>1. \A x, y \in Seq(Digit) :
                SkipHeader(Dropped(((a \o WriteHeader(h)) \o x) \o y, Len(a)))
                  = Dropped(((a \o WriteHeader(h)) \o x) \o y, Len(a \o WriteHeader(h)))
          BY ZenonT(30), <2>2, <2>3, SkipsOne
        <4> QED BY <2>4, <4>1
      <3> QED BY <2>5, <3>1
    <2>7. after[i + 1] = SkipHeader(after[i])
      BY <1>3, <2>1
    <2> QED BY <2>1, <2>3, <2>6, <2>7
  <1>6. \A i \in 0..n : i \in S
    <2> HIDE DEF S
    <2> QED BY <1>4, <1>5, Induction
  <1>7. after[n] = Dropped(all, Len(text[n])) /\ text[n] \in Seq(Digit)
    <2>1. n \in 0..n
      OBVIOUS
    <2> QED BY <1>1, <1>6, <2>1
  <1>8. Dropped(all, Len(text[n])) = t
    BY <1>2, <1>7, Joined
  <1> QED BY <1>0, <1>2, <1>3, <1>7, <1>8

-----------------------------------------------------------------------------
(* A request                                                               *)

\* The parts of a request are bytes.
LEMMA RequestType ==
  ASSUME NEW r \in Requests
  PROVE  /\ r.method \in Seq(Digit) /\ r.uri \in Seq(Digit) /\ r.body \in Seq(Digit)
         /\ r.headers \in Fields
         /\ Short(r.method) /\ Short(r.uri) /\ Short(r.headers)
         /\ \A i \in DOMAIN r.headers : Short(r.headers[i].name) /\ Short(r.headers[i].value)
         /\ Fits(RequestPayload(r))
  <1>1. Requests \subseteq [method : Seq(Digit), uri : Seq(Digit), headers : Fields, body : Seq(Digit)]
    BY RequestAssumption DEF Bytes, Digit, Fields, Field
  <1>2. r.method \in Seq(Digit) /\ r.uri \in Seq(Digit) /\ r.body \in Seq(Digit) /\ r.headers \in Fields
    BY <1>1
  <1> QED BY <1>2, RequestAssumption

\* on_request_: what the handler of a request is called with.
Seen(r) == [method |-> r.method, uri |-> r.uri, body |-> Taken(r.body, Len(r.body) % (Base * Base))]

\* A request is parsed as it was sent, but for a body that is too long for its length.
LEMMA ParsesRequest ==
  ASSUME NEW r \in Requests
  PROVE  RequestPayload(r) \in Seq(Digit) /\ ParseRequest(RequestPayload(r)) = Seen(r)
  <1>1. PICK text : text \in Texts(r.headers)
                    /\ WriteHeaders(r.headers) = Written(Len(r.headers), 2) \o text[Len(r.headers)]
    BY RequestType, TextIs
  <1>2. PICK n \in Nat : n = Len(r.headers) /\ n < Base * Base
    BY RequestType DEF Fields, Short
  <1>3. PICK m : m \in Seq(Digit) /\ m = WriteString(r.method)
    BY RequestType, ReadsString
  <1>4. PICK u : u \in Seq(Digit) /\ u = WriteString(r.uri)
    BY RequestType, ReadsString
  <1>5. PICK b : b \in Seq(Digit) /\ b = WriteString(r.body)
    BY RequestType, ReadsString
  <1>6. PICK c : c \in Seq(Digit) /\ c = Written(n, 2)
    BY WrittenType
  <1>7. PICK x : x \in Seq(Digit) /\ x = text[n]
    <2>1. n \in 0..n
      OBVIOUS
    <2> QED BY <1>1, <1>2, <2>1 DEF Texts
  <1>8. PICK skipped : skipped \in Seq(Digit) /\ skipped = x \o b
    BY <1>5, <1>7, Joined
  <1>9. PICK counted : counted \in Seq(Digit) /\ counted = c \o skipped
    BY <1>6, <1>8, Joined
  <1>10. PICK rest : rest \in Seq(Digit) /\ rest = u \o counted
    BY <1>4, <1>9, Joined
  <1>11. PICK payload : payload \in Seq(Digit) /\ payload = m \o rest
    BY <1>3, <1>10, Joined
  <1>12. PICK h : h \in Seq(Digit) /\ h = c \o x
    BY <1>6, <1>7, Joined
  <1>13. RequestPayload(r) = payload
    <2>1. RequestPayload(r) = ((m \o u) \o h) \o b
      BY <1>1, <1>2, <1>3, <1>4, <1>5, <1>6, <1>7, <1>12 DEF RequestPayload
    <2>2. h \o b = counted
      <3>1. (c \o x) \o b = c \o (x \o b)
        BY <1>5, <1>6, <1>7, Grouped
      <3> QED BY <1>8, <1>9, <1>12, <3>1
    <2>3. PICK z : z \in Seq(Digit) /\ z = m \o u
      BY <1>3, <1>4, Joined
    <2>4. (z \o h) \o b = z \o (h \o b)
      BY <1>5, <1>12, <2>3, Grouped
    <2>5. (m \o u) \o counted = m \o (u \o counted)
      BY <1>3, <1>4, <1>9, Grouped
    <2> QED BY <1>10, <1>11, <2>1, <2>2, <2>3, <2>4, <2>5
  <1>14. ReadString(payload).value = r.method /\ ReadString(payload).rest = rest
    <2>1. r.method \in Seq(Digit) /\ Short(r.method)
      BY RequestType
    <2>2. /\ ReadString(WriteString(r.method) \o rest).value = r.method
          /\ ReadString(WriteString(r.method) \o rest).rest = rest
      BY <1>10, <2>1, ReadsString
    <2> QED BY <1>3, <1>11, <2>2
  <1>15. ReadString(rest).value = r.uri /\ ReadString(rest).rest = counted
    <2>1. r.uri \in Seq(Digit) /\ Short(r.uri)
      BY RequestType
    <2>2. /\ ReadString(WriteString(r.uri) \o counted).value = r.uri
          /\ ReadString(WriteString(r.uri) \o counted).rest = counted
      BY <1>9, <2>1, ReadsString
    <2> QED BY <1>4, <1>10, <2>2
  <1>16. NumberAt(counted, 2) = n /\ Dropped(counted, 2) = skipped
    <2>1. n % (Base * Base) = n
      BY <1>2, Remainder
    <2>2. /\ NumberAt(Written(n, 2) \o skipped, 2) = n % (Base * Base)
          /\ Dropped(Written(n, 2) \o skipped, 2) = skipped
      BY <1>8, Counted
    <2> QED BY <1>6, <1>9, <2>1, <2>2
  <1>17. SkipHeaders(skipped, n) = b
    <2>1. r.headers \in Fields /\ \A i \in DOMAIN r.headers :
                                    Short(r.headers[i].name) /\ Short(r.headers[i].value)
      BY RequestType
    <2>2. SkipHeaders(text[Len(r.headers)] \o b, Len(r.headers)) = b
      BY <1>1, <1>5, <2>1, SkipsFields
    <2> QED BY <1>2, <1>7, <1>8, <2>2
  <1>18. ReadString(b).value = Taken(r.body, Len(r.body) % (Base * Base))
    <2>1. PICK d \in Seq(Digit) : d = r.body
      BY RequestType
    <2>2. ReadString(WriteString(d) \o <<>>).value = Taken(d \o <<>>, Len(d) % (Base * Base))
      BY ReadsString, EmptySeq
    <2>3. d \o <<>> = d /\ b \o <<>> = b
      OBVIOUS
    <2> QED BY <1>5, <2>1, <2>2, <2>3
  <1>19. ParseRequest(payload) = Seen(r)
    BY <1>14, <1>15, <1>16, <1>17, <1>18 DEF ParseRequest, Seen
  <1> QED BY <1>11, <1>13, <1>19

-----------------------------------------------------------------------------
(* Frames                                                                  *)

\* A frame of a type, with a payload of which the length fits.
Framed(f, type) == \E payload \in Seq(Digit) : Fits(payload) /\ f = BuildFrame(type, payload)

\* The types of messages are bytes.
LEMMA DigitTypes == \A type \in 1..5 : type \in Digit
  BY BaseIs DEF Digit

\* A frame is its length, its type, and the payload.
LEMMA FrameIs ==
  ASSUME NEW type \in 1..5, NEW payload \in Seq(Digit)
  PROVE  /\ BuildFrame(type, payload) \in Seq(Digit)
         /\ Len(BuildFrame(type, payload)) = LengthBytes + 1 + Len(payload)
         /\ \A i \in 1..LengthBytes : BuildFrame(type, payload)[i] = Written(1 + Len(payload), LengthBytes)[i]
         /\ BuildFrame(type, payload)[LengthBytes + 1] = type
         /\ Dropped(BuildFrame(type, payload), LengthBytes + 1) = payload
  <1>1. PICK l \in Nat : l = Len(payload)
    OBVIOUS
  <1>2. PICK w : w \in Seq(Digit) /\ w = Written(1 + l, LengthBytes) /\ Len(w) = LengthBytes
    <2>1. 1 + l \in Nat
      OBVIOUS
    <2> QED BY <2>1, WrittenType, BaseIs
  <1>3. PICK t : t \in Seq(Digit) /\ t = <<type>> /\ Len(t) = 1 /\ t[1] = type
    <2>1. type \in Digit
      BY DigitTypes
    <2>2. <<type>> \in Seq(Digit) /\ Len(<<type>>) = 1 /\ <<type>>[1] = type
      BY <2>1
    <2> QED BY <2>2
  <1>4. PICK h : h \in Seq(Digit) /\ h = w \o t /\ Len(h) = LengthBytes + 1
                 /\ (\A i \in 1..LengthBytes : h[i] = w[i]) /\ h[LengthBytes + 1] = type
    <2>1. /\ w \o t \in Seq(Digit) /\ Len(w \o t) = Len(w) + Len(t)
          /\ \A i \in 1..Len(w) : (w \o t)[i] = w[i]
          /\ \A i \in 1..Len(t) : (w \o t)[Len(w) + i] = t[i]
      BY <1>2, <1>3, Joined
    <2>2. 1 \in 1..Len(t)
      BY <1>3
    <2>3. (w \o t)[Len(w) + 1] = t[1]
      BY <2>1, <2>2
    <2> QED BY <1>2, <1>3, <2>1, <2>3
  <1>5. PICK f : f \in Seq(Digit) /\ f = h \o payload /\ Len(f) = (LengthBytes + 1) + l
                 /\ (\A i \in 1..(LengthBytes + 1) : f[i] = h[i]) /\ Dropped(f, LengthBytes + 1) = payload
    <2>1. /\ h \o payload \in Seq(Digit) /\ Len(h \o payload) = Len(h) + Len(payload)
          /\ \A i \in 1..Len(h) : (h \o payload)[i] = h[i]
          /\ Dropped(h \o payload, Len(h)) = payload
      BY <1>4, Joined
    <2> QED BY <1>1, <1>4, <2>1
  <1>6. BuildFrame(type, payload) = f
    <2>1. HeaderSize = 1
      BY DEF HeaderSize
    <2> QED BY <1>1, <1>2, <1>3, <1>4, <1>5, <2>1 DEF BuildFrame
  <1>7. f[LengthBytes + 1] = type /\ \A i \in 1..LengthBytes : f[i] = w[i]
    <2>1. LengthBytes + 1 \in 1..(LengthBytes + 1) /\ \A i \in 1..LengthBytes : i \in 1..(LengthBytes + 1)
      BY BaseIs
    <2> QED BY <1>4, <1>5, <2>1
  <1> QED BY <1>1, <1>2, <1>5, <1>6, <1>7

\* What a reader sees of a frame: its length before it, then its type.
LEMMA FramedIs ==
  ASSUME NEW type \in 1..5, NEW f, Framed(f, type)
  PROVE  /\ f \in Seq(Digit) /\ Len(f) \in Nat /\ Len(f) > LengthBytes /\ f[LengthBytes + 1] = type
         /\ \A s \in Seq(Digit) : LengthBytes <= Len(s) /\ (\A i \in 1..LengthBytes : s[i] = f[i])
              => NumberAt(s, LengthBytes) = Len(f) - LengthBytes
         /\ Dropped(f, LengthBytes + 1) \in Seq(Digit)
         /\ f = BuildFrame(type, Dropped(f, LengthBytes + 1))
  <1>1. PICK payload \in Seq(Digit) : Fits(payload) /\ f = BuildFrame(type, payload)
    BY DEF Framed
  <1>2. PICK l \in Nat : l = Len(payload)
    OBVIOUS
  <1>3. /\ f \in Seq(Digit) /\ Len(f) = LengthBytes + 1 + l /\ f[LengthBytes + 1] = type
        /\ \A i \in 1..LengthBytes : f[i] = Written(1 + l, LengthBytes)[i]
        /\ Dropped(f, LengthBytes + 1) = payload
    BY <1>1, <1>2, FrameIs
  <1>4. Shifted(1 + l, LengthBytes) = 0
    BY <1>1, <1>2 DEF Fits, HeaderSize
  <1>5. ASSUME NEW s \in Seq(Digit), LengthBytes <= Len(s), \A i \in 1..LengthBytes : s[i] = f[i]
        PROVE  NumberAt(s, LengthBytes) = Len(f) - LengthBytes
    <2>1. \A i \in 1..LengthBytes : s[i] = Written(1 + l, LengthBytes)[i]
      BY <1>3, <1>5
    <2>2. 1 + l \in Nat
      OBVIOUS
    <2>3. NumberAt(s, LengthBytes) = 1 + l
      BY <1>4, <1>5, <2>1, <2>2, NumberWritten, BaseIs
    <2> QED BY <1>3, <2>3, BaseIs
  <1>6. Len(f) \in Nat /\ Len(f) > LengthBytes
    BY <1>3, BaseIs
  <1> QED BY <1>1, <1>3, <1>5, <1>6

\* What is less than a byte fits any number of bytes.
LEMMA SmallFits ==
  ASSUME NEW v \in Nat, v < Base
  PROVE  Shifted(v, LengthBytes) = 0
  <1>1. PICK n \in Nat : n = LengthBytes - 1 /\ n + 1 = LengthBytes
    BY BaseIs
  <1> DEFINE S == {i \in 0..n : Shifted(v, i + 1) = 0}
  <1>2. 0 \in S
    <2>1. Shifted(v, 0 + 1) = Shifted(v, 0) \div Base /\ Shifted(v, 0) = v
      BY Shift
    <2>2. v \div Base = 0
      BY Division
    <2> QED BY <2>1, <2>2
  <1>3. ASSUME NEW i \in 0..(n - 1), i \in S PROVE i + 1 \in S
    <2>1. i + 1 \in Nat /\ i + 1 \in 0..n /\ Shifted(v, i + 1) = 0
      BY <1>3
    <2>2. Shifted(v, (i + 1) + 1) = Shifted(v, i + 1) \div Base
      BY <2>1, Shift
    <2>3. 0 \div Base = 0
      BY BaseIs
    <2> QED BY <2>1, <2>2, <2>3
  <1>4. \A i \in 0..n : i \in S
    <2> HIDE DEF S
    <2> QED BY <1>2, <1>3, Induction
  <1>5. n \in 0..n
    OBVIOUS
  <1> QED BY <1>1, <1>4, <1>5

\* The frames an agent sends.
Shape(fs) ==
  \/ fs = <<>>
  \/ Len(fs) = 1 /\ Framed(fs[1], Types.error)
  \/ /\ Len(fs) >= 2
     /\ Framed(fs[1], Types.headers) /\ Framed(fs[Len(fs)], Types.end)
     /\ \A j \in 2..(Len(fs) - 1) : Framed(fs[j], Types.data)

\* The frames the agent builds have their type, and their length fits.
LEMMA HeadersFramed == Framed(EncodeResponseHeaders(2), Types.headers)
  <1>1. <<>> \in Fields /\ Len(<<>>) = 0
    BY EmptySeq DEF Fields
  <1>2. WriteHeaders(<<>>) = Written(0, 2)
    <2>1. PICK text : text \in Texts(<<>>) /\ WriteHeaders(<<>>) = Written(Len(<<>>), 2) \o text[Len(<<>>)]
      BY <1>1, TextIs
    <2>2. text[0] = <<>>
      BY <2>1 DEF Texts
    <2>3. PICK w : w \in Seq(Digit) /\ w = Written(0, 2) /\ w \o <<>> = w
      <3>1. Written(0, 2) \in Seq(Digit)
        BY WrittenType
      <3> QED BY <3>1
    <2> QED BY <1>1, <2>1, <2>2, <2>3
  <1>3. PICK a : a \in Seq(Digit) /\ a = Written(2, 2) /\ Len(a) = 2
    BY WrittenType
  <1>4. PICK b : b \in Seq(Digit) /\ b = Written(0, 2) /\ Len(b) = 2
    BY WrittenType
  <1>5. a \o b \in Seq(Digit) /\ Len(a \o b) = 4
    <2>1. a \o b \in Seq(Digit) /\ Len(a \o b) = Len(a) + Len(b)
      BY <1>3, <1>4, Joined
    <2>2. Len(a) = 2 /\ Len(b) = 2 /\ a \o b \in Seq(Digit) /\ 2 + 2 = 4
      BY <1>3, <1>4, <2>1
    <2>3. Len(a \o b) = 2 + 2
      BY ZenonT(30), <2>1, <2>2
    <2> QED BY <2>2, <2>3
  <1>6. Fits(a \o b)
    <2>1. 5 \in Nat /\ 5 < Base /\ HeaderSize + 4 = 5
      BY BaseIs DEF HeaderSize
    <2> QED BY <1>5, <2>1, SmallFits DEF Fits
  <1> QED BY <1>2, <1>3, <1>4, <1>5, <1>6 DEF EncodeResponseHeaders, Framed

\* The frame that ends an answer.
LEMMA EndFramed == Framed(EncodeResponseEnd, Types.end)
  <1>1. <<>> \in Seq(Digit) /\ Len(<<>>) = 0
    BY EmptySeq
  <1>2. 1 \in Nat /\ 1 < Base /\ HeaderSize + 0 = 1
    BY BaseIs DEF HeaderSize
  <1>3. Fits(<<>>)
    BY <1>1, <1>2, SmallFits DEF Fits
  <1> QED BY <1>1, <1>3 DEF EncodeResponseEnd, Framed

\* The frame that refuses a request.
LEMMA ErrorFramed ==
  ASSUME NEW s \in Seq(Digit), Fits(ErrorPayload(1, s))
  PROVE  Framed(EncodeError(1, s), Types.error)
  <1>1. Written(1, 2) \in Seq(Digit) /\ WriteString(s) \in Seq(Digit)
    BY WrittenType, ReadsString, EmptySeq
  <1>2. ErrorPayload(1, s) \in Seq(Digit)
    BY <1>1, Joined DEF ErrorPayload
  <1> QED BY <1>2 DEF EncodeError, Framed

\* An element before a sequence, and one after it.
LEMMA Front ==
  ASSUME NEW R, NEW d \in Seq(R), NEW h \in R
  PROVE  /\ <<h>> \o d \in Seq(R) /\ Len(<<h>> \o d) = Len(d) + 1 /\ (<<h>> \o d)[1] = h
         /\ \A j \in 2..(Len(d) + 1) : (<<h>> \o d)[j] = d[j - 1]
  <1>1. <<h>> \in Seq(R) /\ Len(<<h>>) = 1 /\ <<h>>[1] = h /\ Len(d) \in Nat
    OBVIOUS
  <1>2. PICK s \in Seq(R) : s = <<h>> /\ Len(s) = 1 /\ s[1] = h
    BY <1>1
  <1>3. /\ s \o d \in Seq(R) /\ Len(s \o d) = 1 + Len(d)
        /\ \A j \in 1..(1 + Len(d)) : (s \o d)[j] = IF j <= 1 THEN s[j] ELSE d[j - 1]
    BY <1>2, ConcatProperties
  <1> QED BY <1>1, <1>2, <1>3

\* A sequence with one element behind it.
LEMMA Back ==
  ASSUME NEW R, NEW d \in Seq(R), NEW e \in R
  PROVE  /\ d \o <<e>> \in Seq(R) /\ Len(d \o <<e>>) = Len(d) + 1
         /\ (d \o <<e>>)[Len(d) + 1] = e /\ \A j \in 1..Len(d) : (d \o <<e>>)[j] = d[j]
  <1>1. <<e>> \in Seq(R) /\ Len(<<e>>) = 1 /\ <<e>>[1] = e /\ Len(d) \in Nat
    OBVIOUS
  <1>2. PICK s \in Seq(R) : s = <<e>> /\ Len(s) = 1 /\ s[1] = e
    BY <1>1
  <1>3. /\ d \o s \in Seq(R) /\ Len(d \o s) = Len(d) + 1
        /\ \A j \in 1..(Len(d) + 1) : (d \o s)[j] = IF j <= Len(d) THEN d[j] ELSE s[j - Len(d)]
    BY <1>2, ConcatProperties
  <1> QED BY <1>1, <1>2, <1>3

\* The frames of an answer have their shape.
LEMMA AnswerShape ==
  ASSUME NEW a \in Answers
  PROVE  IF a.throws THEN Shape(<<EncodeError(1, a.chunks[1])>>)
         ELSE Shape(<<EncodeResponseHeaders(2)>>
                      \o [i \in DOMAIN a.chunks |-> EncodeResponseData(a.chunks[i])]
                      \o <<EncodeResponseEnd>>)
  <1>1. /\ a.chunks \in Seq(Seq(Digit))
        /\ a.throws => a.chunks # <<>> /\ Fits(ErrorPayload(1, a.chunks[1]))
        /\ \A i \in DOMAIN a.chunks : Fits(a.chunks[i])
    <2>1. Answers \subseteq [throws : BOOLEAN, chunks : Seq(Seq(Digit))]
      BY AnswerAssumption DEF Bytes, Digit
    <2> QED BY <2>1, AnswerAssumption
  <1>2. ASSUME a.throws PROVE Shape(<<EncodeError(1, a.chunks[1])>>)
    <2>1. a.chunks[1] \in Seq(Digit)
      BY <1>1, <1>2
    <2>2. Framed(EncodeError(1, a.chunks[1]), Types.error)
      BY <1>1, <1>2, <2>1, ErrorFramed
    <2>3. PICK e : e = EncodeError(1, a.chunks[1])
      OBVIOUS
    <2>4. Len(<<e>>) = 1 /\ <<e>>[1] = e
      OBVIOUS
    <2> QED BY <2>2, <2>3, <2>4 DEF Shape
  <1>3. ASSUME ~a.throws
        PROVE  Shape(<<EncodeResponseHeaders(2)>>
                       \o [i \in DOMAIN a.chunks |-> EncodeResponseData(a.chunks[i])]
                       \o <<EncodeResponseEnd>>)
    <2>1. PICK n \in Nat : n = Len(a.chunks) /\ DOMAIN a.chunks = 1..n
      BY <1>1
    <2>2. PICK d : d = [i \in 1..n |-> EncodeResponseData(a.chunks[i])]
      OBVIOUS
    <2>3. \A i \in 1..n : Framed(d[i], Types.data)
      <3>1. ASSUME NEW i \in 1..n PROVE Framed(EncodeResponseData(a.chunks[i]), Types.data)
        <4>1. a.chunks[i] \in Seq(Digit) /\ Fits(a.chunks[i])
          BY <1>1, <2>1
        <4> QED BY <4>1 DEF EncodeResponseData, Framed
      <3> QED BY <2>2, <3>1
    <2>4. PICK h, e : h = EncodeResponseHeaders(2) /\ e = EncodeResponseEnd
      OBVIOUS
    <2>5. PICK fs : fs = <<h>> \o d \o <<e>>
      OBVIOUS
    <2>6. /\ Len(fs) = n + 2 /\ fs[1] = h /\ fs[n + 2] = e
          /\ \A j \in 2..(n + 1) : fs[j] = d[j - 1]
      <3>1. \E R : d \in Seq(R) /\ h \in R /\ e \in R /\ Len(d) = n
        <4> DEFINE R == {d[i] : i \in 1..n} \cup {h, e}
        <4>1. d \in [1..n -> R] /\ h \in R /\ e \in R
          BY <2>2
        <4> HIDE DEF R
        <4>2. d \in Seq(R) /\ Len(d) = n
          BY <4>1
        <4> QED BY <4>1, <4>2
      <3>2. PICK R : d \in Seq(R) /\ h \in R /\ e \in R /\ Len(d) = n
        BY <3>1
      <3>3. PICK g : g = <<h>> \o d /\ g \in Seq(R) /\ Len(g) = n + 1 /\ g[1] = h
                     /\ \A j \in 2..(n + 1) : g[j] = d[j - 1]
        <4>1. /\ <<h>> \o d \in Seq(R) /\ Len(<<h>> \o d) = Len(d) + 1 /\ (<<h>> \o d)[1] = h
              /\ \A j \in 2..(Len(d) + 1) : (<<h>> \o d)[j] = d[j - 1]
          BY ZenonT(30), <3>2, Front
        <4> QED BY <3>2, <4>1
      <3>4. fs = g \o <<e>> /\ Len(fs) = n + 2 /\ fs[n + 2] = e /\ \A j \in 1..(n + 1) : fs[j] = g[j]
        <4>1. fs = g \o <<e>>
          BY <2>5, <3>3
        <4>2. /\ Len(g \o <<e>>) = (n + 1) + 1 /\ (g \o <<e>>)[(n + 1) + 1] = e
              /\ \A j \in 1..(n + 1) : (g \o <<e>>)[j] = g[j]
          <5>1. /\ Len(g \o <<e>>) = Len(g) + 1 /\ (g \o <<e>>)[Len(g) + 1] = e
                /\ \A j \in 1..Len(g) : (g \o <<e>>)[j] = g[j]
            <6>1. g \in Seq(R) /\ e \in R
              BY <3>2, <3>3
            <6> QED BY <6>1, Back
          <5> QED BY <3>3, <5>1
        <4> QED BY <4>1, <4>2
      <3>5. 1 \in 1..(n + 1) /\ \A j \in 2..(n + 1) : j \in 1..(n + 1)
        OBVIOUS
      <3> QED BY <3>3, <3>4, <3>5
    <2>7. Shape(fs)
      <3>1. Len(fs) >= 2 /\ Len(fs) - 1 = n + 1
        BY <2>6
      <3>2. \A j \in 2..(Len(fs) - 1) : Framed(fs[j], Types.data)
        <4>1. \A j \in 2..(n + 1) : j - 1 \in 1..n
          OBVIOUS
        <4> QED BY <2>3, <2>6, <3>1, <4>1
      <3> QED BY <2>4, <2>6, <3>1, <3>2, HeadersFramed, EndFramed DEF Shape
    <2> QED BY <2>1, <2>2, <2>4, <2>5, <2>7
  <1> QED BY <1>2, <1>3

-----------------------------------------------------------------------------
(* The frames in what is on its way to the gateway                         *)

Places == [Nat -> Int]

\* From the byte after at[j] on, d has what it has of the frame fs[j]; the frames
\* k + 1 to n lie one behind the other.
InPlace(at, k, fs, n, d) ==
  /\ \A j \in (k + 1)..n : at[j + 1] = at[j] + Len(fs[j])
  /\ \A j \in (k + 1)..(n + 1) : at[j] <= at[n + 1]
  /\ \A j \in (k + 1)..n : \A i \in 1..Len(fs[j]) :
       at[j] + i \in 1..Len(d) => d[at[j] + i] = fs[j][i]

\* The frames are in place when the first bytes are gone.
LEMMA InPlaceDropped ==
  ASSUME NEW at \in Places, NEW k \in Nat, NEW m \in Nat, k <= m, NEW n \in Nat,
         NEW fs \in Seq(Seq(Digit)), n <= Len(fs),
         NEW d \in Seq(Digit), NEW c \in Nat, c <= Len(d), InPlace(at, k, fs, n, d), m <= n
  PROVE  /\ [j \in Nat |-> at[j] - c] \in Places
         /\ InPlace([j \in Nat |-> at[j] - c], m, fs, n, Dropped(d, c))
  <1>1. PICK b : b = [j \in Nat |-> at[j] - c]
    OBVIOUS
  <1>2. b \in Places /\ \A j \in Nat : b[j] = at[j] - c /\ at[j] \in Int
    <2>1. \A j \in Nat : at[j] \in Int /\ at[j] - c \in Int
      BY DEF Places
    <2>2. b \in [Nat -> Int] /\ \A j \in Nat : b[j] = at[j] - c
      BY <1>1, <2>1
    <2> QED BY <2>1, <2>2 DEF Places
  <1>3. PICK e : /\ e \in Seq(Digit) /\ e = Dropped(d, c) /\ Len(e) = Len(d) - c /\ Len(d) \in Nat
                 /\ \A i \in 1..Len(e) : e[i] = d[c + i]
    BY Split
  <1>4. \A j \in (m + 1)..n : j \in (k + 1)..n /\ j \in Nat /\ j + 1 \in Nat /\ Len(fs[j]) \in Nat
    BY <1>3
  <1>5. \A j \in (m + 1)..n : b[j + 1] = b[j] + Len(fs[j])
    <2>1. ASSUME NEW j \in (m + 1)..n PROVE b[j + 1] = b[j] + Len(fs[j])
      <3>1. at[j + 1] = at[j] + Len(fs[j])
        BY <1>4 DEF InPlace
      <3>2. b[j + 1] = at[j + 1] - c /\ b[j] = at[j] - c /\ at[j] \in Int /\ Len(fs[j]) \in Nat
        BY <1>2, <1>4
      <3> QED BY <3>1, <3>2
    <2> QED BY <2>1
  <1>6. \A j \in (m + 1)..(n + 1) : b[j] <= b[n + 1]
    <2>1. ASSUME NEW j \in (m + 1)..(n + 1) PROVE b[j] <= b[n + 1]
      <3>1. j \in (k + 1)..(n + 1) /\ j \in Nat /\ n + 1 \in Nat
        OBVIOUS
      <3>2. at[j] <= at[n + 1]
        BY <3>1 DEF InPlace
      <3> QED BY <1>2, <3>1, <3>2
    <2> QED BY <2>1
  <1>7. ASSUME NEW j \in (m + 1)..n, NEW i \in 1..Len(fs[j]), b[j] + i \in 1..Len(e)
        PROVE  e[b[j] + i] = fs[j][i]
    <2>1. b[j] = at[j] - c /\ at[j] \in Int /\ j \in (k + 1)..n /\ Len(fs[j]) \in Nat
      BY <1>2, <1>4
    <2>2. at[j] + i \in 1..Len(d) /\ c + (b[j] + i) = at[j] + i
      <3>0. at[j] \in Int /\ i \in Nat /\ Len(d) \in Nat
        BY <1>3, <2>1
      <3>1. PICK x \in Int, y \in Nat, l \in Nat : x = at[j] /\ y = i /\ l = Len(d)
        BY <3>0
      <3>2. x - c + y \in 1..(l - c)
        BY <1>3, <1>7, <2>1, <3>1
      <3>3. x + y \in 1..l /\ c + ((x - c) + y) = x + y
        BY <3>2
      <3> QED BY <2>1, <3>1, <3>3
    <2>3. d[at[j] + i] = fs[j][i]
      BY <2>1, <2>2 DEF InPlace
    <2>4. e[b[j] + i] = d[c + (b[j] + i)]
      BY <1>3, <1>7
    <2> QED BY <2>2, <2>3, <2>4
  <1>8. InPlace(b, m, fs, n, e)
    BY <1>5, <1>6, <1>7 DEF InPlace
  <1> QED BY <1>1, <1>2, <1>3, <1>8

\* They are when bytes follow the last of them.
LEMMA InPlaceTail ==
  ASSUME NEW at \in Places, NEW k \in Nat, NEW n \in Nat, NEW fs \in Seq(Seq(Digit)), n <= Len(fs),
         NEW d \in Seq(Digit), NEW t \in Seq(Digit), InPlace(at, k, fs, n, d), at[n + 1] <= Len(d)
  PROVE  InPlace(at, k, fs, n, d \o t)
  <1>1. PICK e : /\ e = d \o t /\ e \in Seq(Digit) /\ \A i \in 1..Len(d) : e[i] = d[i]
    <2>1. d \o t \in Seq(Digit) /\ \A i \in 1..Len(d) : (d \o t)[i] = d[i]
      BY Joined
    <2> QED BY <2>1
  <1>2. ASSUME NEW j \in (k + 1)..n, NEW i \in 1..Len(fs[j]), at[j] + i \in 1..Len(e)
        PROVE  e[at[j] + i] = fs[j][i]
    <2>1. /\ j \in Nat /\ j + 1 \in (k + 1)..(n + 1) /\ Len(fs[j]) \in Nat /\ j + 1 \in Nat /\ n + 1 \in Nat
          /\ Len(d) \in Nat
      OBVIOUS
    <2>2. at[j] \in Int /\ at[j + 1] \in Int /\ at[n + 1] \in Int
      BY <2>1 DEF Places
    <2>3. at[j + 1] = at[j] + Len(fs[j]) /\ at[j + 1] <= at[n + 1]
      BY <2>1 DEF InPlace
    <2>4. at[j] + i \in 1..Len(d)
      <3>1. PICK p \in Int, q \in Int, l \in Nat : p = at[j] /\ q = at[n + 1] /\ l = Len(fs[j])
        BY <2>1, <2>2
      <3>2. i \in 1..l /\ p + l <= q /\ q <= Len(d) /\ p + i \in 1..Len(e)
        BY <1>2, <2>3, <3>1
      <3>3. p + i \in 1..Len(d)
        BY <2>1, <3>2
      <3> QED BY <3>1, <3>3
    <2>5. d[at[j] + i] = fs[j][i]
      BY <2>4 DEF InPlace
    <2> QED BY <1>1, <2>4, <2>5
  <1> QED BY <1>1, <1>2 DEF InPlace

\* They are when the next frame follows.
LEMMA InPlaceNext ==
  ASSUME NEW at \in Places, NEW k \in Nat, NEW n \in Nat, k <= n,
         NEW fs \in Seq(Seq(Digit)), n + 1 <= Len(fs),
         NEW d \in Seq(Digit), InPlace(at, k, fs, n, d), at[n + 1] = Len(d)
  PROVE  \E b \in Places :
           /\ b[k + 1] = at[k + 1] /\ b[n + 2] = Len(d \o fs[n + 1])
           /\ InPlace(b, k, fs, n + 1, d \o fs[n + 1])
  <1>1. PICK f : f \in Seq(Digit) /\ f = fs[n + 1] /\ Len(f) \in Nat /\ Len(d) \in Nat
    OBVIOUS
  <1>2. PICK e : /\ e = d \o f /\ e \in Seq(Digit) /\ Len(e) = Len(d) + Len(f)
                 /\ (\A i \in 1..Len(d) : e[i] = d[i]) /\ \A i \in 1..Len(f) : e[Len(d) + i] = f[i]
    <2>1. d \o f \in Seq(Digit) /\ Len(d \o f) = Len(d) + Len(f)
      BY <1>1, Joined
    <2>2. \A i \in 1..Len(d) : (d \o f)[i] = d[i]
      BY <1>1, Joined
    <2>3. \A i \in 1..Len(f) : (d \o f)[Len(d) + i] = f[i]
      BY <1>1, Joined
    <2> QED BY <2>1, <2>2, <2>3
  <1>3. PICK b : b = [at EXCEPT ![n + 2] = Len(e)]
    OBVIOUS
  <1>4. b \in Places /\ b[n + 2] = Len(e) /\ \A j \in Nat \ {n + 2} : b[j] = at[j] /\ at[j] \in Int
    <2>1. n + 2 \in Nat /\ Len(e) \in Int
      BY <1>1, <1>2
    <2> QED BY <1>3, <2>1 DEF Places
  <1>5. /\ \A j \in (k + 1)..n : /\ j \in Nat \ {n + 2} /\ j + 1 \in Nat \ {n + 2}
                                 /\ Len(fs[j]) \in Nat /\ j + 1 \in (k + 1)..(n + 1)
        /\ n + 1 \in Nat \ {n + 2} /\ k + 1 \in Nat \ {n + 2} /\ (n + 1) + 1 = n + 2
    OBVIOUS
  <1>6. ASSUME NEW j \in (k + 1)..(n + 1) PROVE b[j + 1] = b[j] + Len(fs[j])
    <2>1. CASE j = n + 1
      BY <1>1, <1>2, <1>4, <1>5, <2>1
    <2>2. CASE j \in (k + 1)..n
      <3>1. at[j + 1] = at[j] + Len(fs[j])
        BY <2>2 DEF InPlace
      <3>2. b[j + 1] = at[j + 1] /\ b[j] = at[j]
        BY <1>4, <1>5, <2>2
      <3> QED BY <3>1, <3>2
    <2> QED BY <2>1, <2>2
  <1>7. ASSUME NEW j \in (k + 1)..((n + 1) + 1) PROVE b[j] <= b[(n + 1) + 1]
    <2>1. at[n + 1] <= Len(e) /\ at[n + 1] \in Int /\ Len(e) \in Int
      BY <1>1, <1>2, <1>4, <1>5
    <2>2. CASE j = n + 2
      BY <1>4, <1>5, <2>1, <2>2
    <2>3. CASE j \in (k + 1)..(n + 1)
      <3>1. at[j] <= at[n + 1]
        BY <2>3 DEF InPlace
      <3>2. b[j] = at[j] /\ at[j] \in Int
        <4>1. j \in Nat \ {n + 2}
          BY <2>3
        <4> QED BY <1>4, <4>1
      <3> QED BY <1>4, <1>5, <2>1, <3>1, <3>2
    <2> QED BY <2>2, <2>3
  <1>8. ASSUME NEW j \in (k + 1)..(n + 1), NEW i \in 1..Len(fs[j]), b[j] + i \in 1..Len(e)
        PROVE  e[b[j] + i] = fs[j][i]
    <2>1. CASE j = n + 1
      <3>1. b[j] = Len(d) /\ fs[j] = f
        BY <1>1, <1>4, <1>5, <2>1
      <3> QED BY <1>2, <3>1
    <2>2. CASE j \in (k + 1)..n
      <3>1. b[j] = at[j] /\ at[j] \in Int /\ at[j + 1] \in Int
        BY <1>4, <1>5, <2>2
      <3>2. at[j + 1] = at[j] + Len(fs[j])
        BY <2>2 DEF InPlace
      <3>3. at[j + 1] <= Len(d)
        BY <1>5, <2>2 DEF InPlace
      <3>4. Len(fs[j]) \in Nat
        BY <1>5, <2>2
      <3>5. at[j] + i \in 1..Len(d)
        <4>1. PICK p \in Int : p = at[j]
          BY <3>1
        <4>2. PICK l \in Nat : l = Len(fs[j])
          BY <3>4
        <4>3. i \in 1..l /\ p + l <= Len(d) /\ p + i \in 1..Len(e)
          BY <1>8, <3>1, <3>2, <3>3, <4>1, <4>2
        <4>4. p + i \in 1..Len(d)
          BY <1>1, <4>3
        <4> QED BY <4>1, <4>4
      <3>6. d[at[j] + i] = fs[j][i]
        BY <2>2, <3>5 DEF InPlace
      <3> QED BY <1>2, <3>1, <3>5, <3>6
    <2> QED BY <2>1, <2>2
  <1>9. InPlace(b, k, fs, n + 1, e)
    BY <1>6, <1>7, <1>8 DEF InPlace
  <1>10. b[k + 1] = at[k + 1]
    BY <1>4, <1>5
  <1> QED BY <1>1, <1>2, <1>4, <1>9, <1>10

\* They are when nothing is left.
LEMMA InPlaceNone ==
  ASSUME NEW at \in Places, NEW k \in Nat, NEW n \in Nat, NEW fs, NEW d, InPlace(at, k, fs, n, d)
  PROVE  InPlace(at, k, fs, n, <<>>)
  <1>1. \A x : x \notin 1..Len(<<>>)
    OBVIOUS
  <1> QED BY <1>1 DEF InPlace

-----------------------------------------------------------------------------
(* The invariant                                                           *)

\* The agent has not answered yet, and nothing has come from it.
Receiving == agent.at \in {"select", "feed"}

Untouched ==
  /\ frames = <<>> /\ out = 0 /\ torn = None /\ down = <<>> /\ handled = <<>> /\ shut = FALSE
  /\ reader.got = <<>> /\ reader.len = None /\ reader.result \in {"none", "failed"}

\* What the decoder has and what is on its way to it begin with the first request.
AgentInv ==
  /\ Receiving => Untouched
  /\ Receiving /\ sent = <<>> => up = <<>> /\ agent.buffer = <<>> /\ agent.at = "select"
  /\ Receiving /\ sent # <<>> => Begins(EncodeRequest(sent[1]), agent.buffer \o up)
  /\ handled # <<>> => Len(handled) = 1 /\ sent # <<>> /\ handled[1] = Seen(sent[1])
  /\ NotLeftWaiting

\* The frames sent whole, up to the one a send has torn.
Limit == IF torn = None THEN out ELSE torn - 1

\* The reader is at frame k + 1, and at[j] bytes lie before frame j.
Stream(k, at) ==
  /\ at[k + 1] = IF reader.len = None THEN 0 ELSE -LengthBytes
  /\ InPlace(at, k, frames, Limit, down)
  /\ torn = None => Len(down) <= at[Limit + 1]
  /\ agent.at = "answer" => at[Limit + 1] <= Len(down)
  /\ reader.len # None => k < Limit /\ reader.len = Len(frames[k + 1]) - LengthBytes
  /\ frames # <<>> => k < Len(frames)
  /\ Len(reader.got) = IF k = 0 THEN 0 ELSE k - 1

\* The reader is past the frames sent whole and takes what is behind them for frames.
Astray == torn # None /\ torn <= Len(reader.got) + 2

\* What AnswerIntact says of one chunk.
Right(i) ==
  /\ i + 1 \in 2..(Len(frames) - 1)
  /\ EncodeResponseData(reader.got[i]) = frames[i + 1]

ReaderInv ==
  /\ torn # None => torn <= out
  /\ \A i \in DOMAIN reader.got : torn = None \/ i + 1 < torn => Right(i)
  /\ torn = None /\ reader.result = "ok" => Len(reader.got) = Len(frames) - 2
  /\ reader.result = "none" => Astray \/ \E k \in 0..Limit, at \in Places : Stream(k, at)

\* The inductive invariant.
IInv == TypeOK /\ AgentInv /\ Shape(frames) /\ ReaderInv

\* Two names of the same bytes.
LEMMA BytesAre == Bytes = Seq(Digit)
  BY DEF Bytes, Digit

\* A request is a frame, and its payload is what the encoder was given.
LEMMA RequestFramed ==
  ASSUME NEW r \in Requests
  PROVE  /\ EncodeRequest(r) \in Seq(Digit) /\ Framed(EncodeRequest(r), Types.request)
         /\ Dropped(EncodeRequest(r), LengthBytes + 1) = RequestPayload(r)
         /\ Len(EncodeRequest(r)) \in Nat /\ Len(EncodeRequest(r)) > LengthBytes
  <1>1. RequestPayload(r) \in Seq(Digit) /\ Fits(RequestPayload(r))
    BY ParsesRequest, RequestType
  <1>2. Types.request \in 1..5
    BY DEF Types
  <1>3. Framed(EncodeRequest(r), Types.request)
    BY <1>1 DEF Framed, EncodeRequest
  <1>4. Dropped(EncodeRequest(r), LengthBytes + 1) = RequestPayload(r)
    BY <1>1, <1>2, FrameIs DEF EncodeRequest
  <1> QED BY <1>2, <1>3, <1>4, FramedIs

\* At first nothing is on its way.
LEMMA InitIInv == Init => IInv
  <1> SUFFICES ASSUME Init PROVE IInv
    OBVIOUS
  <1> USE DEF Init
  <1>1. None \notin Nat /\ BOOLEAN = {TRUE, FALSE}
    BY ProtocolAssumption
  <1>2. TypeOK
    <2>1. <<>> \in Seq(Requests) /\ <<>> \in Bytes /\ <<>> \in Seq(Bytes)
          /\ <<>> \in Seq([method : Bytes, uri : Bytes, body : Bytes])
      BY EmptySeq, BytesAre
    <2>2. agent \in [at : {"select", "feed", "answer", "closed"}, buffer : Bytes]
      BY <2>1
    <2>3. reader \in [len : (0..MaxPayload) \cup {None}, got : Seq(Bytes),
                     result : {"none", "ok", "error", "failed"}]
      BY <2>1
    <2>4. out \in 0..Len(frames)
      OBVIOUS
    <2> QED BY <2>1, <2>2, <2>3, <2>4 DEF TypeOK
  <1>3. AgentInv
    BY DEF AgentInv, Untouched, Receiving, NotLeftWaiting
  <1>4. Shape(frames)
    BY DEF Shape
  <1>5. ReaderInv
    <2>1. Limit = 0
      BY <1>1 DEF Limit
    <2>2. PICK at : at = [j \in Nat |-> 0]
      OBVIOUS
    <2>3. at \in Places /\ at[0 + 1] = 0
      BY <2>2 DEF Places
    <2>4. InPlace(at, 0, frames, 0, down)
      <3>1. \A j \in Nat : at[j] = 0
        BY <2>2
      <3>2. (0 + 1)..0 = {} /\ \A j \in (0 + 1)..(0 + 1) : j \in Nat
        OBVIOUS
      <3>3. \A j \in (0 + 1)..(0 + 1) : at[j] <= at[0 + 1]
        BY <3>1, <3>2
      <3> QED BY <3>2, <3>3 DEF InPlace
    <2>5. Stream(0, at)
      BY <1>1, <2>1, <2>3, <2>4 DEF Stream
    <2>6. 0 \in 0..Limit
      BY <2>1
    <2>7. DOMAIN reader.got = {}
      OBVIOUS
    <2> QED BY <2>3, <2>5, <2>6, <2>7 DEF ReaderInv
  <1> QED BY <1>2, <1>3, <1>4, <1>5 DEF IInv

\* A step of the gateway's sending end or of the decoder is none of the reader's.
LEMMA ReaderStays ==
  ASSUME ReaderInv, UNCHANGED <<frames, out, torn, down, reader>>,
         agent'.at = "answer" => agent.at = "answer"
  PROVE  ReaderInv'
  <1>1. Limit' = Limit /\ (Astray' <=> Astray) /\ \A i : Right(i)' <=> Right(i)
    BY DEF Limit, Astray, Right
  <1>2. ASSUME NEW k \in 0..Limit, NEW at \in Places, Stream(k, at) PROVE Stream(k, at)'
    BY <1>1, <1>2 DEF Stream
  <1> QED BY <1>1, <1>2 DEF ReaderInv

\* What the agent does after its answer is none of the decoder's.
LEMMA AgentDone ==
  ASSUME AgentInv, UNCHANGED <<sent, handled>>, ~Receiving'
  PROVE  AgentInv'
  BY DEF AgentInv, Receiving, NotLeftWaiting

\* More bytes behind do not change how a sequence begins.
LEMMA BeginsMore ==
  ASSUME NEW a \in Seq(Digit), NEW b \in Seq(Digit), NEW c \in Seq(Digit), Begins(a, b)
  PROVE  Begins(a, b \o c)
  <1>1. PICK v \in Seq(Digit) : b = a \o v
    BY DEF Begins
  <1>2. (a \o v) \o c = a \o (v \o c)
    BY Grouped
  <1>3. v \o c \in Seq(Digit)
    BY Joined
  <1> QED BY <1>1, <1>2, <1>3 DEF Begins

-----------------------------------------------------------------------------
(* The gateway sends, the decoder is fed                                   *)

\* A request is put behind what is on its way.
LEMMA StepSend ==
  ASSUME IInv, NEW r \in Requests, SendPacket(r)
  PROVE  IInv'
  <1> USE DEF IInv
  <1>1. PICK e : e \in Seq(Digit) /\ e = EncodeRequest(r) /\ Len(e) > LengthBytes /\ Len(e) \in Nat
    BY RequestFramed
  <1>2. /\ sent' = Append(sent, r) /\ up' = up \o e
        /\ UNCHANGED <<agent, handled, frames, out, torn, down, shut, reader>>
    BY <1>1 DEF SendPacket
  <1>3. /\ sent \in Seq(Requests) /\ up \in Seq(Digit) /\ agent.buffer \in Seq(Digit)
    BY BytesAre DEF TypeOK
  <1>4. sent' \in Seq(Requests) /\ sent' # <<>> /\ sent'[1] = IF sent = <<>> THEN r ELSE sent[1]
    BY <1>2, <1>3
  <1>5. up' \in Seq(Digit)
    BY <1>1, <1>2, <1>3, Joined
  <1>6. TypeOK'
    BY <1>2, <1>4, <1>5, BytesAre DEF TypeOK
  <1>7. ReaderInv' /\ Shape(frames)'
    BY <1>2, ReaderStays
  <1>8. Receiving' = Receiving /\ Untouched' = Untouched
    BY <1>2 DEF Receiving, Untouched
  <1>9. ASSUME Receiving PROVE Begins(EncodeRequest(sent'[1]), agent.buffer \o up')
    <2>1. CASE sent = <<>>
      <3>1. up = <<>> /\ agent.buffer = <<>> /\ sent'[1] = r
        BY <1>4, <1>9, <2>1 DEF AgentInv
      <3>2. <<>> \o (<<>> \o e) = e \o <<>> /\ <<>> \in Seq(Digit)
        BY <1>1
      <3> QED BY <1>1, <1>2, <3>1, <3>2 DEF Begins
    <2>2. CASE sent # <<>>
      <3>1. sent[1] \in Requests
        BY <1>3, <2>2
      <3>2. EncodeRequest(sent[1]) \in Seq(Digit)
        BY <3>1, RequestFramed
      <3>3. Begins(EncodeRequest(sent[1]), agent.buffer \o up)
        BY <1>9, <2>2 DEF AgentInv
      <3>4. agent.buffer \o up \in Seq(Digit)
        BY <1>3, Joined
      <3>5. Begins(EncodeRequest(sent[1]), (agent.buffer \o up) \o e)
        BY <1>1, <3>2, <3>3, <3>4, BeginsMore
      <3>6. (agent.buffer \o up) \o e = agent.buffer \o (up \o e)
        BY <1>1, <1>3, Grouped
      <3> QED BY <1>2, <1>4, <2>2, <3>5, <3>6
    <2> QED BY <2>1, <2>2
  <1>10. NotLeftWaiting'
    <2>1. CASE sent = <<>>
      <3>1. agent.at = "select" => Len(agent.buffer) = 0
        BY <2>1 DEF AgentInv, Receiving
      <3>2. 0 < Len(e)
        BY <1>1, BaseIs
      <3> QED BY <1>1, <1>2, <1>4, <2>1, <3>1, <3>2 DEF NotLeftWaiting
    <2>2. CASE sent # <<>>
      BY <1>2, <1>4, <2>2 DEF AgentInv, NotLeftWaiting
    <2> QED BY <2>1, <2>2
  <1>11. AgentInv'
    <2>1. handled' # <<>> => Len(handled') = 1 /\ sent' # <<>> /\ handled'[1] = Seen(sent'[1])
      BY <1>2, <1>4 DEF AgentInv
    <2>2. Receiving' => Begins(EncodeRequest(sent'[1]), agent'.buffer \o up')
      BY <1>2, <1>8, <1>9
    <2> QED BY <1>4, <1>8, <1>10, <2>1, <2>2 DEF AgentInv
  <1> QED BY <1>6, <1>7, <1>11

\* What recv returns goes from the connection into the buffer.
LEMMA StepReceive ==
  ASSUME IInv, NEW n \in 1..RecvBytes, HandleClientData(n)
  PROVE  IInv'
  <1> USE DEF IInv
  <1>1. /\ agent.at = "select" /\ n <= Len(up) /\ up' = Dropped(up, n)
        /\ agent' = [at |-> "feed", buffer |-> agent.buffer \o Taken(up, n)]
        /\ UNCHANGED <<sent, handled, frames, out, torn, down, shut, reader>>
    BY DEF HandleClientData
  <1>2. up \in Seq(Digit) /\ agent.buffer \in Seq(Digit) /\ n \in Nat /\ n > 0
    BY BytesAre, ProtocolAssumption DEF TypeOK
  <1>3. PICK t : t \in Seq(Digit) /\ t = Taken(up, n)
    BY <1>1, <1>2, Split
  <1>4. PICK d : d \in Seq(Digit) /\ d = Dropped(up, n) /\ t \o d = up
    BY <1>1, <1>2, <1>3, Split
  <1>5. agent.buffer \o t \in Seq(Digit) /\ (agent.buffer \o t) \o d = agent.buffer \o up
    <2>1. (agent.buffer \o t) \o d = agent.buffer \o (t \o d)
      BY <1>2, <1>3, <1>4, Grouped
    <2>2. agent.buffer \o t \in Seq(Digit)
      BY <1>2, <1>3, Joined
    <2> QED BY <1>4, <2>1, <2>2
  <1>6. agent' = [at |-> "feed", buffer |-> agent.buffer \o t] /\ up' = d
    BY <1>1, <1>3, <1>4
  <1>7. TypeOK'
    <2>1. agent' \in [at : {"select", "feed", "answer", "closed"}, buffer : Bytes]
      BY <1>5, <1>6, BytesAre
    <2>2. up' \in Bytes
      BY <1>4, <1>6, BytesAre
    <2> QED BY <1>1, <2>1, <2>2 DEF TypeOK
  <1>8. ReaderInv' /\ Shape(frames)'
    BY <1>1, ReaderStays
  <1>9. sent # <<>>
    <2>1. sent = <<>> => up = <<>>
      BY <1>1 DEF AgentInv, Receiving
    <2>2. Len(<<>>) = 0
      OBVIOUS
    <2> QED BY <1>1, <1>2, <2>1, <2>2
  <1>10. agent'.at = "feed" /\ agent'.buffer = agent.buffer \o t
    BY <1>6
  <1>11. AgentInv'
    <2>1. Receiving /\ Receiving' /\ Untouched' = Untouched
      BY <1>1, <1>10 DEF Receiving, Untouched
    <2>2. Begins(EncodeRequest(sent[1]), agent.buffer \o up)
      BY <1>9, <2>1 DEF AgentInv
    <2>3. agent'.buffer \o up' = agent.buffer \o up
      BY <1>5, <1>6, <1>10
    <2>4. NotLeftWaiting'
      BY <1>10 DEF NotLeftWaiting
    <2> QED BY <1>1, <1>9, <2>1, <2>2, <2>3, <2>4 DEF AgentInv
  <1> QED BY <1>7, <1>8, <1>11

\* A buffer that has as many bytes as the first request is complete, and has it.
LEMMA Arrived ==
  ASSUME NEW r \in Requests, NEW b \in Seq(Digit), NEW u \in Seq(Digit),
         Begins(EncodeRequest(r), b \o u), LengthBytes <= Len(b)
  PROVE  /\ LengthBytes + NumberAt(b, LengthBytes) = Len(EncodeRequest(r))
         /\ Len(EncodeRequest(r)) <= Len(b) => Taken(b, Len(EncodeRequest(r))) = EncodeRequest(r)
  <1>1. PICK e : /\ e \in Seq(Digit) /\ e = EncodeRequest(r) /\ Framed(e, Types.request)
                 /\ Len(e) \in Nat /\ Len(e) > LengthBytes
    BY RequestFramed
  <1>2. PICK v : v \in Seq(Digit) /\ b \o u = e \o v
    BY <1>1 DEF Begins
  <1>3. PICK all : all \in Seq(Digit) /\ all = b \o u
    BY Joined
  <1>4. Len(b) \in Nat /\ \A i \in 1..Len(b) : all[i] = b[i]
    BY <1>3, Joined
  <1>5. \A i \in 1..Len(e) : all[i] = e[i]
    BY <1>1, <1>2, <1>3, Joined
  <1>6. \A i \in 1..LengthBytes : i \in 1..Len(b) /\ i \in 1..Len(e)
    BY <1>1, <1>4, BaseIs
  <1>7. \A i \in 1..LengthBytes : b[i] = e[i]
    BY <1>4, <1>5, <1>6
  <1>8. NumberAt(b, LengthBytes) = Len(e) - LengthBytes
    <2>1. Types.request \in 1..5
      BY DEF Types
    <2> QED BY <1>1, <1>7, <2>1, FramedIs
  <1>9. ASSUME Len(e) <= Len(b) PROVE Taken(b, Len(e)) = e
    <2>1. PICK t : /\ t \in Seq(Digit) /\ t = Taken(b, Len(e)) /\ Len(t) = Len(e)
                   /\ \A i \in 1..Len(e) : t[i] = b[i]
      <3>1. PICK l \in Nat : l = Len(e) /\ l <= Len(b)
        BY <1>1, <1>9
      <3>2. /\ Taken(b, l) \in Seq(Digit) /\ Len(Taken(b, l)) = l
            /\ \A i \in 1..l : Taken(b, l)[i] = b[i]
        BY <3>1, Split
      <3> QED BY <3>1, <3>2
    <2>2. \A i \in 1..Len(e) : i \in 1..Len(b)
      BY <1>1, <1>4, <1>9
    <2>3. \A i \in 1..Len(e) : t[i] = e[i]
      BY <1>4, <1>5, <2>1, <2>2
    <2> QED BY <1>1, <2>1, <2>3, SeqEqual
  <1>10. LengthBytes + (Len(e) - LengthBytes) = Len(e)
    BY <1>1, BaseIs
  <1> QED BY <1>1, <1>8, <1>9, <1>10

\* The decoder waits only for a request that has not arrived.
LEMMA StepNeedMore ==
  ASSUME IInv, NeedMore
  PROVE  IInv'
  <1> USE DEF IInv
  <1>1. /\ agent.at = "feed" /\ ~Complete(agent.buffer) /\ agent' = [agent EXCEPT !.at = "select"]
        /\ UNCHANGED <<sent, up, handled, frames, out, torn, down, shut, reader>>
    BY DEF NeedMore
  <1>2. up \in Seq(Digit) /\ agent.buffer \in Seq(Digit) /\ sent \in Seq(Requests)
    BY BytesAre DEF TypeOK
  <1>3. agent'.at = "select" /\ agent'.buffer = agent.buffer
    BY <1>1 DEF TypeOK
  <1>4. TypeOK'
    BY <1>1 DEF TypeOK
  <1>5. ReaderInv' /\ Shape(frames)'
    BY <1>1, <1>3, ReaderStays
  <1>6. Receiving /\ Receiving' /\ Untouched' = Untouched /\ sent # <<>>
    BY <1>1, <1>3 DEF Receiving, Untouched, AgentInv
  <1>7. Begins(EncodeRequest(sent[1]), agent.buffer \o up) /\ sent[1] \in Requests
    BY <1>2, <1>6 DEF AgentInv
  <1>8. Len(agent.buffer) < Len(EncodeRequest(sent[1]))
    <2>1. Len(EncodeRequest(sent[1])) \in Nat /\ Len(EncodeRequest(sent[1])) > LengthBytes
      BY <1>7, RequestFramed
    <2>2. Len(agent.buffer) \in Nat
      BY <1>2
    <2>3. CASE LengthBytes <= Len(agent.buffer)
      <3>1. LengthBytes + NumberAt(agent.buffer, LengthBytes) = Len(EncodeRequest(sent[1]))
        BY <1>2, <1>7, <2>3, Arrived
      <3>2. ~(Len(agent.buffer) >= Len(EncodeRequest(sent[1])))
        BY <1>1, <2>3, <3>1 DEF Complete
      <3> QED BY <2>1, <2>2, <3>2
    <2>4. CASE ~(LengthBytes <= Len(agent.buffer))
      BY <2>1, <2>2, <2>4, BaseIs
    <2> QED BY <2>3, <2>4
  <1>9. NotLeftWaiting'
    BY <1>1, <1>3, <1>8 DEF NotLeftWaiting
  <1>10. AgentInv'
    BY <1>1, <1>3, <1>6, <1>7, <1>9 DEF AgentInv
  <1> QED BY <1>4, <1>5, <1>10

-----------------------------------------------------------------------------
(* The handler, and what the agent sends                                   *)

\* A complete frame is the first request: its handler is called with what was sent.
LEMMA StepFrame ==
  ASSUME IInv, NEW a \in Answers, OnFrame(a)
  PROVE  IInv'
  <1> USE DEF IInv
  <1>1. /\ agent.at = "feed" /\ Complete(agent.buffer)
        /\ agent' = [at |-> "answer", buffer |-> <<>>]
        /\ UNCHANGED <<sent, up, out, torn, down, shut, reader>>
    BY DEF OnFrame
  <1>2. up \in Seq(Digit) /\ agent.buffer \in Seq(Digit) /\ sent \in Seq(Requests)
    BY BytesAre DEF TypeOK
  <1>3. Receiving /\ Untouched /\ sent # <<>>
    BY <1>1 DEF Receiving, AgentInv
  <1>4. PICK r \in Requests : r = sent[1] /\ Begins(EncodeRequest(r), agent.buffer \o up)
    BY <1>2, <1>3 DEF AgentInv
  <1>5. handled' = <<Seen(r)>>
    <2>1. LengthBytes <= Len(agent.buffer)
      BY <1>1, <1>2, BaseIs DEF Complete
    <2>2. LengthBytes + NumberAt(agent.buffer, LengthBytes) = Len(EncodeRequest(r))
      BY <1>2, <1>4, <2>1, Arrived
    <2>3. Len(EncodeRequest(r)) <= Len(agent.buffer)
      <3>1. Len(EncodeRequest(r)) \in Nat /\ Len(agent.buffer) \in Nat
        BY <1>2, RequestFramed
      <3> QED BY <1>1, <2>2, <3>1 DEF Complete
    <2>4. Taken(agent.buffer, LengthBytes + NumberAt(agent.buffer, LengthBytes)) = EncodeRequest(r)
      BY <1>2, <1>4, <2>1, <2>2, <2>3, Arrived
    <2>5. ParseRequest(Dropped(EncodeRequest(r), LengthBytes + HeaderSize)) = Seen(r)
      BY RequestFramed, ParsesRequest DEF HeaderSize
    <2>6. handled' = Append(handled, Seen(r))
      BY <2>4, <2>5 DEF OnFrame
    <2> QED BY <1>3, <2>6 DEF Untouched
  <1>6. Seen(r) \in [method : Bytes, uri : Bytes, body : Bytes]
    <2>1. r.method \in Seq(Digit) /\ r.uri \in Seq(Digit) /\ r.body \in Seq(Digit)
      BY RequestType
    <2>2. Taken(r.body, Len(r.body) % (Base * Base)) \in Seq(Digit)
      <3>1. PICK l \in Nat : l = Len(r.body)
        BY <2>1
      <3>2. l % (Base * Base) \in Nat /\ l % (Base * Base) <= l
        BY Remainder
      <3> QED BY <2>1, <3>1, <3>2, Split
    <2> QED BY <2>1, <2>2, BytesAre DEF Seen
  <1>7. Shape(frames')
    <2>1. CASE a.throws
      <3>1. frames' = <<EncodeError(1, a.chunks[1])>>
        BY <2>1 DEF OnFrame
      <3> QED BY <2>1, <3>1, AnswerShape
    <2>2. CASE ~a.throws
      <3>1. frames' = <<EncodeResponseHeaders(2)>>
                        \o [i \in DOMAIN a.chunks |-> EncodeResponseData(a.chunks[i])]
                        \o <<EncodeResponseEnd>>
        BY <2>2 DEF OnFrame
      <3> QED BY <2>2, <3>1, AnswerShape
    <2> QED BY <2>1, <2>2
  <1>8. frames' \in Seq(Bytes) /\ frames' # <<>>
    <2>1. CASE a.throws
      <3>1. frames' = <<EncodeError(1, a.chunks[1])>>
        BY <2>1 DEF OnFrame
      <3>2. PICK e : e = EncodeError(1, a.chunks[1]) /\ frames' = <<e>>
        BY <3>1
      <3>3. Len(frames') = 1 /\ frames'[1] = e
        BY <3>2
      <3>4. Framed(e, Types.error)
        <4>1. frames' # <<>> /\ ~(Len(frames') >= 2)
          BY <3>3
        <4> QED BY <1>7, <3>3, <4>1 DEF Shape
      <3>5. e \in Bytes
        <4>1. Types.error \in 1..5
          BY DEF Types
        <4> QED BY <3>4, <4>1, FramedIs, BytesAre
      <3> QED BY <3>2, <3>5
    <2>2. CASE ~a.throws
      <3>1. frames' = <<EncodeResponseHeaders(2)>>
                        \o [i \in DOMAIN a.chunks |-> EncodeResponseData(a.chunks[i])]
                        \o <<EncodeResponseEnd>>
        BY <2>2 DEF OnFrame
      <3>2. EncodeResponseHeaders(2) \in Bytes /\ EncodeResponseEnd \in Bytes
        <4>1. Types.headers \in 1..5 /\ Types.end \in 1..5
          BY DEF Types
        <4> QED BY <4>1, HeadersFramed, EndFramed, FramedIs, BytesAre
      <3>3. PICK n \in Nat : n = Len(a.chunks) /\ DOMAIN a.chunks = 1..n
        BY AnswerAssumption
      <3>4. PICK d : d = [i \in 1..n |-> EncodeResponseData(a.chunks[i])]
        OBVIOUS
      <3>5. \A i \in 1..n : EncodeResponseData(a.chunks[i]) \in Bytes
        <4>1. ASSUME NEW i \in 1..n PROVE EncodeResponseData(a.chunks[i]) \in Bytes
          <5>1. a.chunks \in Seq(Bytes)
            BY AnswerAssumption
          <5>2. a.chunks[i] \in Seq(Digit)
            BY <3>3, <5>1, BytesAre
          <5>3. Types.data \in 1..5
            BY DEF Types
          <5> QED BY <5>2, <5>3, FrameIs, BytesAre DEF EncodeResponseData
        <4> QED BY <4>1
      <3>6. d \in Seq(Bytes)
        BY <3>4, <3>5
      <3>7. PICK h, e : h = EncodeResponseHeaders(2) /\ e = EncodeResponseEnd /\ h \in Bytes /\ e \in Bytes
        BY <3>2
      <3>8. frames' = <<h>> \o d \o <<e>>
        BY <3>1, <3>3, <3>4, <3>7
      <3>9. PICK g : g = <<h>> \o d /\ g \in Seq(Bytes)
        BY <3>6, <3>7, Front
      <3>10. g \o <<e>> \in Seq(Bytes) /\ Len(g \o <<e>>) = Len(g) + 1
        BY <3>7, <3>9, Back
      <3>11. frames' = g \o <<e>> /\ Len(g) \in Nat
        BY <3>8, <3>9
      <3> QED BY <3>10, <3>11
    <2> QED BY <2>1, <2>2
  <1>9. TypeOK'
    <2>1. out' = 0 /\ torn' = None /\ Len(frames') \in Nat
      BY <1>1, <1>3, <1>8 DEF Untouched
    <2>2. agent' \in [at : {"select", "feed", "answer", "closed"}, buffer : Bytes]
      BY <1>1, BytesAre, EmptySeq
    <2>3. handled' \in Seq([method : Bytes, uri : Bytes, body : Bytes])
      BY <1>5, <1>6
    <2> QED BY <1>1, <1>8, <2>1, <2>2, <2>3 DEF TypeOK
  <1>10. ~Receiving' /\ agent'.at = "answer"
    BY <1>1 DEF Receiving
  <1>11. AgentInv'
    <2>1. Len(handled') = 1 /\ handled'[1] = Seen(sent'[1]) /\ sent' # <<>>
      BY <1>1, <1>3, <1>4, <1>5
    <2> QED BY <1>10, <2>1 DEF AgentInv, NotLeftWaiting
  <1>12. ReaderInv'
    <2>1. /\ frames = <<>> /\ out' = 0 /\ torn' = None /\ torn = None /\ down' = <<>> /\ reader' = reader
          /\ reader.got = <<>> /\ reader.len = None /\ reader.result # "ok"
      BY <1>1, <1>3 DEF Untouched
    <2>2. Limit' = 0
      BY <2>1 DEF Limit
    <2>3. PICK at : at = [j \in Nat |-> 0]
      OBVIOUS
    <2>4. at \in Places /\ at[0 + 1] = 0
      BY <2>3 DEF Places
    <2>5. InPlace(at, 0, frames', 0, <<>>)
      <3>1. \A j \in Nat : at[j] = 0
        BY <2>3
      <3>2. (0 + 1)..0 = {} /\ \A j \in (0 + 1)..(0 + 1) : j \in Nat
        OBVIOUS
      <3>3. \A j \in (0 + 1)..(0 + 1) : at[j] <= at[0 + 1]
        BY <3>1, <3>2
      <3> QED BY <3>2, <3>3 DEF InPlace
    <2>6. Len(<<>>) = 0 /\ 0 < Len(frames')
      BY <1>8
    <2>7. Stream(0, at)'
      BY <2>1, <2>2, <2>4, <2>5, <2>6 DEF Stream
    <2>8. 0 \in 0..Limit'
      BY <2>2
    <2>9. DOMAIN reader'.got = {}
      BY <2>1
    <2> QED BY <2>1, <2>4, <2>7, <2>8, <2>9 DEF ReaderInv
  <1> QED BY <1>7, <1>9, <1>11, <1>12

\* A frame sent whole follows the others; of a torn one nothing is promised.
LEMMA StepSends ==
  ASSUME IInv, AgentSends
  PROVE  IInv'
  <1> USE DEF IInv
  <1>1. /\ agent.at = "answer" /\ out < Len(frames) /\ out' = out + 1
        /\ UNCHANGED <<sent, up, agent, handled, frames, shut, reader>>
    BY DEF AgentSends
  <1>2. /\ frames \in Seq(Seq(Digit)) /\ down \in Seq(Digit) /\ out \in Nat /\ Len(frames) \in Nat
        /\ torn \in (1..Len(frames)) \cup {None} /\ None \notin Nat
    BY BytesAre, ProtocolAssumption DEF TypeOK
  <1>3. PICK f : f = frames[out + 1] /\ f \in Seq(Digit) /\ Len(f) \in Nat
    <2>1. out + 1 \in 1..Len(frames)
      BY <1>1, <1>2
    <2> QED BY <1>2, <2>1
  <1>4. PICK n \in 1..Len(f) : /\ n < Len(f) => torn = None
                               /\ torn' = IF n < Len(f) THEN out + 1 ELSE torn
                               /\ down' = down \o Taken(f, n)
    BY <1>3 DEF AgentSends
  <1>5. PICK t : t \in Seq(Digit) /\ t = Taken(f, n) /\ (n = Len(f) => t = f)
    <2>1. PICK m \in Nat : m = n /\ m <= Len(f)
      BY <1>3
    <2>2. Taken(f, m) \in Seq(Digit) /\ Len(Taken(f, m)) = m /\ \A i \in 1..m : Taken(f, m)[i] = f[i]
      BY <1>3, <2>1, Split
    <2>3. m = Len(f) => Taken(f, m) = f
      BY <1>3, <2>2, SeqEqual
    <2> QED BY <2>1, <2>2, <2>3
  <1>6. down' = down \o t /\ down' \in Seq(Digit) /\ Len(down') = Len(down) + Len(t)
        /\ Len(down) \in Nat /\ Len(t) \in Nat
    BY <1>2, <1>4, <1>5, Joined
  <1>7. torn' = None \/ torn' \in 1..Len(frames)
    BY <1>1, <1>2, <1>4
  <1>8. TypeOK'
    <2>1. out' \in 0..Len(frames)
      BY <1>1, <1>2
    <2>2. down' \in Bytes
      BY <1>6, BytesAre
    <2> QED BY <1>1, <1>7, <2>1, <2>2 DEF TypeOK
  <1>9. AgentInv'
    <2>1. ~Receiving'
      BY <1>1 DEF Receiving
    <2> QED BY <1>1, <2>1, AgentDone
  <1>10. \A i : Right(i)' <=> Right(i)
    BY <1>1 DEF Right
  <1>11. torn' = None \/ (torn' = out + 1 /\ torn = None) \/ torn' = torn
    BY <1>4
  <1>12. torn' = None => torn = None /\ n = Len(f)
    BY <1>2, <1>3, <1>4
  <1>13. ASSUME NEW k \in 0..Limit, NEW at \in Places, Stream(k, at)
         PROVE  \E b \in Places : k \in 0..Limit' /\ Stream(k, b)'
    <2>1. /\ at[k + 1] = (IF reader.len = None THEN 0 ELSE -LengthBytes)
          /\ InPlace(at, k, frames, Limit, down)
          /\ torn = None => Len(down) <= at[Limit + 1]
          /\ at[Limit + 1] <= Len(down)
          /\ reader.len # None => k < Limit /\ reader.len = Len(frames[k + 1]) - LengthBytes
          /\ frames # <<>> => k < Len(frames)
          /\ Len(reader.got) = IF k = 0 THEN 0 ELSE k - 1
      BY <1>1, <1>13 DEF Stream
    <2>2. Limit \in Nat /\ Limit <= Len(frames) /\ (torn = None => Limit = out) /\ at[Limit + 1] \in Int
      <3>1. Limit \in Nat /\ Limit <= Len(frames) /\ (torn = None => Limit = out)
        BY <1>1, <1>2 DEF Limit
      <3> QED BY <3>1 DEF Places
    <2>3. CASE torn' # None
      <3>1. Limit' = Limit
        BY <1>2, <1>4, <2>3 DEF Limit
      <3>2. InPlace(at, k, frames, Limit, down')
        BY <1>2, <1>5, <1>6, <2>1, <2>2, InPlaceTail
      <3>3. at[Limit + 1] <= Len(down')
        BY <1>6, <2>1, <2>2
      <3>4. Stream(k, at)'
        BY <1>1, <2>1, <2>3, <3>1, <3>2, <3>3 DEF Stream
      <3> QED BY <3>1, <3>4
    <2>4. CASE torn' = None
      <3>1. torn = None /\ t = f /\ Limit = out /\ at[out + 1] = Len(down)
        BY <1>5, <1>6, <1>12, <2>1, <2>2, <2>4
      <3>2. Limit' = out + 1
        BY <1>1, <2>4 DEF Limit
      <3>3. PICK b \in Places : /\ b[k + 1] = at[k + 1] /\ b[out + 2] = Len(down \o frames[out + 1])
                                /\ InPlace(b, k, frames, out + 1, down \o frames[out + 1])
        <4>1. out + 1 <= Len(frames) /\ k \in Nat /\ k <= out /\ InPlace(at, k, frames, out, down)
          BY <1>1, <1>2, <2>1, <3>1
        <4> QED BY <1>2, <3>1, <4>1, InPlaceNext
      <3>4. b[(out + 1) + 1] = Len(down') /\ InPlace(b, k, frames, out + 1, down')
        <4>1. (out + 1) + 1 = out + 2
          BY <1>2
        <4> QED BY <1>3, <1>6, <3>1, <3>3, <4>1
      <3>5. k \in 0..(out + 1) /\ (reader.len # None => k < out + 1)
        BY <1>2, <2>1, <3>1
      <3>6. Len(down') <= Len(down')
        BY <1>6
      <3>7. Stream(k, b)'
        BY <1>1, <2>1, <3>2, <3>3, <3>4, <3>5, <3>6 DEF Stream
      <3> QED BY <3>2, <3>5, <3>7
    <2> QED BY <2>3, <2>4
  <1>14. ReaderInv'
    <2>1. torn' # None => torn' <= out'
      BY <1>1, <1>2, <1>4 DEF ReaderInv
    <2>2. \A i \in DOMAIN reader'.got : torn' = None \/ i + 1 < torn' => Right(i)'
      BY <1>1, <1>10, <1>11, <1>12 DEF ReaderInv
    <2>3. torn' = None /\ reader'.result = "ok" => Len(reader'.got) = Len(frames') - 2
      BY <1>1, <1>12 DEF ReaderInv
    <2>4. Astray => Astray'
      BY <1>1, <1>2, <1>4 DEF Astray
    <2>5. reader'.result = "none" => Astray' \/ \E k \in 0..Limit', at \in Places : Stream(k, at)'
      BY <1>1, <1>13, <2>4 DEF ReaderInv
    <2> QED BY <2>1, <2>2, <2>3, <2>5 DEF ReaderInv
  <1> QED BY <1>1, <1>8, <1>9, <1>14

\* The end of the last frame lies before no byte that is there.
LEMMA EndNotBefore ==
  ASSUME TypeOK, NEW k \in 0..Limit, NEW at \in Places, Stream(k, at)
  PROVE  0 <= at[Limit + 1] /\ Limit \in Nat /\ Limit <= Len(frames)
  <1>1. /\ frames \in Seq(Seq(Digit)) /\ out \in Nat /\ out <= Len(frames) /\ Len(frames) \in Nat
        /\ torn \in (1..Len(frames)) \cup {None} /\ None \notin Nat
    BY BytesAre, ProtocolAssumption DEF TypeOK
  <1>2. Limit \in Nat /\ Limit <= Len(frames)
    BY <1>1 DEF Limit
  <1>3. /\ at[k + 1] = (IF reader.len = None THEN 0 ELSE -LengthBytes)
        /\ InPlace(at, k, frames, Limit, down)
        /\ reader.len # None => k < Limit /\ reader.len = Len(frames[k + 1]) - LengthBytes
    BY DEF Stream
  <1>4. \A j \in Nat : at[j] \in Int
    BY DEF Places
  <1>5. CASE reader.len = None
    <2>1. k + 1 \in (k + 1)..(Limit + 1)
      BY <1>2
    <2>2. at[k + 1] <= at[Limit + 1]
      BY <1>3, <2>1 DEF InPlace
    <2> QED BY <1>2, <1>3, <1>5, <2>2
  <1>6. CASE reader.len # None
    <2>1. k + 1 \in (k + 1)..Limit /\ k + 2 \in (k + 1)..(Limit + 1) /\ (k + 1) + 1 = k + 2
      BY <1>2, <1>3, <1>6
    <2>2. at[k + 2] = at[k + 1] + Len(frames[k + 1]) /\ at[k + 2] <= at[Limit + 1]
      BY <1>3, <2>1 DEF InPlace
    <2>3. reader.len \in Nat
      BY <1>6 DEF TypeOK
    <2>4. Len(frames[k + 1]) \in Nat
      BY <1>1, <1>2, <2>1
    <2>5. at[k + 2] \in Int /\ at[Limit + 1] \in Int /\ k + 2 \in Nat /\ at[k + 1] = -LengthBytes
      BY <1>2, <1>3, <1>4, <1>6
    <2>6. PICK l \in Nat : l = Len(frames[k + 1])
      BY <2>4
    <2>7. reader.len = l - LengthBytes /\ at[k + 2] = -LengthBytes + l
      BY <1>3, <1>6, <2>2, <2>5, <2>6
    <2>8. 0 <= at[k + 2]
      BY <2>3, <2>7, BaseIs
    <2> QED BY <1>2, <2>2, <2>5, <2>8
  <1> QED BY <1>5, <1>6

\* A close leaves what is on its way, or nothing.
LEMMA StepCloses ==
  ASSUME IInv, AgentCloses
  PROVE  IInv'
  <1> USE DEF IInv
  <1>1. /\ agent.at = "answer" /\ agent' = [agent EXCEPT !.at = "closed"] /\ shut' = TRUE /\ up' = <<>>
        /\ down' = down \/ down' = <<>>
        /\ UNCHANGED <<sent, handled, frames, out, torn, reader>>
    BY DEF AgentCloses
  <1>2. agent'.at = "closed"
    BY <1>1 DEF TypeOK
  <1>3. TypeOK'
    <2>1. down' \in Bytes /\ up' \in Bytes
      BY <1>1, BytesAre, EmptySeq DEF TypeOK
    <2>2. agent' \in [at : {"select", "feed", "answer", "closed"}, buffer : Bytes]
      BY <1>1 DEF TypeOK
    <2> QED BY <1>1, <2>1, <2>2 DEF TypeOK
  <1>4. AgentInv'
    <2>1. ~Receiving'
      BY <1>2 DEF Receiving
    <2> QED BY <1>1, <2>1, AgentDone
  <1>5. Limit' = Limit /\ (Astray' <=> Astray) /\ \A i : Right(i)' <=> Right(i)
    BY <1>1 DEF Limit, Astray, Right
  <1>6. ASSUME NEW k \in 0..Limit, NEW at \in Places, Stream(k, at) PROVE Stream(k, at)'
    <2>1. 0 <= at[Limit + 1] /\ Limit \in Nat
      BY <1>6, EndNotBefore
    <2>2. InPlace(at, k, frames, Limit, <<>>)
      BY <1>6, <2>1, InPlaceNone DEF Stream
    <2>3. InPlace(at, k, frames, Limit, down')
      BY <1>1, <1>6, <2>2 DEF Stream
    <2>4. torn = None => Len(down') <= at[Limit + 1]
      <3>1. Len(<<>>) = 0
        OBVIOUS
      <3> QED BY <1>1, <1>6, <2>1, <3>1 DEF Stream
    <2> QED BY <1>1, <1>2, <1>5, <1>6, <2>3, <2>4 DEF Stream
  <1>7. ReaderInv'
    BY <1>1, <1>5, <1>6 DEF ReaderInv
  <1> QED BY <1>1, <1>3, <1>4, <1>7

-----------------------------------------------------------------------------
(* The reader                                                              *)

\* Where a frame of a type may be.
LEMMA FrameTypes ==
  ASSUME NEW fs, Len(fs) \in Nat, Shape(fs), fs # <<>>, NEW j \in 1..Len(fs)
  PROVE  \E type \in 1..5 :
           /\ Framed(fs[j], type) /\ type \in {Types.headers, Types.data, Types.end, Types.error}
           /\ type = Types.headers => j = 1 /\ 2 <= Len(fs)
           /\ type = Types.data => j \in 2..(Len(fs) - 1)
           /\ type = Types.end => j = Len(fs) /\ 2 <= Len(fs)
  <1>1. /\ Types.headers = 2 /\ Types.data = 3 /\ Types.end = 4 /\ Types.error = 5
    BY DEF Types
  <1>2. CASE Len(fs) = 1 /\ Framed(fs[1], Types.error)
    <2>1. j = 1
      BY <1>2
    <2> QED BY <1>1, <1>2, <2>1
  <1>3. CASE /\ Len(fs) >= 2
             /\ Framed(fs[1], Types.headers) /\ Framed(fs[Len(fs)], Types.end)
             /\ \A i \in 2..(Len(fs) - 1) : Framed(fs[i], Types.data)
    <2>1. j = 1 \/ j = Len(fs) \/ j \in 2..(Len(fs) - 1)
      OBVIOUS
    <2>2. CASE j = 1
      BY <1>1, <1>3, <2>2
    <2>3. CASE j = Len(fs)
      BY <1>1, <1>3, <2>3
    <2>4. CASE j \in 2..(Len(fs) - 1)
      BY <1>1, <1>3, <2>4
    <2> QED BY <2>1, <2>2, <2>3, <2>4
  <1> QED BY <1>2, <1>3 DEF Shape

\* What the invariant says of the reader's place.
LEMMA ReaderAt ==
  ASSUME TypeOK, NEW k \in 0..Limit, NEW at \in Places, Stream(k, at)
  PROVE  /\ at[k + 1] = IF reader.len = None THEN 0 ELSE -LengthBytes
         /\ InPlace(at, k, frames, Limit, down)
         /\ torn = None => Len(down) <= at[Limit + 1]
         /\ agent.at = "answer" => at[Limit + 1] <= Len(down)
         /\ reader.len # None => k < Limit /\ reader.len = Len(frames[k + 1]) - LengthBytes
         /\ frames # <<>> => k < Len(frames)
         /\ Len(reader.got) = IF k = 0 THEN 0 ELSE k - 1
         /\ Limit \in Nat /\ Limit <= Len(frames) /\ k \in Nat /\ at[k + 1] \in Int /\ at[Limit + 1] \in Int
         /\ torn # None => torn \in Nat /\ Limit = torn - 1
  <1>1. Limit \in Nat /\ Limit <= Len(frames)
    BY EndNotBefore
  <1>2. torn # None => torn \in Nat
    BY ProtocolAssumption DEF TypeOK
  <1>3. k \in Nat /\ at[k + 1] \in Int /\ at[Limit + 1] \in Int
    BY <1>1 DEF Places
  <1> QED BY <1>1, <1>2, <1>3 DEF Stream, Limit

\* What the reader takes for a length is one, unless it is astray.
LEMMA StepLength ==
  ASSUME IInv, RecvLength
  PROVE  IInv'
  <1> USE DEF IInv
  <1>1. PICK len : len = NumberAt(down, LengthBytes)
    OBVIOUS
  <1>2. /\ reader.result = "none" /\ reader.len = None /\ LengthBytes <= Len(down)
        /\ reader' = IF len > MaxPayload THEN [reader EXCEPT !.result = "failed"]
                     ELSE [reader EXCEPT !.len = len]
        /\ down' = Dropped(down, LengthBytes)
        /\ UNCHANGED <<sent, up, agent, handled, frames, out, torn, shut>>
    <2>1. Len(down) \in Nat
      BY DEF TypeOK, Bytes
    <2> QED BY <1>1, <2>1, BaseIs DEF RecvLength
  <1>3. frames \in Seq(Seq(Digit)) /\ down \in Seq(Digit) /\ Len(frames) \in Nat /\ Len(down) \in Nat
    BY BytesAre DEF TypeOK
  <1>4. PICK d : /\ d \in Seq(Digit) /\ d = Dropped(down, LengthBytes) /\ Len(d) = Len(down) - LengthBytes
    BY <1>2, <1>3, BaseIs, Split
  <1>5. len \in Nat
    BY <1>1, <1>2, <1>3, BaseIs, NumberType
  <1>6. /\ reader'.got = reader.got
        /\ reader'.result = (IF len > MaxPayload THEN "failed" ELSE "none")
        /\ reader'.len = (IF len > MaxPayload THEN None ELSE len)
    BY <1>2 DEF TypeOK
  <1>7. TypeOK'
    <2>1. down' \in Bytes
      BY <1>2, <1>4, BytesAre
    <2>2. reader' \in [len : (0..MaxPayload) \cup {None}, got : Seq(Bytes),
                       result : {"none", "ok", "error", "failed"}]
      <3>1. CASE len > MaxPayload
        BY <1>2, <3>1 DEF TypeOK
      <3>2. CASE ~(len > MaxPayload)
        <4>1. len \in 0..MaxPayload
          BY <1>5, <3>2, ProtocolAssumption
        <4> QED BY <1>2, <3>2, <4>1 DEF TypeOK
      <3> QED BY <3>1, <3>2
    <2> QED BY <1>2, <2>1, <2>2 DEF TypeOK
  <1>8. AgentInv'
    <2>1. down # <<>>
      <3>1. Len(<<>>) = 0
        OBVIOUS
      <3> QED BY <1>2, <3>1, BaseIs
    <2>2. ~Receiving'
      BY <1>2, <2>1 DEF AgentInv, Untouched, Receiving
    <2> QED BY <1>2, <2>2, AgentDone
  <1>9. Limit' = Limit /\ (Astray' <=> Astray) /\ \A i : Right(i)' <=> Right(i)
    BY <1>2, <1>6 DEF Limit, Astray, Right
  <1>10. ASSUME NEW k \in 0..Limit, NEW at \in Places, Stream(k, at), ~(len > MaxPayload)
         PROVE  Astray \/ \E b \in Places : Stream(k, b)'
    <2>1. /\ at[k + 1] = 0 /\ InPlace(at, k, frames, Limit, down)
          /\ torn = None => Len(down) <= at[Limit + 1]
          /\ agent.at = "answer" => at[Limit + 1] <= Len(down)
          /\ frames # <<>> => k < Len(frames)
          /\ Len(reader.got) = (IF k = 0 THEN 0 ELSE k - 1)
          /\ Limit \in Nat /\ Limit <= Len(frames) /\ k \in Nat /\ at[Limit + 1] \in Int
          /\ torn # None => torn \in Nat /\ Limit = torn - 1
      BY <1>2, <1>10, ReaderAt
    <2>2. CASE k = Limit
      <3>1. torn # None
        BY <1>2, <1>3, <2>1, <2>2, BaseIs
      <3> QED BY <2>1, <2>2, <3>1 DEF Astray
    <2>3. CASE k # Limit
      <3>1. k < Limit /\ k + 1 \in 1..Len(frames) /\ frames # <<>> /\ k + 1 \in (k + 1)..Limit
        BY <1>3, <2>1, <2>3
      <3>2. PICK type \in 1..5 : Framed(frames[k + 1], type)
        BY <1>3, <3>1, FrameTypes
      <3>3. PICK f : /\ f = frames[k + 1] /\ f \in Seq(Digit) /\ Len(f) \in Nat /\ Len(f) > LengthBytes
                     /\ \A s \in Seq(Digit) : LengthBytes <= Len(s) /\ (\A i \in 1..LengthBytes : s[i] = f[i])
                          => NumberAt(s, LengthBytes) = Len(f) - LengthBytes
        BY <3>2, FramedIs
      <3>4. \A i \in 1..LengthBytes : down[i] = f[i]
        <4>1. ASSUME NEW i \in 1..LengthBytes PROVE down[i] = f[i]
          <5>1. i \in 1..Len(f) /\ 0 + i = i /\ i \in 1..Len(down)
            BY <1>2, <1>3, <3>3, BaseIs
          <5> QED BY <2>1, <3>1, <3>3, <5>1 DEF InPlace
        <4> QED BY <4>1
      <3>5. len = Len(f) - LengthBytes
        BY <1>1, <1>2, <1>3, <3>3, <3>4
      <3>6. PICK b : b = [j \in Nat |-> at[j] - LengthBytes]
        OBVIOUS
      <3>7. b \in Places /\ InPlace(b, k, frames, Limit, d)
        <4>1. k <= k /\ k <= Limit /\ LengthBytes \in Nat /\ LengthBytes <= Len(down)
          BY <1>2, <2>1, <3>1, BaseIs
        <4>2. /\ [j \in Nat |-> at[j] - LengthBytes] \in Places
              /\ InPlace([j \in Nat |-> at[j] - LengthBytes], k, frames, Limit, Dropped(down, LengthBytes))
          BY <1>3, <2>1, <4>1, InPlaceDropped
        <4> QED BY <1>4, <3>6, <4>2
      <3>8. b[k + 1] = -LengthBytes /\ b[Limit + 1] = at[Limit + 1] - LengthBytes
        BY <2>1, <3>6, BaseIs
      <3>9. /\ torn = None => Len(d) <= b[Limit + 1]
            /\ agent.at = "answer" => b[Limit + 1] <= Len(d)
        BY <1>3, <1>4, <2>1, <3>8, BaseIs
      <3>10. reader'.len = len /\ len # None /\ down' = d
        BY <1>2, <1>4, <1>5, <1>6, <1>10, ProtocolAssumption
      <3>11. Stream(k, b)'
        BY <1>2, <1>6, <1>9, <2>1, <3>1, <3>3, <3>5, <3>7, <3>8, <3>9, <3>10 DEF Stream
      <3> QED BY <3>7, <3>11
    <2> QED BY <2>2, <2>3
  <1>11. ReaderInv'
    <2>1. reader'.result = "none" => ~(len > MaxPayload)
      BY <1>6
    <2>2. reader'.result = "none" => Astray' \/ \E k \in 0..Limit', at \in Places : Stream(k, at)'
      BY <1>2, <1>9, <1>10, <2>1 DEF ReaderInv
    <2>3. reader'.result # "ok"
      BY <1>6
    <2> QED BY <1>2, <1>6, <1>9, <2>2, <2>3 DEF ReaderInv
  <1> QED BY <1>2, <1>7, <1>8, <1>11

\* A reader that gives up claims nothing.
LEMMA StepFails ==
  ASSUME IInv, RecvFails
  PROVE  IInv'
  <1> USE DEF IInv
  <1>1. /\ reader.result = "none" /\ reader' = [reader EXCEPT !.len = None, !.result = "failed"]
        /\ UNCHANGED <<sent, up, agent, handled, frames, out, torn, down, shut>>
    BY DEF RecvFails
  <1>2. reader'.got = reader.got /\ reader'.result = "failed" /\ reader'.len = None
    BY <1>1 DEF TypeOK
  <1>3. TypeOK'
    <2>1. reader' \in [len : (0..MaxPayload) \cup {None}, got : Seq(Bytes),
                       result : {"none", "ok", "error", "failed"}]
      BY <1>1 DEF TypeOK
    <2> QED BY <1>1, <2>1 DEF TypeOK
  <1>4. AgentInv'
    <2>1. Receiving' <=> Receiving
      BY <1>1 DEF Receiving
    <2>2. Untouched => Untouched'
      BY <1>1, <1>2 DEF Untouched
    <2>3. NotLeftWaiting'
      BY <1>1 DEF AgentInv, NotLeftWaiting
    <2> QED BY <1>1, <2>1, <2>2, <2>3 DEF AgentInv
  <1>5. ReaderInv'
    <2>1. \A i : Right(i)' <=> Right(i)
      BY <1>1, <1>2 DEF Right
    <2> QED BY <1>1, <1>2, <2>1 DEF ReaderInv
  <1> QED BY <1>1, <1>3, <1>4, <1>5

-----------------------------------------------------------------------------
(* The reader takes a payload                                              *)

\* What follows the length of a frame is its type and what the encoder was given.
LEMMA PayloadOf ==
  ASSUME NEW type \in 1..5, NEW f, Framed(f, type), NEW p \in Seq(Digit),
         Len(p) = Len(f) - LengthBytes, \A i \in 1..Len(p) : p[i] = f[LengthBytes + i]
  PROVE  /\ Len(p) >= 1 /\ p[1] = type
         /\ BuildFrame(type, Dropped(p, 1)) = f
  <1>1. /\ f \in Seq(Digit) /\ Len(f) \in Nat /\ Len(f) > LengthBytes /\ f[LengthBytes + 1] = type
        /\ f = BuildFrame(type, Dropped(f, LengthBytes + 1))
    BY FramedIs
  <1>2. Len(p) \in Nat /\ Len(p) >= 1 /\ 1 \in 1..Len(p)
    BY <1>1, BaseIs
  <1>3. p[1] = type
    BY <1>1, <1>2
  <1>4. PICK n \in Nat : n = LengthBytes + 1 /\ n <= Len(f)
    BY <1>1, BaseIs
  <1>5. PICK q : /\ q = Dropped(p, 1) /\ q \in Seq(Digit) /\ Len(q) = Len(p) - 1
                 /\ \A i \in 1..(Len(p) - 1) : q[i] = p[1 + i]
    <2>1. 1 \in Nat /\ 1 <= Len(p)
      BY <1>2
    <2>2. /\ Dropped(p, 1) \in Seq(Digit) /\ Len(Dropped(p, 1)) = Len(p) - 1
          /\ \A i \in 1..(Len(p) - 1) : Dropped(p, 1)[i] = p[1 + i]
      BY <2>1, Split
    <2> QED BY <2>2
  <1>6. PICK e : /\ e = Dropped(f, n) /\ e \in Seq(Digit) /\ Len(e) = Len(f) - n
                 /\ \A i \in 1..(Len(f) - n) : e[i] = f[n + i]
    <2>1. /\ Dropped(f, n) \in Seq(Digit) /\ Len(Dropped(f, n)) = Len(f) - n
          /\ \A i \in 1..(Len(f) - n) : Dropped(f, n)[i] = f[n + i]
      BY <1>1, <1>4, Split
    <2> QED BY <2>1
  <1>7. Len(q) = Len(e)
    BY <1>1, <1>2, <1>4, <1>5, <1>6, BaseIs
  <1>8. ASSUME NEW i \in 1..Len(q) PROVE q[i] = e[i]
    <2>1. /\ i \in 1..(Len(p) - 1) /\ i \in 1..(Len(f) - n) /\ 1 + i \in 1..Len(p)
          /\ LengthBytes + (1 + i) = n + i
      BY <1>1, <1>2, <1>4, <1>5, <1>6, <1>7, BaseIs
    <2> QED BY <1>5, <1>6, <2>1
  <1>9. q = e
    BY <1>5, <1>6, <1>7, <1>8, SeqEqual
  <1> QED BY <1>1, <1>2, <1>3, <1>4, <1>5, <1>6, <1>9

\* What the reader takes for a payload is that of the next frame, unless it is astray.
LEMMA StepPayload ==
  ASSUME IInv, RecvPayload
  PROVE  IInv'
  <1> USE DEF IInv
  <1>1. /\ reader.result = "none" /\ reader.len # None /\ Len(down) >= reader.len
        /\ UNCHANGED <<sent, up, agent, handled, frames, out, torn, shut>>
    BY DEF RecvPayload
  <1>2. /\ frames \in Seq(Seq(Digit)) /\ down \in Seq(Digit) /\ Len(frames) \in Nat /\ Len(down) \in Nat
        /\ reader.len \in Nat /\ None \notin Nat /\ reader.got \in Seq(Seq(Digit)) /\ Len(reader.got) \in Nat
        /\ reader.got \in Seq(Bytes)
    <2>1. reader.len \in Nat
      BY <1>1, ProtocolAssumption DEF TypeOK
    <2> QED BY <2>1, BytesAre, ProtocolAssumption DEF TypeOK
  <1>3. PICK len \in Nat : len = reader.len /\ len <= Len(down)
    BY <1>1, <1>2
  <1>4. PICK p : /\ p = Taken(down, len) /\ p \in Seq(Digit) /\ Len(p) = len
                 /\ \A i \in 1..len : p[i] = down[i]
    <2>1. /\ Taken(down, len) \in Seq(Digit) /\ Len(Taken(down, len)) = len
          /\ \A i \in 1..len : Taken(down, len)[i] = down[i]
      BY <1>2, <1>3, Split
    <2> QED BY <2>1
  <1>5. PICK d : d \in Seq(Digit) /\ d = Dropped(down, len) /\ Len(d) = Len(down) - len
    <2>1. Dropped(down, len) \in Seq(Digit) /\ Len(Dropped(down, len)) = Len(down) - len
      BY <1>2, <1>3, Split
    <2> QED BY <2>1
  <1>6. PICK type : type = (IF len < 1 THEN 0 ELSE p[1])
    OBVIOUS
  <1>7. PICK g : g = reader.got
    OBVIOUS
  <1>8. /\ down' = d
        /\ reader' = CASE type = Types.data ->
                            [[reader EXCEPT !.len = None] EXCEPT !.got = Append(@, ChunkOf(p))]
                       [] type = Types.end -> [[reader EXCEPT !.len = None] EXCEPT !.result = "ok"]
                       [] type = Types.error -> [[reader EXCEPT !.len = None] EXCEPT !.result = "error"]
                       [] OTHER -> [reader EXCEPT !.len = None]
    BY <1>3, <1>4, <1>5, <1>6 DEF RecvPayload, HeaderSize
  <1>9. Types.headers = 2 /\ Types.data = 3 /\ Types.end = 4 /\ Types.error = 5
    BY DEF Types
  <1>10. reader' = CASE type = 3 -> [len |-> None, got |-> Append(g, ChunkOf(p)), result |-> "none"]
                     [] type = 4 -> [len |-> None, got |-> g, result |-> "ok"]
                     [] type = 5 -> [len |-> None, got |-> g, result |-> "error"]
                     [] OTHER -> [len |-> None, got |-> g, result |-> "none"]
    <2>1. reader \in [len : (0..MaxPayload) \cup {None}, got : Seq(Bytes),
                      result : {"none", "ok", "error", "failed"}]
      BY DEF TypeOK
    <2>2. [reader EXCEPT !.len = None] = [len |-> None, got |-> g, result |-> "none"]
      BY <1>1, <1>7, <2>1
    <2>3. PICK next : next = [len |-> None, got |-> g, result |-> "none"]
      OBVIOUS
    <2>4. /\ [next EXCEPT !.got = Append(@, ChunkOf(p))]
             = [len |-> None, got |-> Append(g, ChunkOf(p)), result |-> "none"]
          /\ [next EXCEPT !.result = "ok"] = [len |-> None, got |-> g, result |-> "ok"]
          /\ [next EXCEPT !.result = "error"] = [len |-> None, got |-> g, result |-> "error"]
      <3>1. next.got = g
        BY <2>3
      <3>2. PICK more : more = Append(g, ChunkOf(p))
        OBVIOUS
      <3>3. [next EXCEPT !.got = more] = [len |-> None, got |-> more, result |-> "none"]
        BY <2>3
      <3>4. [next EXCEPT !.result = "ok"] = [len |-> None, got |-> g, result |-> "ok"]
        BY <2>3
      <3>5. [next EXCEPT !.result = "error"] = [len |-> None, got |-> g, result |-> "error"]
        BY <2>3
      <3>6. [next EXCEPT !.got = Append(@, ChunkOf(p))] = [next EXCEPT !.got = more]
        BY <3>1, <3>2
      <3> QED BY <3>2, <3>3, <3>4, <3>5, <3>6
    <2>5. reader' = CASE type = 3 -> [next EXCEPT !.got = Append(@, ChunkOf(p))]
                      [] type = 4 -> [next EXCEPT !.result = "ok"]
                      [] type = 5 -> [next EXCEPT !.result = "error"]
                      [] OTHER -> next
      BY <1>8, <1>9, <2>2, <2>3
    <2> QED BY <2>3, <2>4, <2>5
  <1>11. /\ reader'.len = None
         /\ reader'.got = (IF type = 3 THEN Append(g, ChunkOf(p)) ELSE g)
         /\ reader'.result = (IF type = 4 THEN "ok" ELSE IF type = 5 THEN "error" ELSE "none")
    <2>1. CASE type = 3
      BY <1>10, <2>1
    <2>2. CASE type = 4
      BY <1>10, <2>2
    <2>3. CASE type = 5
      BY <1>10, <2>3
    <2>4. CASE type \notin {3, 4, 5}
      BY <1>10, <2>4
    <2> QED BY <2>1, <2>2, <2>3, <2>4
  <1>12. type = 3 => len >= 1 /\ ChunkOf(p) = Dropped(p, 1) /\ ChunkOf(p) \in Seq(Digit)
    <2>1. ASSUME type = 3 PROVE len >= 1
      BY <1>3, <1>6, <2>1
    <2>2. ASSUME type = 3 PROVE Dropped(p, 1) \in Seq(Digit)
      BY <1>4, <2>1, <2>2, Split
    <2> QED BY <2>1, <2>2 DEF ChunkOf, HeaderSize
  <1>13. reader'.got \in Seq(Bytes) /\ Len(reader'.got) = (IF type = 3 THEN Len(g) + 1 ELSE Len(g))
         /\ Len(g) \in Nat /\ g \in Seq(Bytes)
         /\ \A i \in 1..Len(g) : reader'.got[i] = g[i]
    <2>1. CASE type = 3
      <3>1. PICK c : c = ChunkOf(p) /\ c \in Bytes
        BY <1>12, <2>1, BytesAre
      <3>2. reader'.got = Append(g, c)
        BY <1>11, <2>1, <3>1
      <3> QED BY <1>2, <1>7, <2>1, <3>1, <3>2
    <2>2. CASE type # 3
      BY <1>2, <1>7, <1>11, <2>2
    <2> QED BY <2>1, <2>2
  <1>14. TypeOK'
    <2>1. down' \in Bytes
      BY <1>5, <1>8, BytesAre
    <2>2. reader' \in [len : (0..MaxPayload) \cup {None}, got : Seq(Bytes),
                       result : {"none", "ok", "error", "failed"}]
      <3>1. CASE type = 3
        BY <1>10, <1>11, <1>13, <3>1
      <3>2. CASE type = 4
        BY <1>10, <1>13, <3>2
      <3>3. CASE type = 5
        BY <1>10, <1>13, <3>3
      <3>4. CASE type \notin {3, 4, 5}
        BY <1>10, <1>13, <3>4
      <3> QED BY <3>1, <3>2, <3>3, <3>4
    <2> QED BY <1>1, <2>1, <2>2 DEF TypeOK
  <1>15. AgentInv'
    <2>1. ~Receiving'
      BY <1>1 DEF AgentInv, Untouched, Receiving
    <2> QED BY <1>1, <2>1, AgentDone
  <1>16. Limit' = Limit
    BY <1>1 DEF Limit
  <1>17. Astray => Astray'
    <2>1. torn # None => torn \in Nat
      BY DEF TypeOK
    <2> QED BY <1>1, <1>7, <1>13, <2>1 DEF Astray
  <1>18. ASSUME NEW k \in 0..Limit, NEW at \in Places, Stream(k, at)
         PROVE  /\ type = 3 => Len(g) + 1 = k /\ Right(Len(g) + 1)'
                /\ type = 4 => Len(g) = Len(frames) - 2
                /\ type \notin {4, 5} => Astray' \/ \E m \in 0..Limit', b \in Places : Stream(m, b)'
    <2>1. /\ at[k + 1] = -LengthBytes /\ InPlace(at, k, frames, Limit, down)
          /\ torn = None => Len(down) <= at[Limit + 1]
          /\ agent.at = "answer" => at[Limit + 1] <= Len(down)
          /\ k < Limit /\ len = Len(frames[k + 1]) - LengthBytes
          /\ Len(g) = (IF k = 0 THEN 0 ELSE k - 1)
          /\ Limit \in Nat /\ Limit <= Len(frames) /\ k \in Nat /\ at[Limit + 1] \in Int
      BY <1>1, <1>3, <1>7, <1>18, ReaderAt
    <2>2. k + 1 \in 1..Len(frames) /\ frames # <<>> /\ k + 1 \in (k + 1)..Limit /\ k + 1 \in Nat
      BY <1>2, <2>1
    <2>3. PICK f : f = frames[k + 1] /\ f \in Seq(Digit) /\ Len(f) \in Nat
      BY <1>2, <2>2
    <2>4. PICK t \in 1..5 :
            /\ Framed(f, t) /\ t \in {2, 3, 4, 5}
            /\ t = 2 => k + 1 = 1 /\ 2 <= Len(frames)
            /\ t = 3 => k + 1 \in 2..(Len(frames) - 1)
            /\ t = 4 => k + 1 = Len(frames) /\ 2 <= Len(frames)
      BY <1>2, <1>9, <2>2, <2>3, FrameTypes
    <2>5. \A i \in 1..len : p[i] = f[LengthBytes + i]
      <3>1. ASSUME NEW i \in 1..len PROVE p[i] = f[LengthBytes + i]
        <4>1. LengthBytes + i \in 1..Len(f)
          BY <1>3, <2>1, <2>3, BaseIs
        <4>2. -LengthBytes + (LengthBytes + i) = i /\ i \in 1..Len(down)
          BY <1>2, <1>3, BaseIs
        <4>3. at[k + 1] + (LengthBytes + i) = i
          BY <2>1, <4>2
        <4>4. down[i] = f[LengthBytes + i]
          BY <2>1, <2>2, <2>3, <4>1, <4>2, <4>3 DEF InPlace
        <4> QED BY <1>4, <4>4
      <3> QED BY <3>1
    <2>6. len >= 1 /\ p[1] = t /\ BuildFrame(t, Dropped(p, 1)) = f
      BY <1>4, <2>1, <2>3, <2>4, <2>5, PayloadOf
    <2>7. type = t
      BY <1>3, <1>6, <2>6
    <2>8. ASSUME type = 3 PROVE Len(g) + 1 = k /\ Right(Len(g) + 1)'
      <3>1. k \in 1..(Len(frames) - 2) /\ Len(g) + 1 = k /\ k + 1 \in 2..(Len(frames) - 1)
        BY <1>2, <2>1, <2>4, <2>7, <2>8
      <3>2. reader'.got[Len(g) + 1] = Dropped(p, 1)
        <4>1. PICK c : c = ChunkOf(p) /\ c \in Bytes /\ c = Dropped(p, 1)
          BY <1>12, <2>8, BytesAre
        <4>2. reader'.got = Append(g, c)
          BY <1>11, <2>8, <4>1
        <4> QED BY <1>13, <4>1, <4>2
      <3>3. EncodeResponseData(Dropped(p, 1)) = frames[k + 1]
        BY <1>9, <2>3, <2>6, <2>7, <2>8 DEF EncodeResponseData
      <3> QED BY <1>1, <3>1, <3>2, <3>3 DEF Right
    <2>9. ASSUME type = 4 PROVE Len(g) = Len(frames) - 2
      BY <1>2, <2>1, <2>4, <2>7, <2>9
    <2>10. ASSUME type \notin {4, 5} PROVE \E m \in 0..Limit', b \in Places : Stream(m, b)'
      <3>1. t \in {2, 3}
        BY <2>4, <2>7, <2>10
      <3>2. PICK b : b = [j \in Nat |-> at[j] - len]
        OBVIOUS
      <3>3. k + 1 <= Limit /\ k <= k + 1
        BY <2>1
      <3>4. b \in Places /\ InPlace(b, k + 1, frames, Limit, d)
        <4>1. /\ [j \in Nat |-> at[j] - len] \in Places
              /\ InPlace([j \in Nat |-> at[j] - len], k + 1, frames, Limit, Dropped(down, len))
          BY <1>2, <1>3, <2>1, <2>2, <3>3, InPlaceDropped
        <4> QED BY <1>5, <3>2, <4>1
      <3>5. b[(k + 1) + 1] = 0
        <4>1. at[(k + 1) + 1] = at[k + 1] + Len(f)
          BY <2>1, <2>2, <2>3 DEF InPlace
        <4>2. (k + 1) + 1 \in Nat
          BY <2>1
        <4>3. b[(k + 1) + 1] = at[(k + 1) + 1] - len
          BY <3>2, <4>2
        <4>4. PICK l \in Nat : l = Len(f)
          BY <2>3
        <4>5. at[(k + 1) + 1] = -LengthBytes + l /\ len = l - LengthBytes
          BY <2>1, <2>3, <4>1, <4>4
        <4>6. at[(k + 1) + 1] - len = 0
          BY <4>5, BaseIs
        <4> QED BY <4>3, <4>6
      <3>6. b[Limit + 1] = at[Limit + 1] - len
        <4>1. Limit + 1 \in Nat
          BY <2>1
        <4> QED BY <3>2, <4>1
      <3>7. /\ torn = None => Len(d) <= b[Limit + 1]
            /\ agent.at = "answer" => b[Limit + 1] <= Len(d)
        <4>1. PICK z \in Int : z = at[Limit + 1]
          BY <2>1
        <4>2. Len(d) = Len(down) - len /\ b[Limit + 1] = z - len
          BY <1>5, <3>6, <4>1
        <4>3. (Len(down) <= z => Len(d) <= z - len) /\ (z <= Len(down) => z - len <= Len(d))
          BY <1>2, <4>2
        <4> QED BY <2>1, <4>1, <4>2, <4>3
      <3>8. k + 1 < Len(frames) /\ Len(reader'.got) = k
        <4>1. CASE t = 2
          BY <1>2, <1>13, <2>1, <2>4, <2>7, <4>1
        <4>2. CASE t = 3
          BY <1>2, <1>13, <2>1, <2>4, <2>7, <4>2
        <4> QED BY <3>1, <4>1, <4>2
      <3>9. Len(reader'.got) = IF k + 1 = 0 THEN 0 ELSE (k + 1) - 1
        BY <2>1, <3>8
      <3>10. down' = d /\ reader'.len = None
        BY <1>8, <1>11
      <3>11. Stream(k + 1, b)'
        BY <1>1, <1>16, <3>4, <3>5, <3>7, <3>8, <3>9, <3>10 DEF Stream
      <3>12. k + 1 \in 0..Limit'
        BY <1>16, <2>1
      <3> QED BY <3>4, <3>11, <3>12
    <2> QED BY <2>8, <2>9, <2>10
  <1>19. Astray \/ \E k \in 0..Limit, at \in Places : Stream(k, at)
    BY <1>1 DEF ReaderInv
  <1>20. ReaderInv'
    <2>1. torn' # None => torn' <= out'
      BY <1>1 DEF ReaderInv
    <2>2. ASSUME NEW i \in DOMAIN reader'.got, torn' = None \/ i + 1 < torn'
          PROVE  Right(i)'
      <3>1. CASE i \in 1..Len(g)
        <4>1. Right(i)
          BY <1>1, <1>7, <1>13, <2>2, <3>1 DEF ReaderInv
        <4>2. reader'.got[i] = reader.got[i]
          BY <1>7, <1>13, <3>1
        <4> QED BY <1>1, <4>1, <4>2 DEF Right
      <3>2. CASE i \notin 1..Len(g)
        <4>1. type = 3 /\ i = Len(g) + 1
          BY <1>13, <2>2, <3>2
        <4>2. ~Astray
          <5>1. torn # None => torn \in Nat
            BY DEF TypeOK
          <5> QED BY <1>1, <1>7, <1>13, <2>2, <4>1, <5>1 DEF Astray
        <4> QED BY <1>18, <1>19, <4>1, <4>2
      <3> QED BY <3>1, <3>2
    <2>3. ASSUME torn' = None, reader'.result = "ok" PROVE Len(reader'.got) = Len(frames') - 2
      <3>1. type = 4
        BY <1>11, <2>3
      <3>2. ~Astray
        BY <1>1, <2>3 DEF Astray
      <3> QED BY <1>1, <1>13, <1>18, <1>19, <3>1, <3>2
    <2>4. reader'.result = "none" => Astray' \/ \E k \in 0..Limit', at \in Places : Stream(k, at)'
      <3>1. reader'.result = "none" => type \notin {4, 5}
        BY <1>11
      <3> QED BY <1>17, <1>18, <1>19, <3>1
    <2> QED BY <2>1, <2>2, <2>3, <2>4 DEF ReaderInv
  <1> QED BY <1>1, <1>14, <1>15, <1>20

-----------------------------------------------------------------------------
(* The results                                                             *)

\* Every step preserves the invariant.
LEMMA NextIInv == IInv /\ [Next]_vars => IInv'
  <1> SUFFICES ASSUME IInv, [Next]_vars PROVE IInv'
    OBVIOUS
  <1>1. CASE \E r \in Requests : SendPacket(r)
    BY <1>1, StepSend
  <1>2. CASE \E n \in 1..RecvBytes : HandleClientData(n)
    BY <1>2, StepReceive
  <1>3. CASE NeedMore
    BY <1>3, StepNeedMore
  <1>4. CASE \E a \in Answers : OnFrame(a)
    BY <1>4, StepFrame
  <1>5. CASE AgentSends
    BY <1>5, StepSends
  <1>6. CASE AgentCloses
    BY <1>6, StepCloses
  <1>7. CASE RecvLength
    BY <1>7, StepLength
  <1>8. CASE RecvPayload
    BY <1>8, StepPayload
  <1>9. CASE RecvFails
    BY <1>9, StepFails
  <1>10. CASE UNCHANGED vars
    <2>1. UNCHANGED <<sent, up, agent, handled, frames, out, torn, down, shut, reader>>
      BY <1>10 DEF vars
    <2>2. TypeOK' /\ Shape(frames)'
      BY <2>1 DEF IInv, TypeOK
    <2>3. ReaderInv'
      BY <2>1, ReaderStays DEF IInv
    <2>4. AgentInv'
      BY <2>1 DEF IInv, AgentInv, Receiving, Untouched, NotLeftWaiting
    <2> QED BY <2>2, <2>3, <2>4 DEF IInv
  <1> QED BY <1>1, <1>2, <1>3, <1>4, <1>5, <1>6, <1>7, <1>8, <1>9, <1>10 DEF Next

\* So it holds always.
LEMMA Invariant == Spec => []IInv
  BY InitIInv, NextIInv, PTL DEF Spec

\* The invariant implies what the runs check.
LEMMA IInvImplies == IInv => RequestIntact /\ AnswerIntact /\ NotLeftWaiting
  <1> SUFFICES ASSUME IInv PROVE RequestIntact /\ AnswerIntact /\ NotLeftWaiting
    OBVIOUS
  <1>1. TypeOK /\ AgentInv /\ ReaderInv
    BY DEF IInv
  <1>2. RequestIntact
    <2>1. ASSUME NEW i \in DOMAIN handled PROVE handled[i] = Seen(sent[i])
      <3>1. handled # <<>> /\ i = 1
        <4>1. handled # <<>>
          OBVIOUS
        <4>2. Len(handled) = 1
          BY <1>1, <4>1 DEF AgentInv
        <4>3. handled \in Seq([method : Bytes, uri : Bytes, body : Bytes])
          BY <1>1 DEF TypeOK
        <4> QED BY <4>1, <4>2, <4>3
      <3> QED BY <1>1, <3>1 DEF AgentInv
    <2> QED BY <2>1 DEF RequestIntact, Seen
  <1>3. AnswerIntact
    <2>1. frames \in Seq(Bytes) /\ Len(frames) \in Nat /\ reader.got \in Seq(Bytes) /\ Len(reader.got) \in Nat
      BY <1>1 DEF TypeOK
    <2>2. ASSUME NEW i \in DOMAIN reader.got, torn = None \/ i + 1 < torn
          PROVE  EncodeResponseData(reader.got[i]) = DataFrames[i]
      <3>1. Right(i)
        BY <1>1, <2>2 DEF ReaderInv
      <3>2. i \in Nat /\ i \in 1..((Len(frames) - 1) - 2 + 1) /\ 2 + i - 1 = i + 1
        BY <2>1, <3>1 DEF Right
      <3>3. DataFrames[i] = frames[2 + i - 1]
        BY <2>1, <3>2 DEF DataFrames
      <3> QED BY <3>1, <3>2, <3>3 DEF Right
    <2>3. ASSUME torn = None, reader.result = "ok"
          PROVE  Len(reader.got) = Len(DataFrames)
      <3>1. Len(reader.got) = Len(frames) - 2
        BY <1>1, <2>3 DEF ReaderInv
      <3>2. PICK n \in Nat : n + 2 = Len(frames) /\ n = Len(reader.got)
        BY <2>1, <3>1
      <3>3. Len(frames) - 1 = n + 1 /\ DOMAIN frames = 1..(n + 2)
        BY <2>1, <3>2
      <3>4. Len(SubSeq(frames, 2, n + 1)) = n
        BY <2>1, <3>2, <3>3
      <3> QED BY <3>2, <3>3, <3>4 DEF DataFrames
    <2> QED BY <2>2, <2>3 DEF AnswerIntact
  <1>4. NotLeftWaiting
    BY <1>1 DEF AgentInv
  <1> QED BY <1>2, <1>3, <1>4

\* Every variable has its type, and no payload longer than MaxPayload is waited for.
THEOREM TypeCorrect == Spec => []TypeOK
  BY Invariant, PTL DEF IInv

\* protocol.cpp, agent_server.cpp: however recv cuts the stream, and whatever else the
\* gateway has sent, a handler is called with the method, the URI and the body of
\* the request; of a body that is too long for its 16 bits with the remainder.
THEOREM RequestIntactHolds == Spec => []RequestIntact
  <1>1. IInv => RequestIntact
    BY IInvImplies
  <1> QED BY <1>1, Invariant, PTL

\* agent_client.cpp, router.cpp: the chunks a handler has returned reach the router
\* unchanged and in order, up to a frame that a send has torn; without one the answer
\* is complete when it ends.
THEOREM AnswerIntactHolds == Spec => []AnswerIntact
  <1>1. IInv => AnswerIntact
    BY IInvImplies
  <1> QED BY <1>1, Invariant, PTL

\* protocol.hpp, try_decode: the agent does not wait for more when it has a whole request.
THEOREM NotLeftWaitingHolds == Spec => []NotLeftWaiting
  <1>1. IInv => NotLeftWaiting
    BY IInvImplies
  <1> QED BY <1>1, Invariant, PTL

-----------------------------------------------------------------------------
(* BufferPool                                                              *)

\* The inductive invariant: what release() appends is in no other place, because a
\* move takes the ownership along.
PoolInv == PoolTypeOK /\ NotShared /\ NotLost /\ DataIsOwned

\* At first every buffer is free.
LEMMA InitPoolInv == ASSUME NoBuffer \notin Bufs, PoolInit PROVE PoolInv
  <1>1. /\ handle \in [Handles -> Handle]
        /\ \A h \in Handles : ~Owns(h)
    BY DEF PoolInit, Dead, Empty, Handle, Owns
  <1> QED BY <1>1 DEF PoolInit, PoolInv, PoolTypeOK, NotShared, NotLost, DataIsOwned

\* The handles the code makes.
LEMMA HandleValues == Empty \in Handle /\ Dead \in Handle /\ \A b \in Bufs : Holding(b) \in Handle
  BY DEF Empty, Dead, Holding, Handle

\* What release() leaves when h owns a buffer: the buffer comes last, the rest stays.
LEMMA ReleasedList ==
  ASSUME PoolTypeOK, NEW h \in Handles, Owns(h)
  PROVE  /\ Released(h) \in Seq(Bufs)
         /\ Len(Released(h)) = Len(free_list) + 1
         /\ Released(h)[Len(free_list) + 1] = handle[h].index
         /\ \A i \in DOMAIN free_list : i \in DOMAIN Released(h) /\ Released(h)[i] = free_list[i]
         /\ \A i \in DOMAIN Released(h) : i \in DOMAIN free_list \/ i = Len(free_list) + 1
  <1>1. handle[h].index \in Bufs
    BY DEF PoolTypeOK, Handle, Owns
  <1> QED BY <1>1 DEF Released, PoolTypeOK

\* A handle that owns its buffer owns no longer, and its buffer is in the list.
LEMMA Release ==
  ASSUME PoolInv, NEW h \in Handles, free_list' = Released(h), handle' \in [Handles -> Handle],
         ~Owns(h)', \A g \in Handles \ {h} : Owns(g)' => Owns(g) /\ handle'[g] = handle[g],
         \A g \in Handles \ {h} : Owns(g) => Owns(g)' /\ handle'[g] = handle[g]
  PROVE  PoolInv'
  <1> USE DEF PoolInv
  <1>1. CASE ~Owns(h)
    <2>1. free_list' = free_list
      BY <1>1 DEF Released
    <2>2. \A g \in Handles : Owns(g)' <=> Owns(g)
      BY <1>1
    <2>3. \A g \in Handles : Owns(g) => handle'[g] = handle[g]
      BY <1>1
    <2> QED BY <2>1, <2>2, <2>3 DEF PoolTypeOK, NotShared, NotLost, DataIsOwned
  <1>2. CASE Owns(h)
    <2> DEFINE n == Len(free_list) + 1
               b == handle[h].index
    <2>0. n \in Nat /\ n \notin DOMAIN free_list
      BY DEF PoolTypeOK
    <2>1. /\ free_list' \in Seq(Bufs) /\ free_list'[n] = b /\ n \in DOMAIN free_list'
          /\ \A i \in DOMAIN free_list : i \in DOMAIN free_list' /\ free_list'[i] = free_list[i]
          /\ \A i \in DOMAIN free_list' : i \in DOMAIN free_list \/ i = n
      BY <1>2, <2>0, ReleasedList
    <2>2. PoolTypeOK'
      BY <2>1 DEF PoolTypeOK
    <2> HIDE DEF n
    <2>3. \A i, j \in DOMAIN free_list' : free_list'[i] = free_list'[j] => i = j
      BY <1>2, <2>1 DEF NotShared
    <2>4. ASSUME NEW g \in Handles, Owns(g)'
          PROVE  \A i \in DOMAIN free_list' : free_list'[i] # handle'[g].index
      <3>1. g # h /\ Owns(g) /\ handle'[g] = handle[g]
        BY <2>4
      <3> QED BY <1>2, <2>1, <3>1 DEF NotShared
    <2>5. NotShared'
      BY <2>3, <2>4 DEF NotShared
    <2>6. NotLost'
      BY <1>2, <2>1 DEF NotLost
    <2>7. DataIsOwned'
      BY DEF DataIsOwned
    <2> QED BY <2>2, <2>5, <2>6, <2>7
  <1> QED BY <1>1, <1>2

\* A move hands the ownership of g on to h, which owned nothing; the list stays.
LEMMA Move ==
  ASSUME PoolInv, NEW h \in Handles, NEW g \in Handles, h # g, ~Owns(h),
         UNCHANGED free_list, handle' = [handle EXCEPT ![h] = handle[g], ![g] = MovedFrom(g)]
  PROVE  PoolInv'
  <1> USE DEF PoolInv
  <1>1. PoolTypeOK'
    BY DEF PoolTypeOK, MovedFrom, Handle
  <1>2. handle'[h] = handle[g] /\ ~Owns(g)' /\ (Owns(h)' <=> Owns(g))
    BY DEF PoolTypeOK, MovedFrom, Handle, Owns
  <1>3. \A k \in Handles \ {h, g} : handle'[k] = handle[k] /\ (Owns(k)' <=> Owns(k))
    BY DEF PoolTypeOK, Owns
  <1>4. \A k \in Handles : Owns(k)' =>
           /\ k # g
           /\ k = h => Owns(g) /\ handle'[k] = handle[g]
           /\ k # h => Owns(k) /\ handle'[k] = handle[k]
    BY <1>2, <1>3
  <1>5. NotShared'
    <2>1. \A k \in Handles : Owns(k)' => \A i \in DOMAIN free_list : free_list[i] # handle'[k].index
      <3> SUFFICES ASSUME NEW k \in Handles, Owns(k)', NEW i \in DOMAIN free_list
                   PROVE  free_list[i] # handle'[k].index
        OBVIOUS
      <3>1. PICK m \in Handles : Owns(m) /\ handle'[k] = handle[m]
        BY <1>4
      <3> QED BY <3>1 DEF NotShared
    <2>2. \A k, m \in Handles : Owns(k)' /\ Owns(m)' /\ handle'[k].index = handle'[m].index => k = m
      BY <1>4 DEF NotShared
    <2> QED BY <2>1, <2>2 DEF NotShared
  <1>6. NotLost'
    <2> SUFFICES ASSUME NEW c \in Bufs, NEW k \in Handles, Owns(k), handle[k].index = c
                 PROVE  \E m \in Handles : Owns(m)' /\ handle'[m].index = c
      BY DEF NotLost
    <2>1. CASE k = g
      BY <1>2, <2>1
    <2>2. CASE k # g
      BY <1>3, <2>2
    <2> QED BY <2>1, <2>2
  <1>7. DataIsOwned'
    <2>1. \A k \in Handles : Owns(k)' => \E m \in Handles : Owns(m) /\ handle'[k] = handle[m]
      BY <1>2, <1>3
    <2> QED BY ZenonT(30), <2>1 DEF DataIsOwned
  <1> QED BY <1>1, <1>5, <1>6, <1>7

\* The buffer of h goes back and that of g comes to h, at once.
LEMMA MoveOntoOwner ==
  ASSUME PoolInv, NEW h \in Handles, NEW g \in Handles, h # g, Owns(h), MoveAssign(h, g)
  PROVE  PoolInv'
  <1> USE DEF PoolInv
  <1> DEFINE n == Len(free_list) + 1
             b == handle[h].index
  <1>0. n \in Nat /\ n \notin DOMAIN free_list
    BY DEF PoolTypeOK
  <1>1. /\ free_list' \in Seq(Bufs) /\ free_list'[n] = b /\ n \in DOMAIN free_list'
        /\ \A i \in DOMAIN free_list : i \in DOMAIN free_list' /\ free_list'[i] = free_list[i]
        /\ \A i \in DOMAIN free_list' : i \in DOMAIN free_list \/ i = n
    BY <1>0, ReleasedList DEF MoveAssign
  <1>2. PoolTypeOK'
    BY <1>1 DEF PoolTypeOK, MoveAssign, MovedFrom, Handle
  <1>3. handle'[h] = handle[g] /\ ~Owns(g)' /\ (Owns(h)' <=> Owns(g))
    BY DEF PoolTypeOK, MoveAssign, MovedFrom, Handle, Owns
  <1>4. \A k \in Handles \ {h, g} : handle'[k] = handle[k] /\ (Owns(k)' <=> Owns(k))
    BY DEF PoolTypeOK, MoveAssign, Owns
  <1> HIDE DEF n
  <1>5. \A i, j \in DOMAIN free_list' : free_list'[i] = free_list'[j] => i = j
    BY <1>1 DEF NotShared
  <1>6. \A k \in Handles : Owns(k)' =>
           /\ k # g
           /\ k = h => Owns(g) /\ handle'[k] = handle[g]
           /\ k # h => Owns(k) /\ handle'[k] = handle[k]
    BY <1>3, <1>4
  <1>7. \A k \in Handles : Owns(k)' => \A i \in DOMAIN free_list' : free_list'[i] # handle'[k].index
    <2> SUFFICES ASSUME NEW k \in Handles, Owns(k)', NEW i \in DOMAIN free_list'
                 PROVE  free_list'[i] # handle'[k].index
      OBVIOUS
    <2>1. PICK m \in Handles \ {h} : Owns(m) /\ handle'[k] = handle[m]
      BY <1>6 DEF Owns
    <2> QED BY <1>1, <2>1 DEF NotShared
  <1>8. NotShared'
    <2>1. \A k, m \in Handles : Owns(k)' /\ Owns(m)' /\ handle'[k].index = handle'[m].index => k = m
      BY <1>6 DEF NotShared
    <2> QED BY <1>5, <1>7, <2>1 DEF NotShared
  <1>9. NotLost'
    <2> SUFFICES ASSUME NEW c \in Bufs
                 PROVE  \/ \E i \in DOMAIN free_list' : free_list'[i] = c
                        \/ \E k \in Handles : Owns(k)' /\ handle'[k].index = c
      BY DEF NotLost
    <2>1. CASE \E i \in DOMAIN free_list : free_list[i] = c
      BY <1>1, <2>1
    <2>2. CASE \E k \in Handles : Owns(k) /\ handle[k].index = c
      BY <1>1, <1>3, <1>4, <2>2
    <2> QED BY <2>1, <2>2 DEF NotLost
  <1>10. DataIsOwned'
    BY <1>6 DEF DataIsOwned
  <1> QED BY <1>2, <1>8, <1>9, <1>10

\* Every step preserves the invariant.
LEMMA NextPoolInv == ASSUME NoBuffer \notin Bufs, PoolInv, [PoolNext]_pool_vars PROVE PoolInv'
  <1> USE DEF PoolInv
  <1>1. ASSUME NEW h \in Handles, Construct(h) \/ Destroy(h) PROVE PoolInv'
    <2>0. handle' \in [Handles -> Handle] /\ handle'[h] \in {Empty, Dead}
      BY <1>1, HandleValues DEF Construct, Destroy, PoolTypeOK
    <2>1. ~Owns(h)'
      BY <2>0 DEF Owns, Empty, Dead
    <2>2. \A g \in Handles \ {h} : handle'[g] = handle[g] /\ (Owns(g)' <=> Owns(g))
      BY <1>1 DEF Construct, Destroy, PoolTypeOK, Owns
    <2>3. free_list' = Released(h)
      BY <1>1 DEF Construct, Destroy, Released, Owns
    <2> QED BY <2>0, <2>1, <2>2, <2>3, Release
  <1>2. ASSUME NEW h \in Handles, Acquire(h) PROVE PoolInv'
    <2>1. ~Owns(h)
      BY <1>2 DEF Acquire, Owns
    <2>2. \A g \in Handles \ {h} : handle'[g] = handle[g] /\ (Owns(g)' <=> Owns(g))
      BY <1>2 DEF Acquire, PoolTypeOK, Owns
    <2>3. CASE free_list = <<>>
      <3>1. free_list' = free_list /\ handle' \in [Handles -> Handle] /\ handle'[h] = Empty
        BY <1>2, <2>3, HandleValues DEF Acquire, PoolTypeOK
      <3>2. ~Owns(h)'
        BY <3>1 DEF Owns, Empty
      <3> QED BY <2>1, <2>2, <3>1, <3>2, Release DEF Released
    <2>4. CASE free_list # <<>>
      <3> DEFINE n == Len(free_list)
                 b == free_list[n]
      <3>1. /\ free_list \in Seq(Bufs) /\ n \in Nat \ {0} /\ n \in DOMAIN free_list /\ b \in Bufs
            /\ free_list' = SubSeq(free_list, 1, n - 1)
            /\ handle' = [handle EXCEPT ![h] = Holding(b)]
        BY <1>2, <2>4 DEF Acquire, PoolTypeOK
      <3>2. /\ free_list' \in Seq(Bufs)
            /\ \A i \in DOMAIN free_list' : /\ i \in DOMAIN free_list /\ i # n
                                            /\ free_list'[i] = free_list[i]
            /\ \A i \in DOMAIN free_list : i = n \/ i \in DOMAIN free_list'
        BY <3>1
      <3>3. /\ handle' \in [Handles -> Handle] /\ Owns(h)'
            /\ handle'[h].index = b /\ handle'[h].data = b
        BY <3>1 DEF PoolTypeOK, Handle, Holding, Owns
      <3> HIDE DEF n, b
      <3>4. NotShared'
        BY <2>1, <2>2, <3>1, <3>2, <3>3 DEF NotShared, b
      <3>5. NotLost'
        BY <2>1, <2>2, <3>2, <3>3 DEF NotLost, b
      <3>6. DataIsOwned'
        BY <2>2, <3>3 DEF DataIsOwned
      <3> QED BY <3>2, <3>3, <3>4, <3>5, <3>6 DEF PoolTypeOK
    <2> QED BY <2>3, <2>4
  <1>3. ASSUME NEW h \in Handles, NEW g \in Handles, MoveConstruct(h, g) PROVE PoolInv'
    BY <1>3, Move DEF MoveConstruct, Owns
  <1>4. ASSUME NEW h \in Handles, NEW g \in Handles, MoveAssign(h, g) PROVE PoolInv'
    <2>1. CASE Owns(h)
      BY <1>4, <2>1, MoveOntoOwner DEF MoveAssign
    <2>2. CASE ~Owns(h)
      BY <1>4, <2>2, Move DEF MoveAssign, Released
    <2> QED BY <2>1, <2>2
  <1>5. CASE UNCHANGED pool_vars
    BY <1>5 DEF pool_vars, PoolTypeOK, NotShared, NotLost, DataIsOwned, Owns
  <1> QED BY <1>1, <1>2, <1>3, <1>4, <1>5 DEF PoolNext

-----------------------------------------------------------------------------
\* buffer_pool.hpp:41, ownership is unique: a buffer is in the free list once, or in
\* one handle that will give it back, and its data is reached through that one.
THEOREM BufferInOnePlace ==
  ASSUME NoBuffer \notin Bufs
  PROVE  PoolSpec => [](PoolTypeOK /\ NotShared /\ NotLost /\ DataIsOwned)
  <1>1. PoolInit => PoolInv
    BY InitPoolInv
  <1>2. PoolInv /\ [PoolNext]_pool_vars => PoolInv'
    BY NextPoolInv
  <1> QED BY <1>1, <1>2, PTL DEF PoolSpec, PoolInv
=============================================================================
