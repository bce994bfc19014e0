------------------------- MODULE ControlTunnelLemmas -------------------------
(***************************************************************************)
(* What AppendFrames of the store returns, for every response stream and   *)
(* every upload: it is defined by recursion over the upload, and a property*)
(* of it that failed would fail for a least beginning of the upload.       *)
(***************************************************************************)
EXTENDS ControlTunnelInvariant, TLAPS, WellFoundedInduction

(* A set of numbers that is not empty has a least one.                     *)
LEMMA Least == ASSUME NEW T \in SUBSET Nat, T # {} PROVE \E x \in T : \A y \in T : x <= y
<1> DEFINE R == {ss \in Nat \X Nat : ss[1] < ss[2]}
<1>1. IsWellFoundedOn(R, Nat)
  BY NatLessThanWellFounded DEF OpToRel
<1> HIDE DEF R
<1>2. \E x \in T : \A y \in T : ~ (<<y, x>> \in R)
  BY <1>1, WFMin
<1>3. \A x, y \in Nat : <<y, x>> \in R <=> y < x
  BY DEF R
<1>4. PICK x \in T : \A y \in T : ~ (<<y, x>> \in R)
  BY <1>2
<1>5. ASSUME NEW y \in T PROVE x <= y
  <2>1. x \in Nat /\ y \in Nat /\ ~ (<<y, x>> \in R)
    BY <1>4
  <2>2. ~ (y < x)
    BY <2>1, <1>3
  <2> QED
    BY <2>1, <2>2
<1> QED
  BY <1>4, <1>5

(* The function that AppendFrames is defined by exists.                    *)
Accumulates(f, m, old, new) ==
    f = [n \in 0 .. m |-> IF n = 0 THEN old ELSE AppendFrame(f[n - 1], new[n])]

LEMMA Defined ==
  ASSUME NEW m \in Nat, NEW old, NEW new
  PROVE  \E f : Accumulates(f, m, old, new)
<1> DEFINE Is(f, k) == f = [n \in 0 .. k |->
                                IF n = 0 THEN old ELSE AppendFrame(f[n - 1], new[n])]
           T == {k \in Nat : ~ \E f : Is(f, k)}
<1> SUFFICES T = {}
  BY DEF Accumulates
<1> SUFFICES ASSUME T # {} PROVE FALSE
  OBVIOUS
<1>1. PICK k \in T : \A j \in T : k <= j
  <2>1. T \in SUBSET Nat
    OBVIOUS
  <2> HIDE DEF T
  <2> QED
    BY <2>1, Least
<1>2. k # 0
  <2>1. Is([n \in 0 .. 0 |-> old], 0)
    OBVIOUS
  <2> QED
    BY <2>1
<1>3. k - 1 \in Nat /\ k - 1 \notin T
  BY <1>1, <1>2
<1>4. PICK f : Is(f, k - 1)
  BY <1>3
<1> DEFINE g == [n \in 0 .. k |-> IF n = k THEN AppendFrame(f[k - 1], new[k]) ELSE f[n]]
<1>5. \A n \in 0 .. k : g[n] = IF n = 0 THEN old ELSE AppendFrame(g[n - 1], new[n])
  <2>1. \A n \in 0 .. k - 1 : f[n] = IF n = 0 THEN old ELSE AppendFrame(f[n - 1], new[n])
    BY <1>4
  <2> QED
    BY <2>1, <1>1, <1>2
<1>6. Is(g, k)
  <2>1. g = [n \in 0 .. k |-> g[n]]
    OBVIOUS
  <2> HIDE DEF g
  <2>2. [n \in 0 .. k |-> g[n]] = [n \in 0 .. k |->
                                       IF n = 0 THEN old ELSE AppendFrame(g[n - 1], new[n])]
    BY <1>5
  <2> QED
    BY <2>1, <2>2
<1> QED
  BY <1>6, <1>1

(* AppendFrames is its last value.                                         *)
LEMMA Unfold ==
  ASSUME NEW old, NEW new, Len(new) \in Nat
  PROVE  \E f : /\ Accumulates(f, Len(new), old, new)
                /\ AppendFrames(old, new) = f[Len(new)]
<1> DEFINE f == CHOOSE g : Accumulates(g, Len(new), old, new)
<1>1. Accumulates(f, Len(new), old, new)
  BY Defined
<1>2. AppendFrames(old, new) = f[Len(new)]
  BY DEF AppendFrames, Accumulates
<1> HIDE DEF f
<1> QED
  BY <1>1, <1>2

(* To show P of all beginnings of an upload: P of none, and from one to the*)
(* next.  (As a set of numbers, since no operator can be a parameter.)     *)
LEMMA Steps ==
    ASSUME NEW m \in Nat, NEW P \in SUBSET Nat, 0 \in P,
           \A n \in 1 .. m : n - 1 \in P => n \in P
    PROVE  m \in P
<1> DEFINE T == {k \in 0 .. m : k \notin P}
<1> SUFFICES ASSUME T # {} PROVE FALSE
  OBVIOUS
<1>1. T \in SUBSET Nat
  OBVIOUS
<1>2. PICK k \in T : \A j \in T : k <= j
  <2> HIDE DEF T
  <2> QED
    BY <1>1, Least
<1>3. k \in 1 .. m
  BY <1>2
<1>4. k - 1 \notin T
  BY <1>2, <1>3
<1> QED
  BY <1>2, <1>3, <1>4

(* Nothing in the stream is touched, and what is added comes from the      *)
(* upload.                                                                 *)
LEMMA Appended ==
    ASSUME NEW old \in Seq(Frame), NEW new \in Seq(Frame)
    PROVE  /\ AppendFrames(old, new) \in Seq(Frame)
           /\ Len(old) <= Len(AppendFrames(old, new))
           /\ \A i \in 1 .. Len(old) : AppendFrames(old, new)[i] = old[i]
           /\ \A i \in Len(old) + 1 .. Len(AppendFrames(old, new)) :
                 \E j \in 1 .. Len(new) : AppendFrames(old, new)[i] = new[j]
<1>1. Len(new) \in Nat
  OBVIOUS
<1>2. PICK f : /\ f = [n \in 0 .. Len(new) |->
                           IF n = 0 THEN old ELSE AppendFrame(f[n - 1], new[n])]
               /\ AppendFrames(old, new) = f[Len(new)]
  BY <1>1, Unfold DEF Accumulates
<1> DEFINE Good(fs) == /\ fs \in Seq(Frame)
                       /\ Len(old) <= Len(fs)
                       /\ \A i \in 1 .. Len(old) : fs[i] = old[i]
                       /\ \A i \in Len(old) + 1 .. Len(fs) : \E j \in 1 .. Len(new) : fs[i] = new[j]
           P == {n \in 0 .. Len(new) : Good(f[n])}
<1>3. 0 \in P
  <2>1. f[0] = old
    BY <1>2
  <2> QED
    BY <2>1
<1>4. ASSUME NEW n \in 1 .. Len(new), n - 1 \in P PROVE n \in P
  <2>1. f[n] = AppendFrame(f[n - 1], new[n])
    BY <1>2
  <2>2. Good(f[n - 1]) /\ new[n] \in Frame
    BY <1>4
  <2>3. f[n] = f[n - 1] \/ f[n] = Append(f[n - 1], new[n])
    BY <2>1 DEF AppendFrame
  <2>4. ASSUME NEW fs \in Seq(Frame), Good(fs) PROVE Good(Append(fs, new[n]))
    <3>1. Append(fs, new[n]) \in Seq(Frame) /\ Len(Append(fs, new[n])) = Len(fs) + 1
      BY <2>2
    <3>2. ASSUME NEW i \in 1 .. Len(fs) + 1
          PROVE  Append(fs, new[n])[i] = IF i = Len(fs) + 1 THEN new[n] ELSE fs[i]
      BY <2>2
    <3>3. Len(fs) \in Nat /\ Len(old) \in Nat /\ Len(old) <= Len(fs)
      BY <2>4
    <3>4. \A i \in 1 .. Len(old) : Append(fs, new[n])[i] = old[i]
      BY <3>2, <3>3, <2>4
    <3>5. ASSUME NEW i \in Len(old) + 1 .. Len(fs) + 1
          PROVE  \E j \in 1 .. Len(new) : Append(fs, new[n])[i] = new[j]
      <4>1. CASE i = Len(fs) + 1
        BY <4>1, <3>2, <3>3
      <4>2. CASE i # Len(fs) + 1
        <5>1. i \in Len(old) + 1 .. Len(fs) /\ Append(fs, new[n])[i] = fs[i]
          BY <4>2, <3>2, <3>3, <3>5
        <5> QED
          BY <5>1, <2>4
      <4> QED
        BY <4>1, <4>2
    <3>6. Len(old) <= Len(Append(fs, new[n]))
      BY <3>1, <3>3
    <3>7. Len(old) + 1 .. Len(fs) + 1 = Len(old) + 1 .. Len(Append(fs, new[n]))
      BY <3>1
    <3> QED
      BY <3>1, <3>4, <3>5, <3>6, <3>7
  <2>5. Good(f[n])
    <3> HIDE DEF Good
    <3>1. f[n - 1] \in Seq(Frame)
      BY <2>2 DEF Good
    <3> QED
      BY <2>2, <2>3, <2>4, <3>1
  <2> QED
    BY <2>5
<1> QED
  <2> SUFFICES Len(new) \in P
    BY <1>2
  <2> HIDE DEF P
  <2>1. P \in SUBSET Nat
    BY DEF P
  <2> QED
    BY <1>1, <1>3, <1>4, <2>1, Steps

(* An upload of one frame.                                                 *)
LEMMA AppendedOne ==
    ASSUME NEW old, NEW f
    PROVE  AppendFrames(old, <<f>>) = AppendFrame(old, f)
<1> DEFINE new == <<f>>
<1>1. Len(new) \in Nat /\ Len(new) = 1 /\ new[1] = f
  OBVIOUS
<1> HIDE DEF new
<1>2. PICK g : /\ g = [n \in 0 .. Len(new) |->
                           IF n = 0 THEN old ELSE AppendFrame(g[n - 1], new[n])]
               /\ AppendFrames(old, new) = g[Len(new)]
  BY <1>1, Unfold DEF Accumulates
<1>3. g[0] = old /\ g[1] = AppendFrame(g[0], new[1])
  BY <1>1, <1>2
<1>4. AppendFrames(old, new) = AppendFrame(old, f)
  BY <1>1, <1>2, <1>3
<1> QED
  BY <1>4 DEF new

(* The first upload of a whole response is the response.                   *)
LEMMA AppendedWhole ==
    ASSUME NEW new \in Seq(Frame), Whole(new)
    PROVE  AppendFrames(<<>>, new) = new
<1>1. Len(new) \in Nat
  OBVIOUS
<1>2. PICK f : /\ f = [n \in 0 .. Len(new) |->
                           IF n = 0 THEN <<>> ELSE AppendFrame(f[n - 1], new[n])]
               /\ AppendFrames(<<>>, new) = f[Len(new)]
  BY <1>1, Unfold DEF Accumulates
<1> DEFINE Good(fs, n) == /\ fs \in Seq(Frame) /\ Len(fs) = n
                          /\ \A i \in 1 .. n : fs[i] = new[i]
           P == {n \in 0 .. Len(new) : Good(f[n], n)}
<1>3. 0 \in P
  <2>1. f[0] = <<>>
    BY <1>2
  <2>2. <<>> \in Seq(Frame) /\ Len(<<>>) = 0
    OBVIOUS
  <2>3. Good(f[0], 0)
    BY <2>1, <2>2
  <2> QED
    BY <2>3, <1>1
<1>4. ASSUME NEW n \in 1 .. Len(new), n - 1 \in P PROVE n \in P
  <2>1. f[n] = AppendFrame(f[n - 1], new[n])
    BY <1>2
  <2>2. Good(f[n - 1], n - 1) /\ new[n] \in Frame
    BY <1>4
  <2>3. <<new[n].life, new[n].seq>> \notin Ids(f[n - 1])
    <3>1. \A i \in 1 .. Len(new) : new[i].seq = i - 1
      BY DEF Whole, Begins
    <3>2. \A i \in 1 .. Len(f[n - 1]) : f[n - 1][i].seq = i - 1 /\ i < n
      <4>1. Len(f[n - 1]) = n - 1 /\ \A i \in 1 .. n - 1 : f[n - 1][i] = new[i]
        BY <2>2
      <4>2. \A i \in 1 .. n - 1 : i \in 1 .. Len(new) /\ i < n
        BY <1>1, <1>4
      <4> QED
        BY <4>1, <4>2, <3>1
    <3>3. \A i \in 1 .. Len(f[n - 1]) : f[n - 1][i].seq # new[n].seq
      BY <3>1, <3>2
    <3> QED
      BY <3>3 DEF Ids
  <2>4. f[n] = Append(f[n - 1], new[n])
    BY <2>1, <2>3 DEF AppendFrame
  <2>5. n \in Nat /\ Len(f[n - 1]) = n - 1 /\ f[n - 1] \in Seq(Frame)
    BY <1>1, <2>2
  <2>6. Append(f[n - 1], new[n]) \in Seq(Frame) /\ Len(Append(f[n - 1], new[n])) = n
    BY <2>2, <2>5
  <2>7. ASSUME NEW i \in 1 .. n PROVE Append(f[n - 1], new[n])[i] = new[i]
    <3>1. CASE i = n
      BY <2>5, <3>1
    <3>2. CASE i # n
      <4>1. i \in 1 .. n - 1
        BY <2>5, <3>2
      <4>2. Append(f[n - 1], new[n])[i] = f[n - 1][i]
        BY <2>5, <4>1, <2>2
      <4> QED
        BY <4>1, <4>2, <2>2
    <3> QED
      BY <3>1, <3>2
  <2>8. Good(f[n], n)
    BY <2>4, <2>6, <2>7
  <2> QED
    BY <2>8
<1>5. Len(new) \in P
  <2> HIDE DEF P
  <2>1. P \in SUBSET Nat
    BY DEF P
  <2> QED
    BY <1>1, <1>3, <1>4, <2>1, Steps
<1> QED
  BY <1>2, <1>5
=============================================================================
