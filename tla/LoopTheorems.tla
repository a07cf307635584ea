---------------------------- MODULE LoopTheorems ----------------------------
(***************************************************************************)
(* Induction over a loop of n rounds, for the definitions that follow a    *)
(* loop of the code (f[0] before it, f[k] after round k).  The induction   *)
(* theorems of the library speak of operators; these speak of sets and     *)
(* functions, and rest on the order of the naturals being well-founded.    *)
(***************************************************************************)
EXTENDS Integers, WellFoundedInduction, TLAPS

\* A set of naturals has a least element.
LEMMA Least ==
    ASSUME NEW T, T \subseteq Nat, T # {}
    PROVE  \E n \in T : \A m \in T : n <= m
<1>1. PICK n \in T : \A m \in T : ~ (<<m, n>> \in OpToRel(<, Nat))
    BY WFMin, NatLessThanWellFounded
<1>2. \A m \in T : m < n => <<m, n>> \in OpToRel(<, Nat)
    BY DEF OpToRel
<1>3. \A m \in T : n <= m
    <2> TAKE m \in T
    <2>1. m \in Nat /\ n \in Nat /\ ~(m < n)
        BY <1>1, <1>2
    <2> QED BY <2>1
<1> QED BY <1>3

\* What holds before the loop and is kept by every round holds throughout:
\* Good is the set of the rounds after which it holds.
LEMMA LoopInvariant ==
    ASSUME NEW n \in Nat, NEW Good,
           0 \in Good, \A k \in 1..n : k - 1 \in Good => k \in Good
    PROVE  \A k \in 0..n : k \in Good
<1> DEFINE Bad == {k \in 0..n : k \notin Good}
<1>1. SUFFICES ASSUME Bad # {} PROVE FALSE
    OBVIOUS
<1>2. PICK k \in Bad : \A m \in Bad : k <= m
    <2>1. Bad \subseteq Nat
        OBVIOUS
    <2> HIDE DEF Bad
    <2> QED BY <1>1, <2>1, Least
<1>3. k \in 1..n /\ k - 1 \in 0..n /\ k \notin Good
    BY <1>2
<1>4. k - 1 \in Good
    BY <1>2, <1>3
<1> QED BY <1>3, <1>4

\* f and g start alike and go on alike for n rounds.
Alike(f, g, n) == f[0] = g[0] /\ \A k \in 1..n : f[k - 1] = g[k - 1] => f[k] = g[k]

\* Two such functions are alike throughout.
LEMMA LoopSame ==
    ASSUME NEW n \in Nat, NEW f, NEW g, Alike(f, g, n)
    PROVE  \A k \in 0..n : f[k] = g[k]
<1> DEFINE Good == {k \in 0..n : f[k] = g[k]}
<1>1. 0 \in Good /\ \A k \in 1..n : k - 1 \in Good => k \in Good
    BY DEF Alike
<1>2. \A k \in 0..n : k \in Good
    <2> HIDE DEF Good
    <2> QED BY <1>1, LoopInvariant
<1> QED BY <1>2

\* Round k of a loop takes s to step[k][s]; f follows it for n rounds.
Rounds(n, S) == [1..n -> [S -> S]]

Follows(f, n, S, start, step) ==
    /\ f \in [0..n -> S] /\ f[0] = start
    /\ \A k \in 1..n : f[k] = step[k][f[k - 1]]

\* There is a function that follows the loop.
LEMMA LoopExists ==
    ASSUME NEW n \in Nat, NEW S, NEW start \in S, NEW step \in Rounds(n, S)
    PROVE  \E f : Follows(f, n, S, start, step)
<1> DEFINE Good == {m \in 0..n : \E f : Follows(f, m, S, start, step)}
<1>1. \E f : Follows(f, 0, S, start, step)
    <2>1. Follows([k \in 0..0 |-> start], 0, S, start, step)
        BY DEF Follows
    <2> QED BY <2>1
<1>2. ASSUME NEW m \in 1..n, NEW f, Follows(f, m - 1, S, start, step)
      PROVE  \E g : Follows(g, m, S, start, step)
    <2>1. step[m] \in [S -> S] /\ f[m - 1] \in S
        BY <1>2 DEF Follows, Rounds
    <2>2. PICK s \in S : s = step[m][f[m - 1]]
        BY <2>1
    <2> DEFINE g == [k \in 0..m |-> IF k = m THEN s ELSE f[k]]
    <2>3. g \in [0..m -> S] /\ g[0] = start
        BY <1>2, <2>2 DEF Follows
    <2>4. \A k \in 1..m : g[k] = step[k][g[k - 1]]
        <3> TAKE k \in 1..m
        <3>1. CASE k = m
            BY <2>2, <3>1
        <3>2. CASE k # m
            <4>1. g[k] = f[k] /\ g[k - 1] = f[k - 1] /\ k \in 1..(m - 1)
                BY <3>2
            <4> QED BY <1>2, <4>1 DEF Follows
        <3> QED BY <3>1, <3>2
    <2> HIDE DEF g
    <2>5. Follows(g, m, S, start, step)
        BY <2>3, <2>4 DEF Follows
    <2> QED BY <2>5
<1>3. 0 \in Good /\ \A m \in 1..n : m - 1 \in Good => m \in Good
    <2> QED BY <1>1, <1>2
<1>4. n \in Good
    <2> HIDE DEF Good
    <2>1. \A k \in 0..n : k \in Good
        BY <1>3, LoopInvariant
    <2> QED BY <2>1
<1> QED BY <1>4
=============================================================================
