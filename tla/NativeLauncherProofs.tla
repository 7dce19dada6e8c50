------------------------ MODULE NativeLauncherProofs ------------------------
(***************************************************************************)
(* Proofs about NativeLauncher: what the two parsers of command lines make   *)
(* of them, that values keep their types, that a launch starts one process   *)
(* and that the options arrive, for every set of arguments.                  *)
(***************************************************************************)
EXTENDS NativeLauncher, TLAPS, WellFoundedInduction, SequenceTheorems

-----------------------------------------------------------------------------
(***************************************************************************)
(* Recursion.  The parsers are functions defined from the end of the        *)
(* command line to its front.  That such a function exists, and what holds  *)
(* of all its values, is shown by looking at a least counterexample.        *)
(***************************************************************************)

\* The least element of a set of naturals.
LEMMA Least ==
  ASSUME NEW S, S \subseteq Nat, S # {}
  PROVE  \E n \in S : \A m \in S : n <= m
<1>1. PICK n \in S : \A m \in S : ~(<<m, n>> \in OpToRel(<, Nat))
  BY NatLessThanWellFounded, WFMin, Zenon
<1>2. \A m \in S : ~(m < n)
  BY <1>1 DEF OpToRel
<1> QED
  BY <1>2

\* The last place of a command line at which something holds.
LEMMA Last ==
  ASSUME NEW n \in Nat, NEW S, S \subseteq 1 .. n, S # {}
  PROVE  \E i \in S : \A j \in S : j <= i
<1> DEFINE R == {n - i : i \in S}
<1>1. R \subseteq Nat /\ R # {}
  <2>1. ASSUME NEW i \in S PROVE n - i \in Nat
    <3>1. i \in 1 .. n
      OBVIOUS
    <3> QED
      BY <3>1
  <2>2. \E i : i \in S
    OBVIOUS
  <2> QED
    BY <2>1, <2>2
<1>2. PICK m \in R : \A k \in R : m <= k
  BY <1>1, Least
<1>3. PICK i \in S : m = n - i
  BY <1>2
<1>4. ASSUME NEW j \in S PROVE j <= i
  <2>1. n - j \in R
    OBVIOUS
  <2>2. n - i <= n - j
    BY <2>1, <1>2, <1>3
  <2>3. i \in 1 .. n /\ j \in 1 .. n
    OBVIOUS
  <2> QED
    BY <2>2, <2>3
<1> QED
  BY <1>4

\* What holds of the last two places, and of every place of whose two successors
\* it holds, holds of all.
LEMMA BackwardInduction ==
  ASSUME NEW n \in Nat, NEW S, n + 1 \in S, n + 2 \in S,
         \A i \in 1 .. n : i + 1 \in S /\ i + 2 \in S => i \in S
  PROVE  \A i \in 1 .. n + 2 : i \in S
<1> DEFINE Bad == {i \in 1 .. n + 2 : i \notin S}
<1>1. ASSUME Bad # {} PROVE FALSE
  <2>1. PICK i \in Bad : \A j \in Bad : j <= i
    <3>1. Bad \subseteq 1 .. n + 2 /\ n + 2 \in Nat
      OBVIOUS
    <3> HIDE DEF Bad
    <3> QED
      BY <3>1, <1>1, Last
  <2>2. i \in 1 .. n + 2 /\ i \notin S
    OBVIOUS
  <2>3. i # n + 1 /\ i # n + 2
    BY <2>2
  <2>4. /\ i \in 1 .. n /\ i + 1 \in 1 .. n + 2 /\ i + 2 \in 1 .. n + 2
        /\ ~(i + 1 <= i) /\ ~(i + 2 <= i)
    BY <2>2, <2>3
  <2>5. i + 1 \in S /\ i + 2 \in S
    BY <2>1, <2>4
  <2> QED
    BY <2>2, <2>4, <2>5
<1> QED
  BY <1>1

\* A rule for places 1 to n that stays in R, and a function that follows it.
Closed(G, n, R) == \A i \in 1 .. n : \A x, y \in R : G[i][x][y] \in R

Follows(p, G, n, R, r) ==
  /\ p \in [1 .. n + 2 -> R]
  /\ p[n + 1] = r /\ p[n + 2] = r
  /\ \A i \in 1 .. n : p[i] = G[i][p[i + 1]][p[i + 2]]

\* A function is determined from its end to its front by a rule for each place
\* that looks one and two places further on.
LEMMA BackwardRecursion ==
  ASSUME NEW n \in Nat, NEW R, NEW r \in R, NEW G, Closed(G, n, R)
  PROVE  \E p : Follows(p, G, n, R, r)
<1> USE DEF Closed
<1> DEFINE Good(p, m) ==
             /\ p \in [1 .. n + 2 -> R]
             /\ p[n + 1] = r /\ p[n + 2] = r
             /\ \A i \in 1 .. n : i > n - m => p[i] = G[i][p[i + 1]][p[i + 2]]
           Bad == {m \in 0 .. n : ~ \E p : Good(p, m)}
<1>1. Bad \subseteq Nat /\ \A m \in Bad : m \in 0 .. n
  OBVIOUS
<1>2. \A m \in 0 .. n : m \notin Bad => \E p : Good(p, m)
  OBVIOUS
<1>3. \A m \in Bad : ~ \E p : Good(p, m)
  OBVIOUS
<1> HIDE DEF Bad
<1>4. ASSUME Bad # {} PROVE FALSE
  <2>1. PICK m \in Bad : \A k \in Bad : m <= k
    <3> HIDE DEF Good
    <3> QED
      BY <1>1, <1>4, Least
  <2>2. m # 0
    <3> DEFINE c == [i \in 1 .. n + 2 |-> r]
    <3>1. c \in [1 .. n + 2 -> R]
      OBVIOUS
    <3>2. n + 1 \in 1 .. n + 2 /\ n + 2 \in 1 .. n + 2
      OBVIOUS
    <3>3. c[n + 1] = r /\ c[n + 2] = r
      BY <3>2
    <3> HIDE DEF c
    <3>4. \A i \in 1 .. n : ~(i > n - 0)
      OBVIOUS
    <3>5. Good(c, 0)
      BY <3>1, <3>3, <3>4
    <3> HIDE DEF Good
    <3> QED
      BY <3>5, <1>3
  <2>3. m \in 1 .. n /\ m - 1 \in 0 .. n /\ m - 1 \notin Bad
    <3> HIDE DEF Good
    <3>1. m \in 0 .. n
      BY <1>1
    <3>2. m \in 1 .. n /\ m - 1 \in 0 .. n /\ ~(m <= m - 1)
      BY <3>1, <2>2
    <3> QED
      BY <3>2, <2>1
  <2>4. PICK p : Good(p, m - 1)
    <3> HIDE DEF Good
    <3> QED
      BY <1>2, <2>3
  <2> DEFINE i0 == n - m + 1
             q == [p EXCEPT ![i0] = G[i0][p[i0 + 1]][p[i0 + 2]]]
  <2>5. i0 \in 1 .. n /\ i0 + 1 \in 1 .. n + 2 /\ i0 + 2 \in 1 .. n + 2
    BY <2>3
  <2>6. p[i0 + 1] \in R /\ p[i0 + 2] \in R
    BY <2>4, <2>5
  <2>8. G[i0][p[i0 + 1]][p[i0 + 2]] \in R
    BY <2>5, <2>6
  <2>9. q \in [1 .. n + 2 -> R] /\ \A i \in 1 .. n + 2 : i # i0 => q[i] = p[i]
    BY <2>4, <2>8
  <2>10. q[i0] = G[i0][p[i0 + 1]][p[i0 + 2]]
    BY <2>4, <2>5
  <2> HIDE DEF q
  <2>11. ASSUME NEW i \in 1 .. n, i > n - m
         PROVE  q[i] = G[i][q[i + 1]][q[i + 2]]
    <3>1. q[i + 1] = p[i + 1] /\ q[i + 2] = p[i + 2]
      BY <2>3, <2>9, <2>11
    <3>2. CASE i = i0
      BY <2>10, <3>1, <3>2
    <3>3. CASE i # i0
      <4>1. i > n - (m - 1)
        BY <2>3, <2>11, <3>3
      <4> QED
        BY <2>4, <2>9, <3>1, <3>3, <4>1
    <3> QED
      BY <3>2, <3>3
  <2>12. q[n + 1] = r /\ q[n + 2] = r
    BY <2>4, <2>5, <2>9
  <2>13. Good(q, m)
    BY <2>9, <2>11, <2>12
  <2> HIDE DEF Good
  <2> QED
    BY <1>3, <2>1, <2>13
<1>5. PICK p : Good(p, n)
  <2> HIDE DEF Good
  <2>1. n \in 0 .. n
    OBVIOUS
  <2> QED
    BY <1>2, <1>4, <2>1
<1>6. \A i \in 1 .. n : i > n - n
  OBVIOUS
<1> QED
  BY <1>5, <1>6 DEF Follows


-----------------------------------------------------------------------------
(***************************************************************************)
(* What dropt_parse returns.                                                *)
(***************************************************************************)

Readings == [ok : BOOLEAN, help : BOOLEAN, vm : Tokens, rest : Tokens]

\* The empty command line, one token in front of another, and what is left of a
\* command line are command lines.
LEMMA TokensClosed ==
  /\ << >> \in Tokens
  /\ \A t \in Token, s \in Tokens : <<t>> \o s \in Tokens
  /\ \A s, u \in Tokens : s \o u \in Tokens
  /\ \A s \in Tokens : \A i \in 1 .. Len(s) + 1 : From(s, i) \in Tokens
  /\ \A s \in Tokens : Len(s) \in Nat /\ s \in [1 .. Len(s) -> Token]
<1>1. << >> \in Tokens
  BY DEF Tokens
<1>2. ASSUME NEW t \in Token, NEW s \in Tokens PROVE <<t>> \o s \in Tokens
  BY <1>2 DEF Tokens
<1>3. ASSUME NEW s \in Tokens, NEW u \in Tokens PROVE s \o u \in Tokens
  BY <1>3 DEF Tokens
<1>4. ASSUME NEW s \in Tokens, NEW i \in 1 .. Len(s) + 1 PROVE From(s, i) \in Tokens
  BY <1>4, SubSeqProperties DEF Tokens, From
<1>5. ASSUME NEW s \in Tokens PROVE Len(s) \in Nat /\ s \in [1 .. Len(s) -> Token]
  BY <1>5 DEF Tokens
<1> QED
  BY <1>1, <1>2, <1>3, <1>4, <1>5

\* A step of the parser makes a result of results.
LEMMA DroptStepTyped ==
  ASSUME NEW s \in Tokens, NEW i \in 1 .. Len(s) + 2, NEW one, NEW two,
         i <= Len(s) => one \in Readings /\ two \in Readings
  PROVE  DroptStep(s, i, one, two) \in Readings
<1>1. Reading \in Readings
  BY TokensClosed DEF Reading, Readings
<1>2. \A r \in Readings, u \in Tokens :
        /\ [r EXCEPT !.rest = u] \in Readings /\ [r EXCEPT !.vm = u] \in Readings
        /\ r.vm \in Tokens /\ r.rest \in Tokens
  BY DEF Readings
<1>3. \A r \in Readings : /\ [r EXCEPT !.help = TRUE] \in Readings
                          /\ [r EXCEPT !.ok = FALSE] \in Readings
  BY DEF Readings
<1>4. Len(s) \in Nat
  BY TokensClosed
<1>5. CASE i > Len(s)
  BY <1>1, <1>5 DEF DroptStep
<1>6. CASE i <= Len(s)
  <2>1. one \in Readings /\ two \in Readings
    BY <1>6
  <2>2. From(s, i) \in Tokens /\ From(s, i + 1) \in Tokens
    BY <1>4, <1>6, TokensClosed
  <2>3. ASSUME i < Len(s) PROVE <<s[i + 1]>> \o two.vm \in Tokens
    <3>1. i + 1 \in 1 .. Len(s) /\ s \in [1 .. Len(s) -> Token]
      BY <1>4, <2>3, TokensClosed
    <3>2. s[i + 1] \in Token
      BY <3>1
    <3> QED
      BY <3>2, <2>1, <1>2, TokensClosed
  <2>4. ASSUME i < Len(s) PROVE [two EXCEPT !.vm = <<s[i + 1]>> \o @] \in Readings
    BY <2>1, <2>3, <2>4, <1>2
  <2>5. [Reading EXCEPT !.rest = From(s, i)] \in Readings
    BY <2>2, <1>1, <1>2
  <2>6. [Reading EXCEPT !.rest = From(s, i + 1)] \in Readings
    BY <2>2, <1>1, <1>2
  <2>7. /\ [Reading EXCEPT !.help = TRUE] \in Readings
        /\ [Reading EXCEPT !.ok = FALSE] \in Readings
    BY <1>1, <1>3
  <2> QED
    BY <1>4, <1>6, <2>1, <2>4, <2>5, <2>6, <2>7 DEF DroptStep
<1> QED
  BY <1>4, <1>5, <1>6

\* dropt_parse is what its step makes of what it makes of the rest.
LEMMA DroptRecursion ==
  ASSUME NEW s \in Tokens
  PROVE  \E p \in [1 .. Len(s) + 2 -> Readings] :
           /\ Dropt(s) = p[1]
           /\ \A i \in 1 .. Len(s) + 2 : p[i] = DroptStep(s, i, p[i + 1], p[i + 2])
<1> DEFINE n == Len(s)
           F(q) == [i \in 1 .. n + 2 |-> DroptStep(s, i, q[i + 1], q[i + 2])]
           Q == CHOOSE q : q = F(q)
           G == [i \in 1 .. n |-> [one \in Readings |-> [two \in Readings |->
                   DroptStep(s, i, one, two)]]]
<1>1. n \in Nat
  BY TokensClosed
<1>2. Reading \in Readings
  BY TokensClosed DEF Reading, Readings
<1>3. \A i \in 1 .. n + 2 : i > n => \A one, two : DroptStep(s, i, one, two) = Reading
  BY DEF DroptStep
<1>4. \A i \in 1 .. n : \A one, two \in Readings :
        G[i][one][two] = DroptStep(s, i, one, two)
  OBVIOUS
<1>5. Closed(G, n, Readings)
  BY <1>1, <1>4, DroptStepTyped DEF Closed
<1> HIDE DEF G, n
<1>6. PICK p : Follows(p, G, n, Readings, Reading)
  BY <1>1, <1>2, <1>5, BackwardRecursion
<1> USE DEF Follows
<1>7. ASSUME NEW i \in 1 .. n + 2 PROVE p[i] = DroptStep(s, i, p[i + 1], p[i + 2])
  <2>1. CASE i \in 1 .. n
    <3>1. p[i + 1] \in Readings /\ p[i + 2] \in Readings
      BY <1>1, <1>6, <2>1
    <3> QED
      BY <1>4, <1>6, <2>1, <3>1
  <2>2. CASE i \notin 1 .. n
    <3>1. i > n /\ (i = n + 1 \/ i = n + 2)
      BY <1>1, <1>7, <2>2
    <3> QED
      BY <1>3, <1>6, <1>7, <3>1
  <2> QED
    BY <2>1, <2>2
<1>8. p = F(p)
  BY <1>6, <1>7
<1>9. Q = F(Q)
  <2> HIDE DEF F
  <2> QED
    BY <1>8
<1>10. Dropt(s) = Q[1]
  BY DEF Dropt, n
<1> HIDE DEF Q
<1>11. \A i \in 1 .. n + 2 : Q[i] = DroptStep(s, i, Q[i + 1], Q[i + 2])
  BY <1>9
<1>12. DOMAIN Q = 1 .. n + 2 /\ Q = [i \in 1 .. n + 2 |-> Q[i]]
  <2>1. \A q : F(q) = [i \in 1 .. n + 2 |-> F(q)[i]] /\ DOMAIN F(q) = 1 .. n + 2
    OBVIOUS
  <2> HIDE DEF F
  <2> QED
    BY <1>9, <2>1
<1> HIDE DEF F
<1> DEFINE S == {i \in 1 .. n + 2 : Q[i] \in Readings}
<1>13. \A i \in 1 .. n + 2 : i \in S
  <2>1. n + 1 \in S /\ n + 2 \in S
    <3>1. /\ n + 1 \in 1 .. n + 2 /\ n + 1 > n
          /\ n + 2 \in 1 .. n + 2 /\ n + 2 > n
      BY <1>1
    <3> QED
      BY <3>1, <1>2, <1>3, <1>11
  <2>2. ASSUME NEW i \in 1 .. n, i + 1 \in S, i + 2 \in S PROVE i \in S
    <3>1. i \in 1 .. n + 2
      BY <1>1
    <3>2. DroptStep(s, i, Q[i + 1], Q[i + 2]) \in Readings
      BY <3>1, <2>2, DroptStepTyped DEF n
    <3> QED
      BY <3>1, <3>2, <1>11
  <2> HIDE DEF S
  <2> QED
    BY <1>1, <2>1, <2>2, BackwardInduction
<1>14. Q \in [1 .. n + 2 -> Readings]
  BY <1>12, <1>13
<1> QED
  BY <1>10, <1>11, <1>14 DEF n

Choices == [ok : BOOLEAN, help : BOOLEAN, configure : BOOLEAN, classpath : BOOLEAN,
            jvm : Tokens, client : Tokens]

\* A step of main's parser makes a result of results.
LEMMA OptionsStepTyped ==
  ASSUME NEW s \in Tokens, NEW i \in 1 .. Len(s) + 2, NEW one, NEW two,
         i <= Len(s) => one \in Choices /\ two \in Choices
  PROVE  OptionsStep(s, i, one, two) \in Choices
<1>1. None \in Choices
  BY TokensClosed DEF None, Choices
<1>2. \A r \in Choices, u \in Tokens :
        /\ [r EXCEPT !.client = u] \in Choices /\ [r EXCEPT !.jvm = u] \in Choices
        /\ r.jvm \in Tokens /\ r.client \in Tokens
  BY DEF Choices
<1>3. \A r \in Choices :
        /\ [r EXCEPT !.help = TRUE] \in Choices /\ [r EXCEPT !.ok = FALSE] \in Choices
        /\ [r EXCEPT !.configure = TRUE] \in Choices
        /\ [r EXCEPT !.classpath = TRUE] \in Choices
  BY DEF Choices
<1>4. Len(s) \in Nat
  BY TokensClosed
<1>5. CASE i > Len(s)
  BY <1>1, <1>5 DEF OptionsStep
<1>6. CASE i <= Len(s)
  <2>1. one \in Choices /\ two \in Choices
    BY <1>6
  <2>2. From(s, i + 1) \in Tokens
    BY <1>4, <1>6, TokensClosed
  <2>3. ASSUME i < Len(s) PROVE <<s[i + 1]>> \o two.jvm \in Tokens
    <3>1. i + 1 \in 1 .. Len(s) /\ s \in [1 .. Len(s) -> Token]
      BY <1>4, <2>3, TokensClosed
    <3>2. s[i + 1] \in Token
      BY <3>1
    <3> QED
      BY <3>2, <2>1, <1>2, TokensClosed
  <2>4. ASSUME i < Len(s) PROVE [two EXCEPT !.jvm = <<s[i + 1]>> \o @] \in Choices
    BY <2>1, <2>3, <2>4, <1>2
  <2>5. [None EXCEPT !.client = From(s, i + 1)] \in Choices
    BY <2>2, <1>1, <1>2
  <2>6. <<s[i]>> \o one.client \in Tokens
    <3>1. i \in 1 .. Len(s) /\ s \in [1 .. Len(s) -> Token]
      BY <1>4, <1>6, TokensClosed
    <3>2. s[i] \in Token
      BY <3>1
    <3> QED
      BY <3>2, <2>1, <1>2, TokensClosed
  <2>7. [one EXCEPT !.client = <<s[i]>> \o @] \in Choices
    BY <2>1, <2>6, <1>2
  <2>8. /\ [one EXCEPT !.help = TRUE] \in Choices
        /\ [one EXCEPT !.configure = TRUE] \in Choices
        /\ [two EXCEPT !.classpath = TRUE] \in Choices
        /\ [None EXCEPT !.ok = FALSE] \in Choices
    BY <2>1, <1>1, <1>3
  <2> QED
    BY <1>4, <1>6, <2>1, <2>4, <2>5, <2>7, <2>8 DEF OptionsStep
<1> QED
  BY <1>4, <1>5, <1>6

\* So is the parser of Launcher.main.
LEMMA OptionsRecursion ==
  ASSUME NEW s \in Tokens
  PROVE  \E p \in [1 .. Len(s) + 2 -> Choices] :
           /\ Options(s) = p[1]
           /\ \A i \in 1 .. Len(s) + 2 : p[i] = OptionsStep(s, i, p[i + 1], p[i + 2])
<1> DEFINE n == Len(s)
           F(q) == [i \in 1 .. n + 2 |-> OptionsStep(s, i, q[i + 1], q[i + 2])]
           Q == CHOOSE q : q = F(q)
           G == [i \in 1 .. n |-> [one \in Choices |-> [two \in Choices |->
                   OptionsStep(s, i, one, two)]]]
<1>1. n \in Nat
  BY TokensClosed
<1>2. None \in Choices
  BY TokensClosed DEF None, Choices
<1>3. \A i \in 1 .. n + 2 : i > n => \A one, two : OptionsStep(s, i, one, two) = None
  BY DEF OptionsStep
<1>4. \A i \in 1 .. n : \A one, two \in Choices :
        G[i][one][two] = OptionsStep(s, i, one, two)
  OBVIOUS
<1>5. Closed(G, n, Choices)
  BY <1>1, <1>4, OptionsStepTyped DEF Closed
<1> HIDE DEF G, n
<1>6. PICK p : Follows(p, G, n, Choices, None)
  BY <1>1, <1>2, <1>5, BackwardRecursion
<1> USE DEF Follows
<1>7. ASSUME NEW i \in 1 .. n + 2 PROVE p[i] = OptionsStep(s, i, p[i + 1], p[i + 2])
  <2>1. CASE i \in 1 .. n
    <3>1. p[i + 1] \in Choices /\ p[i + 2] \in Choices
      BY <1>1, <1>6, <2>1
    <3> QED
      BY <1>4, <1>6, <2>1, <3>1
  <2>2. CASE i \notin 1 .. n
    <3>1. i > n /\ (i = n + 1 \/ i = n + 2)
      BY <1>1, <1>7, <2>2
    <3> QED
      BY <1>3, <1>6, <1>7, <3>1
  <2> QED
    BY <2>1, <2>2
<1>8. p = F(p)
  BY <1>6, <1>7
<1>9. Q = F(Q)
  <2> HIDE DEF F
  <2> QED
    BY <1>8
<1>10. Options(s) = Q[1]
  BY DEF Options, n
<1> HIDE DEF Q
<1>11. \A i \in 1 .. n + 2 : Q[i] = OptionsStep(s, i, Q[i + 1], Q[i + 2])
  BY <1>9
<1>12. DOMAIN Q = 1 .. n + 2 /\ Q = [i \in 1 .. n + 2 |-> Q[i]]
  <2>1. \A q : F(q) = [i \in 1 .. n + 2 |-> F(q)[i]] /\ DOMAIN F(q) = 1 .. n + 2
    OBVIOUS
  <2> HIDE DEF F
  <2> QED
    BY <1>9, <2>1
<1> HIDE DEF F
<1> DEFINE S == {i \in 1 .. n + 2 : Q[i] \in Choices}
<1>13. \A i \in 1 .. n + 2 : i \in S
  <2>1. n + 1 \in S /\ n + 2 \in S
    <3>1. /\ n + 1 \in 1 .. n + 2 /\ n + 1 > n
          /\ n + 2 \in 1 .. n + 2 /\ n + 2 > n
      BY <1>1
    <3> QED
      BY <3>1, <1>2, <1>3, <1>11
  <2>2. ASSUME NEW i \in 1 .. n, i + 1 \in S, i + 2 \in S PROVE i \in S
    <3>1. i \in 1 .. n + 2
      BY <1>1
    <3>2. OptionsStep(s, i, Q[i + 1], Q[i + 2]) \in Choices
      BY <3>1, <2>2, OptionsStepTyped DEF n
    <3> QED
      BY <3>1, <3>2, <1>11
  <2> HIDE DEF S
  <2> QED
    BY <1>1, <2>1, <2>2, BackwardInduction
<1>14. Q \in [1 .. n + 2 -> Choices]
  BY <1>12, <1>13
<1> QED
  BY <1>10, <1>11, <1>14 DEF n

-----------------------------------------------------------------------------
(***************************************************************************)
(* What the parsers make of the command lines that occur.                   *)
(***************************************************************************)

\* The parsers return results.
LEMMA ParsersTyped ==
  ASSUME NEW s \in Tokens
  PROVE  Dropt(s) \in Readings /\ CommandLine(s) \in Readings /\ Options(s) \in Choices
<1>1. Len(s) \in Nat /\ 1 \in 1 .. Len(s) + 2
  BY TokensClosed
<1>2. Dropt(s) \in Readings
  BY <1>1, DroptRecursion
<1>3. Options(s) \in Choices
  BY <1>1, OptionsRecursion
<1>4. [Reading EXCEPT !.rest = s] \in Readings
  BY TokensClosed DEF Reading, Readings
<1> QED
  BY <1>2, <1>3, <1>4 DEF CommandLine

\* Every argument behind a -J of its own.
LEMMA TaggedTokens ==
  ASSUME NEW t \in Tokens
  PROVE  /\ Tagged(t) \in Tokens
         /\ Len(Tagged(t)) = 2 * Len(t)
         /\ \A k \in 1 .. Len(t) : Tagged(t)[2 * k - 1] = "-J"
<1>1. Len(t) \in Nat /\ t \in [1 .. Len(t) -> Token] /\ "-J" \in Token
  BY TokensClosed DEF Token, Known
<1>2. ASSUME NEW k \in 1 .. 2 * Len(t), k % 2 # 1 PROVE k \div 2 \in 1 .. Len(t)
  BY <1>1, <1>2
<1>3. Tagged(t) \in [1 .. 2 * Len(t) -> Token]
  BY <1>1, <1>2 DEF Tagged
<1>4. 2 * Len(t) \in Nat
  BY <1>1
<1>5. Tagged(t) \in Tokens /\ Len(Tagged(t)) = 2 * Len(t)
  BY <1>3, <1>4 DEF Tokens
<1>6. ASSUME NEW k \in 1 .. Len(t)
      PROVE  2 * k - 1 \in 1 .. 2 * Len(t) /\ (2 * k - 1) % 2 = 1
  BY <1>1
<1> QED
  BY <1>5, <1>6 DEF Tagged

\* Packr's options that ForkCommand has are none of what may be meant for others.
LEMMA OptionsAreNoWords ==
  "-c" \notin Words \cup {"names"} /\ "-J" \notin Words \cup {"names"}
BY NativeLauncherAssumption DEF Known

\* -c by itself means nothing.
LEMMA DroptFlag ==
  ASSUME NEW s \in Tokens, NEW i \in 1 .. Len(s),
         NEW one \in Readings, NEW two \in Readings, s[i] = "-c"
  PROVE  DroptStep(s, i, one, two) = one
<1>1. i <= Len(s) /\ ~(i > Len(s))
  BY TokensClosed
<1>2. /\ s[i] # "--" /\ s[i] # "--help" /\ s[i] # "-J"
      /\ s[i] \notin Words \cup {"names"}
  BY OptionsAreNoWords
<1> QED
  BY <1>1, <1>2 DEF DroptStep

\* -J takes what stands behind it.
LEMMA DroptArgument ==
  ASSUME NEW s \in Tokens, NEW i \in 1 .. Len(s),
         NEW one \in Readings, NEW two \in Readings, i < Len(s), s[i] = "-J"
  PROVE  DroptStep(s, i, one, two) = [two EXCEPT !.vm = <<s[i + 1]>> \o @]
<1>1. i <= Len(s) /\ ~(i > Len(s))
  BY TokensClosed
<1>2. /\ s[i] # "--" /\ s[i] # "--help" /\ s[i] # "-c"
      /\ s[i] \notin Words \cup {"names"}
  BY OptionsAreNoWords
<1> QED
  BY <1>1, <1>2 DEF DroptStep

\* So -c and the -J's leave the verdict to what comes behind them.
LEMMA VerdictPassesOn ==
  ASSUME NEW s \in Tokens, NEW p \in [1 .. Len(s) + 2 -> Readings],
         \A i \in 1 .. Len(s) + 2 : p[i] = DroptStep(s, i, p[i + 1], p[i + 2])
  PROVE  /\ \A i \in 1 .. Len(s) : s[i] = "-c" => p[i] = p[i + 1]
         /\ \A i \in 1 .. Len(s) : i < Len(s) /\ s[i] = "-J" =>
              p[i].ok = p[i + 2].ok /\ p[i].help = p[i + 2].help
<1>1. Len(s) \in Nat
  BY TokensClosed
<1>2. ASSUME NEW i \in 1 .. Len(s)
      PROVE  /\ i \in 1 .. Len(s) + 2
             /\ i + 1 \in 1 .. Len(s) + 2 /\ i + 2 \in 1 .. Len(s) + 2
  BY <1>1
<1>3. ASSUME NEW i \in 1 .. Len(s) PROVE p[i + 1] \in Readings /\ p[i + 2] \in Readings
  BY <1>2
<1>4. ASSUME NEW i \in 1 .. Len(s) PROVE p[i] = DroptStep(s, i, p[i + 1], p[i + 2])
  BY <1>2
<1>5. ASSUME NEW i \in 1 .. Len(s)
      PROVE  /\ s[i] = "-c" => p[i] = p[i + 1]
             /\ i < Len(s) /\ s[i] = "-J" =>
                  p[i] = [p[i + 2] EXCEPT !.vm = <<s[i + 1]>> \o @]
  <2> DEFINE one == p[i + 1]
             two == p[i + 2]
  <2>1. one \in Readings /\ two \in Readings
    BY <1>3
  <2>2. p[i] = DroptStep(s, i, one, two)
    BY <1>4
  <2> HIDE DEF one, two
  <2>3. ASSUME s[i] = "-c" PROVE p[i] = one
    <3>1. DroptStep(s, i, one, two) = one
      BY <2>1, <2>3, DroptFlag
    <3> QED
      BY <2>2, <3>1
  <2>4. ASSUME i < Len(s), s[i] = "-J"
        PROVE  p[i] = [two EXCEPT !.vm = <<s[i + 1]>> \o @]
    <3>1. DroptStep(s, i, one, two) = [two EXCEPT !.vm = <<s[i + 1]>> \o @]
      BY <2>1, <2>4, DroptArgument
    <3> QED
      BY <2>2, <3>1
  <2> QED
    BY <2>3, <2>4 DEF one, two
<1>6. ASSUME NEW i \in 1 .. Len(s), i < Len(s), s[i] = "-J"
      PROVE  p[i].ok = p[i + 2].ok /\ p[i].help = p[i + 2].help
  <2>1. p[i] = [p[i + 2] EXCEPT !.vm = <<s[i + 1]>> \o @] /\ p[i + 2] \in Readings
    BY <1>5, <1>6, <1>3
  <2> QED
    BY <2>1 DEF Readings
<1> QED
  BY <1>5, <1>6

\* dropt_parse stops with an error at the first token behind -c and its -J's that
\* begins with "-" and is none of packr's options, such as -XX:ErrorFile.
LEMMA UnknownIsRejected ==
  ASSUME NEW s \in Tokens, NEW m \in Nat, 2 * m + 2 <= Len(s), s[1] = "-c",
         \A k \in 1 .. m : s[2 * k] = "-J",
         s[2 * m + 2] = "-XX:ErrorFile"
  PROVE  ~CommandLine(s).ok /\ ~CommandLine(s).help
<1> DEFINE n == Len(s)
<1>1. n \in Nat /\ 2 * m + 2 <= n
  BY TokensClosed
<1>2. PICK p \in [1 .. n + 2 -> Readings] :
         /\ Dropt(s) = p[1]
         /\ \A i \in 1 .. n + 2 : p[i] = DroptStep(s, i, p[i + 1], p[i + 2])
  BY DroptRecursion
<1> HIDE DEF n
<1> DEFINE Refuses(i) == ~p[i].ok /\ ~p[i].help
           S == {k \in 1 .. m + 2 : k <= m + 1 => Refuses(2 * k)}
<1>3. Refuses(2 * m + 2)
  <2>1. 2 * m + 2 \in 1 .. n + 2
    BY <1>1
  <2>2. p[2 * m + 2] = DroptStep(s, 2 * m + 2, p[2 * m + 2 + 1], p[2 * m + 2 + 2])
    BY <1>2, <2>1
  <2>3. "-XX:ErrorFile" \notin Words
    BY NativeLauncherAssumption, TokensClosed DEF Known
  <2>4. p[2 * m + 2] = [Reading EXCEPT !.ok = FALSE]
    BY <1>1, <2>2, <2>3 DEF DroptStep, n
  <2> QED
    BY <2>4 DEF Reading
<1>4. /\ \A i \in 1 .. Len(s) : s[i] = "-c" => p[i] = p[i + 1]
      /\ \A i \in 1 .. Len(s) : i < Len(s) /\ s[i] = "-J" =>
           p[i].ok = p[i + 2].ok /\ p[i].help = p[i + 2].help
  BY <1>2, VerdictPassesOn DEF n
<1>5. ASSUME NEW k \in 1 .. m, Refuses(2 * (k + 1)) PROVE Refuses(2 * k)
  <2>1. 2 * k \in 1 .. n + 2 /\ 2 * k < n /\ 2 * k + 2 = 2 * (k + 1)
        /\ 2 * k + 2 \in 1 .. n + 2
    BY <1>1
  <2>2. p[2 * k] = DroptStep(s, 2 * k, p[2 * k + 1], p[2 * k + 2])
    BY <1>2, <2>1
  <2>3. 2 * k \in 1 .. Len(s) /\ 2 * k < Len(s) /\ s[2 * k] = "-J"
    BY <2>1 DEF n
  <2>4. p[2 * k].ok = p[2 * k + 2].ok /\ p[2 * k].help = p[2 * k + 2].help
    BY <1>4, <2>3
  <2> QED
    BY <1>5, <2>1, <2>4
<1>6. \A k \in 1 .. m + 2 : k \in S
  <2>1. m + 1 \in S /\ m + 2 \in S
    BY <1>3
  <2>2. ASSUME NEW k \in 1 .. m, k + 1 \in S, k + 2 \in S PROVE k \in S
    <3>1. k + 1 <= m + 1 /\ k \in 1 .. m + 2
      OBVIOUS
    <3>2. Refuses(2 * (k + 1))
      BY <3>1, <2>2
    <3> QED
      BY <3>1, <3>2, <1>5
  <2> HIDE DEF S
  <2> QED
    BY <2>1, <2>2, BackwardInduction
<1>7. Refuses(2)
  <2>1. 1 \in S /\ 1 <= m + 1
    BY <1>6
  <2> QED
    BY <2>1
<1>8. p[1] = p[2]
  <2>1. 1 \in 1 .. Len(s) /\ 1 + 1 = 2
    BY <1>1 DEF n
  <2> QED
    BY <1>4, <2>1
<1>9. s # << >>
  BY <1>1 DEF n
<1> QED
  BY <1>2, <1>7, <1>8, <1>9 DEF CommandLine

\* What is put behind a command line leaves its tokens where they are.
LEMMA Behind ==
  ASSUME NEW u \in Tokens, NEW v \in Tokens
  PROVE  /\ u \o v \in Tokens
         /\ Len(u \o v) = Len(u) + Len(v)
         /\ \A k \in 1 .. Len(u) : (u \o v)[k] = u[k]
         /\ v # << >> => Len(v) > 0 /\ (u \o v)[Len(u) + 1] = v[1]
<1>1. u \in Seq(Token) /\ v \in Seq(Token) /\ Len(u) \in Nat /\ Len(v) \in Nat
  BY DEF Tokens
<1>2. /\ u \o v \in Seq(Token)
      /\ Len(u \o v) = Len(u) + Len(v)
      /\ \A i \in 1 .. Len(u) + Len(v) :
           (u \o v)[i] = IF i <= Len(u) THEN u[i] ELSE v[i - Len(u)]
  BY <1>1, ConcatProperties
<1>3. \A k \in 1 .. Len(u) : k \in 1 .. Len(u) + Len(v) /\ k <= Len(u)
  BY <1>1
<1>4. ASSUME v # << >> PROVE Len(v) > 0 /\ (u \o v)[Len(u) + 1] = v[1]
  <2>1. Len(v) > 0
    BY <1>1, <1>4
  <2>2. /\ Len(u) + 1 \in 1 .. Len(u) + Len(v) /\ ~(Len(u) + 1 <= Len(u))
        /\ Len(u) + 1 - Len(u) = 1
    BY <1>1, <2>1
  <2> QED
    BY <1>2, <2>1, <2>2
<1> QED
  BY <1>2, <1>3, <1>4 DEF Tokens

\* One token is a command line.
LEMMA OneToken ==
  ASSUME NEW t \in Token
  PROVE  <<t>> \in Tokens /\ Len(<<t>>) = 1 /\ <<t>>[1] = t /\ <<t>> # << >>
BY DEF Tokens

\* The processes are numbered from 1.
LEMMA Numbered ==
  ASSUME TypeOK
  PROVE  /\ Len(procs) \in Nat /\ DOMAIN procs = 1 .. Len(procs)
         /\ \A i \in DOMAIN procs : procs[i] \in Process
BY DEF TypeOK

\* What a launch asks for is a list of arguments, and its crash file comes first.
LEMMA AskedTyped ==
  ASSUME TypeOK, NEW i \in DOMAIN procs
  PROVE  /\ Options(procs[i].args) \in Choices
         /\ bootstrap \o <<"-D">> \in Tokens
         /\ Raw(i) \in Tokens /\ Raw(i) # << >> /\ Raw(i)[1] = "-XX:ErrorFile"
         /\ Asked(i) \in Tokens
<1> DEFINE jvm == Options(procs[i].args).jvm
           mine == IF jvm = << >> THEN saved ELSE jvm
<1>1. procs[i].args \in Tokens
  BY Numbered DEF Process
<1>2. Options(procs[i].args) \in Choices
  BY <1>1, ParsersTyped
<1>3. mine \in Tokens /\ environment \in Tokens /\ bootstrap \in Tokens
  BY <1>2 DEF TypeOK, Choices
<1>4. "-XX:ErrorFile" \in Token /\ "-D" \in Token
  BY DEF Token, Known
<1>5. Raw(i) = <<"-XX:ErrorFile">> \o mine \o environment
  BY DEF Raw
<1> HIDE DEF mine
<1> DEFINE e == <<"-XX:ErrorFile">>
<1>6. e \in Tokens /\ Len(e) = 1 /\ e[1] = "-XX:ErrorFile"
  BY <1>4, OneToken
<1> HIDE DEF e
<1>7. e \o mine \in Tokens /\ Len(e \o mine) = 1 + Len(mine) /\ (e \o mine)[1] = e[1]
  <2>1. 1 \in 1 .. Len(e)
    BY <1>6
  <2>2. /\ e \o mine \in Tokens /\ Len(e \o mine) = Len(e) + Len(mine)
        /\ \A k \in 1 .. Len(e) : (e \o mine)[k] = e[k]
    BY <1>3, <1>6, Behind
  <2> QED
    BY <1>6, <2>1, <2>2
<1>8. /\ (e \o mine) \o environment \in Tokens
      /\ ((e \o mine) \o environment)[1] = e[1]
      /\ Len((e \o mine) \o environment) > 0
  <2>1. Len(mine) \in Nat /\ Len(environment) \in Nat
    BY <1>3, TokensClosed
  <2>2. 1 \in 1 .. Len(e \o mine)
    BY <1>7, <2>1
  <2>3. Len((e \o mine) \o environment) = Len(e \o mine) + Len(environment)
    BY <1>3, <1>7, Behind
  <2>4. Len((e \o mine) \o environment) > 0
    BY <1>7, <2>1, <2>3
  <2> QED
    BY <1>3, <1>7, <2>2, <2>4, Behind
<1>9. Raw(i) \in Tokens /\ Raw(i)[1] = "-XX:ErrorFile" /\ Len(Raw(i)) > 0
  BY <1>5, <1>6, <1>8 DEF e
<1>10. Raw(i) # << >>
  BY <1>9
<1>11. bootstrap \o <<"-D">> \in Tokens
  BY <1>3, <1>4, OneToken, Behind
<1>12. Asked(i) \in Tokens
  BY <1>9, <1>11, Behind DEF Asked
<1> QED
  BY <1>2, <1>9, <1>10, <1>11, <1>12

\* packr refuses every command line that ForkLauncher builds: its crash file comes
\* without -J.
LEMMA ForkCommandRefused ==
  ASSUME TypeOK, NEW i \in DOMAIN procs
  PROVE  /\ ForkCommand(i) \in Tokens
         /\ ~CommandLine(ForkCommand(i)).ok /\ ~CommandLine(ForkCommand(i)).help
<1> DEFINE t == bootstrap \o <<"-D">>
           m == Len(t)
           c == <<"-c">>
           a == c \o Tagged(t)
           x == a \o Raw(i)
           l == <<"--", "--classpath", "names">>
           d == Options(procs[i].args).client
           y == x \o l
           z == y \o d
<1>1. t \in Tokens /\ Raw(i) \in Tokens /\ Raw(i) # << >> /\ Raw(i)[1] = "-XX:ErrorFile"
  BY AskedTyped
<1>2. d \in Tokens
  BY AskedTyped DEF Choices
<1>3. "-c" \in Token /\ "--" \in Token /\ "--classpath" \in Token /\ "names" \in Token
  BY DEF Token, Known
<1>4. l \in Tokens
  BY <1>3 DEF Tokens
<1>5. ForkCommand(i) = z
  BY DEF ForkCommand
<1>6. c \in Tokens /\ Len(c) = 1 /\ c[1] = "-c"
  BY <1>3, OneToken
<1>7. m \in Nat
  BY <1>1, TokensClosed
<1> HIDE DEF t, d, c, l
<1>8. /\ Tagged(t) \in Tokens /\ Len(Tagged(t)) = 2 * m
      /\ \A k \in 1 .. m : Tagged(t)[2 * k - 1] = "-J"
  BY <1>1, TaggedTokens
<1>9. /\ a \in Tokens /\ Len(a) = 2 * m + 1 /\ a[1] = "-c"
      /\ \A k \in 1 .. m : a[2 * k] = "-J"
  <2>1. a \in Tokens /\ Len(a) = Len(c) + Len(Tagged(t)) /\ a[1] = c[1]
    <3>1. 1 \in 1 .. Len(c)
      BY <1>6
    <3> QED
      BY <1>6, <1>8, <3>1, Behind
  <2>2. ASSUME NEW k \in 1 .. m PROVE a[2 * k] = "-J"
    <3>1. c \in Seq(Token) /\ Tagged(t) \in Seq(Token)
      BY <1>6, <1>8 DEF Tokens
    <3>2. /\ 2 * k \in 1 .. Len(c) + Len(Tagged(t)) /\ ~(2 * k <= Len(c))
          /\ 2 * k - Len(c) = 2 * k - 1
      BY <1>6, <1>7, <1>8
    <3>3. a[2 * k] = Tagged(t)[2 * k - Len(c)]
      BY <3>1, <3>2, ConcatProperties
    <3> QED
      BY <1>8, <3>2, <3>3
  <2> QED
    BY <1>6, <1>7, <1>8, <2>1, <2>2
<1> HIDE DEF a, m
<1>10. /\ x \in Tokens /\ Len(x) >= 2 * m + 2 /\ x[2 * m + 2] = "-XX:ErrorFile"
       /\ \A k \in 1 .. 2 * m + 1 : x[k] = a[k]
  <2>1. Len(x) = Len(a) + Len(Raw(i)) /\ Len(Raw(i)) > 0 /\ x[Len(a) + 1] = Raw(i)[1]
    BY <1>1, <1>9, Behind
  <2>2. Len(Raw(i)) \in Nat
    BY <1>1, TokensClosed
  <2> QED
    BY <1>1, <1>7, <1>9, <2>1, <2>2, Behind
<1> HIDE DEF x
<1>11. y \in Tokens /\ Len(y) = Len(x) + Len(l) /\ \A k \in 1 .. Len(x) : y[k] = x[k]
  BY <1>4, <1>10, Behind
<1> HIDE DEF y
<1>12. z \in Tokens /\ Len(z) = Len(y) + Len(d) /\ \A k \in 1 .. Len(y) : z[k] = y[k]
  BY <1>2, <1>11, Behind
<1> HIDE DEF z
<1>13. Len(x) \in Nat /\ Len(l) \in Nat /\ Len(d) \in Nat
  BY <1>2, <1>4, <1>10, TokensClosed
<1>14. ASSUME NEW k \in 1 .. 2 * m + 2 PROVE z[k] = x[k]
  <2>1. k \in 1 .. Len(x) /\ k \in 1 .. Len(y)
    BY <1>7, <1>10, <1>11, <1>13
  <2> QED
    BY <1>11, <1>12, <2>1
<1>15. 2 * m + 2 <= Len(z)
  BY <1>7, <1>10, <1>11, <1>12, <1>13
<1>16. z[1] = "-c"
  <2>1. 1 \in 1 .. 2 * m + 1 /\ 1 \in 1 .. 2 * m + 2
    BY <1>7
  <2> QED
    BY <1>9, <1>10, <1>14, <2>1
<1>17. ASSUME NEW k \in 1 .. m PROVE z[2 * k] = "-J"
  <2>1. 2 * k \in 1 .. 2 * m + 1 /\ 2 * k \in 1 .. 2 * m + 2
    BY <1>7
  <2> QED
    BY <1>9, <1>10, <1>14, <2>1
<1>18. z[2 * m + 2] = "-XX:ErrorFile"
  <2>1. 2 * m + 2 \in 1 .. 2 * m + 2
    BY <1>7
  <2> QED
    BY <1>10, <1>14, <2>1
<1>19. ~CommandLine(z).ok /\ ~CommandLine(z).help
  BY <1>7, <1>12, <1>15, <1>16, <1>17, <1>18, UnknownIsRejected
<1> QED
  BY <1>5, <1>12, <1>19

\* Main's parser reads a class path that comes first, whatever stands behind it.
LEMMA ClasspathRead ==
  ASSUME NEW s \in Tokens, Len(s) >= 2, s[1] = "--classpath"
  PROVE  Options(s).classpath
<1>1. Len(s) \in Nat
  BY TokensClosed
<1>2. PICK p \in [1 .. Len(s) + 2 -> Choices] :
         /\ Options(s) = p[1]
         /\ \A i \in 1 .. Len(s) + 2 : p[i] = OptionsStep(s, i, p[i + 1], p[i + 2])
  BY OptionsRecursion
<1> DEFINE one == p[1 + 1]
           two == p[1 + 2]
<1>3. p[1] = OptionsStep(s, 1, one, two) /\ two \in Choices
  <2>1. 1 \in 1 .. Len(s) + 2 /\ 1 + 2 \in 1 .. Len(s) + 2
    BY <1>1
  <2> QED
    BY <1>2, <2>1
<1> HIDE DEF one, two
<1>4. OptionsStep(s, 1, one, two) = [two EXCEPT !.classpath = TRUE]
  <2>1. 1 < Len(s) /\ 1 <= Len(s) /\ ~(1 > Len(s)) /\ 1 # Len(s)
    BY <1>1
  <2> QED
    BY <2>1 DEF OptionsStep
<1> QED
  BY <1>2, <1>3, <1>4 DEF Choices

\* The class path of a command line that ForkLauncher builds is read there.
LEMMA ForkCommandReads ==
  ASSUME TypeOK, NEW i \in DOMAIN procs
  PROVE  ReadsClasspath(ForkCommand(i))
<1> DEFINE t == bootstrap \o <<"-D">>
           x == <<"-c">> \o Tagged(t) \o Raw(i)
           l == <<"--", "--classpath", "names">>
           d == Options(procs[i].args).client
           z == (x \o l) \o d
           s == From(z, Len(x) + 2)
<1>1. t \in Tokens /\ Raw(i) \in Tokens /\ d \in Tokens
  BY AskedTyped DEF Choices
<1>2. "-c" \in Token /\ "--" \in Token /\ "--classpath" \in Token /\ "names" \in Token
  BY DEF Token, Known
<1>3. x \in Tokens
  <2>1. <<"-c">> \in Tokens /\ Tagged(t) \in Tokens
    BY <1>1, <1>2, OneToken, TaggedTokens
  <2> DEFINE c == <<"-c">>
  <2> HIDE DEF c, t
  <2> QED
    BY <1>1, <2>1, Behind DEF c
<1>4. l \in Tokens /\ Len(l) = 3 /\ l[1] = "--" /\ l[2] = "--classpath"
  BY <1>2 DEF Tokens
<1>5. ForkCommand(i) = z
  BY DEF ForkCommand
<1> HIDE DEF t, x, l, d
<1>6. Len(x) \in Nat /\ Len(d) \in Nat
  BY <1>1, <1>3, TokensClosed
<1>7. x \o l \in Tokens /\ Len(x \o l) = Len(x) + 3
      /\ (x \o l)[Len(x) + 1] = "--" /\ (x \o l)[Len(x) + 2] = "--classpath"
  <2>1. x \in Seq(Token) /\ l \in Seq(Token)
    BY <1>3, <1>4 DEF Tokens
  <2>2. /\ Len(x) + 1 \in 1 .. Len(x) + Len(l) /\ ~(Len(x) + 1 <= Len(x))
        /\ Len(x) + 2 \in 1 .. Len(x) + Len(l) /\ ~(Len(x) + 2 <= Len(x))
        /\ Len(x) + 1 - Len(x) = 1 /\ Len(x) + 2 - Len(x) = 2
    BY <1>4, <1>6
  <2>3. /\ (x \o l)[Len(x) + 1] = l[Len(x) + 1 - Len(x)]
        /\ (x \o l)[Len(x) + 2] = l[Len(x) + 2 - Len(x)]
    BY <2>1, <2>2, ConcatProperties
  <2>4. x \o l \in Tokens /\ Len(x \o l) = Len(x) + Len(l)
    BY <1>3, <1>4, Behind
  <2> QED
    BY <1>4, <2>2, <2>3, <2>4
<1>8. /\ z \in Tokens /\ Len(z) = Len(x) + 3 + Len(d)
      /\ z[Len(x) + 1] = "--" /\ z[Len(x) + 2] = "--classpath"
  <2> DEFINE y == x \o l
  <2>1. /\ y \in Tokens /\ Len(y) = Len(x) + 3
        /\ y[Len(x) + 1] = "--" /\ y[Len(x) + 2] = "--classpath"
    BY <1>7
  <2> HIDE DEF y
  <2>2. Len(x) + 1 \in 1 .. Len(y) /\ Len(x) + 2 \in 1 .. Len(y)
    BY <1>6, <2>1
  <2>3. /\ y \o d \in Tokens /\ Len(y \o d) = Len(y) + Len(d)
        /\ \A k \in 1 .. Len(y) : (y \o d)[k] = y[k]
    BY <1>1, <2>1, Behind
  <2> QED
    BY <2>1, <2>2, <2>3 DEF y
<1> HIDE DEF z
<1>9. s \in Tokens /\ Len(s) >= 2 /\ s[1] = "--classpath"
  <2>1. z \in Seq(Token) /\ Len(x) + 2 \in 1 .. Len(z) /\ Len(z) \in Nat
    BY <1>6, <1>8 DEF Tokens
  <2>2. s = SubSeq(z, Len(x) + 2, Len(z))
    BY DEF From
  <2>3. /\ s \in Seq(Token) /\ Len(s) = Len(z) - (Len(x) + 2) + 1
        /\ \A k \in 1 .. Len(z) - (Len(x) + 2) + 1 : s[k] = z[Len(x) + 2 + k - 1]
    <3>1. \A k \in Len(x) + 2 .. Len(z) : z[k] \in Token
      BY <1>6, <2>1
    <3>2. Len(x) + 2 \in Int /\ Len(z) \in Int /\ Len(x) + 2 <= Len(z)
      BY <1>6, <1>8, <2>1
    <3> HIDE DEF s
    <3> QED
      BY <2>2, <3>1, <3>2, SubSeqProperties
  <2>4. 1 \in 1 .. Len(z) - (Len(x) + 2) + 1 /\ Len(x) + 2 + 1 - 1 = Len(x) + 2
    BY <1>6, <1>8
  <2>5. Len(s) >= 2 /\ s[1] = z[Len(x) + 2]
    BY <1>6, <1>8, <2>3, <2>4
  <2> QED
    BY <1>8, <2>3, <2>5 DEF Tokens
<1>10. Options(s).classpath
  BY <1>9, ClasspathRead
<1>11. Len(x) + 1 \in DOMAIN z /\ Len(x) + 1 + 1 = Len(x) + 2
  BY <1>6, <1>8 DEF Tokens
<1> QED
  BY <1>5, <1>8, <1>10, <1>11 DEF ReadsClasspath

-----------------------------------------------------------------------------
(***************************************************************************)
(* What a step may do to a process.  Moved says what the actions of one     *)
(* process have in common, so that the invariant is shown once for all.     *)
(***************************************************************************)

\* packr refuses a command line.
Refusal(cmd) == ~CommandLine(cmd).ok /\ ~CommandLine(cmd).help

Moved(p, r) ==
  /\ p.at # "ended" /\ r.at # "client"
  /\ r.forked = p.forked /\ r.cmd = p.cmd
  /\ r.at = "ended" => r.java = {}
  /\ p.at # "main" => r.client = p.client /\ r.java \subseteq p.java
  /\ p.at = "parse" /\ Refusal(p.cmd) => r.at = "ended" /\ r.status = "rejected"
  /\ p.at = "main" /\ "launch" \in r.java => r.at = "destroy" /\ ~r.client
  /\ p.at = "destroy" => r.at \in {"destroy", "ended"}
  /\ p.at = "client" => r.at = "ended"

Moves(i) == \E r \in Process : Becomes(i, r) /\ Moved(procs[i], r)

\* A launch starts the executable again or a client's VM.
Spawns(i) ==
  /\ procs[i].at = "destroy" /\ "launch" \in procs[i].java
  /\ \E p \in {Started(TRUE, ForkCommand(i)), ClientProcess(i)} : Starts(i, p)

\* Processes have the fields that their type says.
LEMMA Fields ==
  ASSUME NEW p \in Process
  PROVE  /\ p.forked \in BOOLEAN /\ p.cmd \in Tokens /\ p.vm \in Tokens /\ p.args \in Tokens
         /\ p.java \subseteq {"launch", "awt", "client"} /\ p.client \in BOOLEAN
BY DEF Process

\* A process ends.
LEMMA EndsMoves ==
  ASSUME TypeOK, NEW i \in DOMAIN procs, Ends(i, "success") \/ Ends(i, "failure")
           \/ Ends(i, "rejected") \/ Ends(i, "exited"),
         procs[i].at # "ended",
         procs[i].at = "parse" /\ Refusal(procs[i].cmd) => Ends(i, "rejected")
  PROVE  Moves(i)
<1> DEFINE p == procs[i]
<1>1. p \in Process
  BY Numbered
<1>2. PICK s \in {"success", "failure", "rejected", "exited"} :
         Ends(i, s) /\ (p.at = "parse" /\ Refusal(p.cmd) => s = "rejected")
  OBVIOUS
<1> DEFINE r == [p EXCEPT !.at = "ended", !.status = s, !.java = {}]
<1>3. Becomes(i, r)
  BY <1>2 DEF Ends
<1> HIDE DEF p
<1>4. r \in Process
  BY <1>1, <1>2 DEF Process
<1>5. /\ r.at = "ended" /\ r.status = s /\ r.java = {} /\ r.client = p.client
      /\ r.forked = p.forked /\ r.cmd = p.cmd
  BY <1>1 DEF Process
<1> HIDE DEF r
<1>6. Moved(p, r)
  BY <1>2, <1>5 DEF Moved, p
<1> QED
  BY <1>3, <1>4, <1>6 DEF Moves, p

\* A process goes on to the next step of packr, with nothing else changed.
LEMMA GoesMoves ==
  ASSUME TypeOK, NEW i \in DOMAIN procs,
         \E b \in BOOLEAN, at \in {"callback", "create", "load", "main", "hung"} :
           Becomes(i, [procs[i] EXCEPT !.at = at, !.loop = b]) \/ Goes(i, at),
         procs[i].at \in {"jni", "callback", "create", "load"}
  PROVE  Moves(i)
<1> DEFINE p == procs[i]
<1>1. p \in Process
  BY Numbered
<1>2. PICK b \in BOOLEAN, at \in {"callback", "create", "load", "main", "hung"} :
         Becomes(i, [p EXCEPT !.at = at, !.loop = b]) \/ Goes(i, at)
  OBVIOUS
<1>3. ASSUME NEW r, r = [p EXCEPT !.at = at, !.loop = b] \/ r = [p EXCEPT !.at = at]
      PROVE  r \in Process /\ Moved(p, r)
  <2> HIDE DEF p
  <2>1. r \in Process
    <3>1. CASE r = [p EXCEPT !.at = at, !.loop = b]
      BY <1>1, <3>1 DEF Process
    <3>2. CASE r = [p EXCEPT !.at = at]
      BY <1>1, <3>2 DEF Process
    <3> QED
      BY <1>3, <3>1, <3>2
  <2>2. /\ r.at = at /\ r.java = p.java /\ r.client = p.client
        /\ r.forked = p.forked /\ r.cmd = p.cmd
    BY <1>1, <1>3 DEF Process
  <2>3. p.at \in {"jni", "callback", "create", "load"}
    BY DEF p
  <2> QED
    BY <1>2, <2>1, <2>2, <2>3 DEF Moved
<1> QED
  BY <1>2, <1>3 DEF Moves, Goes

\* Packr's steps.
LEMMA PackrMoves ==
  ASSUME TypeOK, NEW i \in DOMAIN procs, Packr(i)
  PROVE  Moves(i)
<1> DEFINE p == procs[i]
<1>1. p \in Process
  BY Numbered
<1>2. CASE SetCmdLineArguments(i)
  <2> DEFINE c == CommandLine(p.cmd)
             r == [p EXCEPT !.at = "config", !.vm = c.vm, !.args = c.rest]
  <2>1. p.at = "parse"
    BY <1>2 DEF SetCmdLineArguments
  <2>2. c \in Readings
    BY <1>1, Fields, ParsersTyped
  <2>3. CASE ~c.ok /\ Ends(i, "rejected")
    BY <2>1, <2>3, EndsMoves
  <2>4. CASE c.help /\ Ends(i, "failure")
    BY <2>1, <2>4, EndsMoves DEF Refusal
  <2>5. CASE c.ok /\ ~c.help /\ Becomes(i, r)
    <3> HIDE DEF p
    <3>1. c.vm \in Tokens /\ c.rest \in Tokens
      BY <2>2 DEF Readings
    <3>2. r \in Process
      BY <1>1, <3>1 DEF Process
    <3>3. /\ r.at = "config" /\ r.vm = c.vm /\ r.java = p.java /\ r.client = p.client
          /\ r.forked = p.forked /\ r.cmd = p.cmd
      BY <1>1 DEF Process
    <3>4. ~Refusal(p.cmd)
      BY <2>5 DEF Refusal
    <3> HIDE DEF r
    <3>5. Moved(p, r)
      BY <2>1, <3>3, <3>4 DEF Moved
    <3> QED
      BY <2>5, <3>2, <3>5 DEF Moves, p
  <2> QED
    BY <1>2, <2>3, <2>4, <2>5 DEF SetCmdLineArguments
<1>3. CASE LoadConfiguration(i)
  <2> DEFINE r == [p EXCEPT !.at = "jni", !.vm = IF @ = << >> THEN config ELSE @]
  <2>1. p.at = "config"
    BY <1>3 DEF LoadConfiguration
  <2>2. CASE Ends(i, "failure")
    BY <2>1, <2>2, EndsMoves
  <2>3. CASE Becomes(i, r)
    <3> HIDE DEF p
    <3>1. config \in Tokens
      BY DEF TypeOK
    <3>2. r \in Process
      BY <1>1, <3>1 DEF Process
    <3>3. /\ r.at = "jni" /\ r.vm = (IF p.vm = << >> THEN config ELSE p.vm)
          /\ r.java = p.java /\ r.client = p.client
          /\ r.forked = p.forked /\ r.cmd = p.cmd
      BY <1>1 DEF Process
    <3> HIDE DEF r
    <3>4. Moved(p, r)
      BY <2>1, <3>3 DEF Moved
    <3> QED
      BY <2>3, <3>2, <3>4 DEF Moves, p
  <2> QED
    BY <1>3, <2>2, <2>3 DEF LoadConfiguration
<1>4. CASE LoadJNIFunctions(i)
  BY <1>4, EndsMoves, GoesMoves DEF LoadJNIFunctions
<1>5. CASE Callback(i)
  BY <1>5, GoesMoves DEF Callback
<1>6. CASE CreateJavaVM(i)
  BY <1>6, EndsMoves, GoesMoves DEF CreateJavaVM
<1>7. CASE LoadStaticMethod(i)
  BY <1>7, EndsMoves, GoesMoves DEF LoadStaticMethod
<1>8. CASE DestroyJavaVM(i)
  BY <1>8, EndsMoves DEF DestroyJavaVM
<1> QED
  BY <1>2, <1>3, <1>4, <1>5, <1>6, <1>7, <1>8 DEF Packr

\* What main starts, and the ends of Java threads.
LEMMA ThreadsMove ==
  ASSUME TypeOK, NEW i \in DOMAIN procs,
         NEW threads \in SUBSET {"launch", "awt", "client"}, NEW client \in BOOLEAN,
         \/ /\ procs[i].at = "main" /\ ("launch" \in threads => ~client)
            /\ Returns(i, threads, client)
         \/ procs[i].at = "main" /\ "launch" \notin threads /\ Throws(i, threads)
         \/ /\ procs[i].at = "destroy"
            /\ \E t \in {"launch", "awt", "client"} : Becomes(i, Without(i, t))
  PROVE  Moves(i)
<1> DEFINE p == procs[i]
<1>1. p \in Process
  BY Numbered
<1>2. CASE /\ p.at = "main" /\ ("launch" \in threads => ~client)
           /\ Returns(i, threads, client)
  <2> DEFINE r == [p EXCEPT !.at = "destroy", !.java = threads, !.client = client]
  <2>1. Becomes(i, r)
    BY <1>2 DEF Returns
  <2> HIDE DEF p
  <2>2. r \in Process
    BY <1>1 DEF Process
  <2>3. /\ r.at = "destroy" /\ r.java = threads
        /\ r.client = client /\ r.forked = p.forked /\ r.cmd = p.cmd
    BY <1>1 DEF Process
  <2> HIDE DEF r
  <2>4. Moved(p, r)
    BY <1>2, <2>3 DEF Moved
  <2> QED
    BY <2>1, <2>2, <2>4 DEF Moves, p
<1>3. CASE p.at = "main" /\ "launch" \notin threads /\ Throws(i, threads)
  <2> DEFINE r == [p EXCEPT !.at = "destroy", !.java = threads, !.thrown = TRUE]
  <2>1. Becomes(i, r)
    BY <1>3 DEF Throws
  <2> HIDE DEF p
  <2>2. r \in Process
    BY <1>1 DEF Process
  <2>3. /\ r.at = "destroy" /\ r.java = threads
        /\ r.forked = p.forked /\ r.cmd = p.cmd
    BY <1>1 DEF Process
  <2> HIDE DEF r
  <2>4. Moved(p, r)
    BY <1>3, <2>3 DEF Moved
  <2> QED
    BY <2>1, <2>2, <2>4 DEF Moves, p
<1>4. CASE /\ p.at = "destroy"
           /\ \E t \in {"launch", "awt", "client"} : Becomes(i, Without(i, t))
  <2>1. PICK t \in {"launch", "awt", "client"} : Becomes(i, [p EXCEPT !.java = @ \ {t}])
    BY <1>4 DEF Without
  <2> DEFINE r == [p EXCEPT !.java = @ \ {t}]
  <2> HIDE DEF p
  <2>2. r \in Process
    BY <1>1 DEF Process
  <2>3. /\ r.at = p.at /\ r.java \subseteq p.java
        /\ r.client = p.client /\ r.forked = p.forked /\ r.cmd = p.cmd
    BY <1>1 DEF Process
  <2> HIDE DEF r
  <2>4. Moved(p, r)
    BY <1>4, <2>3 DEF Moved
  <2> QED
    BY <2>1, <2>2, <2>4 DEF Moves, p, r
<1> QED
  BY <1>2, <1>3, <1>4

\* Java's steps.
LEMMA JavaMoves ==
  ASSUME TypeOK, NEW i \in DOMAIN procs, Java(i)
  PROVE  Moves(i) \/ Spawns(i)
<1> DEFINE Sets == SUBSET {"launch", "awt", "client"}
<1>1. /\ {"awt"} \in Sets /\ {"client"} \in Sets /\ {} \in Sets
      /\ {"launch", "awt"} \in Sets /\ TRUE \in BOOLEAN /\ FALSE \in BOOLEAN
  OBVIOUS
<1>2. CASE Main(i)
  <2> DEFINE o == Options(procs[i].args)
  <2>1. procs[i].at = "main"
    BY <1>2 DEF Main
  <2> DEFINE Cases ==
         \/ Throws(i, {"awt"}) \/ Throws(i, {}) \/ Ends(i, "exited")
         \/ Returns(i, {"awt"}, FALSE) \/ Returns(i, {"client"}, TRUE)
         \/ Returns(i, {}, FALSE) \/ Returns(i, {"launch", "awt"}, FALSE)
  <2>2. Cases
    BY <1>2 DEF Main
  <2>3. CASE Throws(i, {"awt"}) \/ Throws(i, {})
    BY <1>1, <2>1, <2>3, ThreadsMove
  <2>4. CASE Ends(i, "exited")
    BY <2>1, <2>4, EndsMoves
  <2>5. CASE Returns(i, {"awt"}, FALSE) \/ Returns(i, {"client"}, TRUE)
    BY <1>1, <2>1, <2>5, ThreadsMove
  <2>6. CASE Returns(i, {}, FALSE) \/ Returns(i, {"launch", "awt"}, FALSE)
    BY <1>1, <2>1, <2>6, ThreadsMove
  <2> QED
    BY <2>2, <2>3, <2>4, <2>5, <2>6
<1>3. CASE ThreadEnds(i)
  BY <1>1, <1>3, ThreadsMove DEF ThreadEnds
<1>4. CASE JavaExits(i)
  BY <1>4, EndsMoves DEF JavaExits
<1>5. CASE Launch(i)
  <2>1. procs[i].at = "destroy" /\ "launch" \in procs[i].java
    BY <1>5 DEF Launch
  <2>2. \/ Becomes(i, Without(i, "launch"))
        \/ Starts(i, Started(TRUE, ForkCommand(i)))
        \/ Starts(i, ClientProcess(i))
    BY <1>5 DEF Launch, Fork
  <2>3. CASE Becomes(i, Without(i, "launch"))
    BY <1>1, <2>1, <2>3, ThreadsMove
  <2> QED
    BY <2>1, <2>2, <2>3 DEF Spawns
<1>6. CASE ClientEnds(i)
  BY <1>6, EndsMoves DEF ClientEnds
<1> QED
  BY <1>2, <1>3, <1>4, <1>5, <1>6 DEF Java

\* A step of one process leaves the others and the settings as they are.
LEMMA BecomesFrame ==
  ASSUME TypeOK, NEW i \in DOMAIN procs, NEW r \in Process, Becomes(i, r)
  PROVE  /\ TypeOK'
         /\ Len(procs') = Len(procs) /\ procs'[i] = r
         /\ \A j \in DOMAIN procs : j # i => procs'[j] = procs[j]
<1>1. procs \in Seq(Process) /\ procs' = [procs EXCEPT ![i] = r]
  BY DEF TypeOK, Becomes
<1>2. procs' \in Seq(Process)
  BY <1>1
<1>3. UNCHANGED settings
  BY DEF Becomes
<1>4. TypeOK'
  BY <1>2, <1>3 DEF TypeOK, settings
<1> QED
  BY <1>1, <1>4

\* So does the start of another, which is put at the end.
LEMMA StartsFrame ==
  ASSUME TypeOK, NEW i \in DOMAIN procs, NEW p \in Process, Starts(i, p)
  PROVE  /\ TypeOK'
         /\ Len(procs') = Len(procs) + 1
         /\ procs'[i] = Without(i, "launch") /\ procs'[Len(procs) + 1] = p
         /\ \A j \in DOMAIN procs : j # i => procs'[j] = procs[j]
<1> DEFINE w == Without(i, "launch")
           q == [procs EXCEPT ![i] = w]
<1>1. procs \in Seq(Process) /\ procs[i] \in Process
  BY Numbered DEF TypeOK
<1>2. w \in Process
  <2>1. [procs[i] EXCEPT !.java = @ \ {"launch"}] \in Process
    BY <1>1 DEF Process
  <2> QED
    BY <2>1 DEF Without
<1> HIDE DEF w
<1>3. /\ q \in Seq(Process) /\ Len(q) = Len(procs) /\ q[i] = w
      /\ \A j \in DOMAIN procs : j # i => q[j] = procs[j]
  BY <1>1, <1>2
<1>4. procs' = Append(q, p) /\ UNCHANGED settings
  BY DEF Starts, w
<1> HIDE DEF q
<1>5. /\ procs' \in Seq(Process) /\ Len(procs') = Len(procs) + 1
      /\ procs'[Len(procs) + 1] = p
      /\ \A j \in 1 .. Len(q) : procs'[j] = q[j]
  BY <1>3, <1>4, AppendProperties
<1>6. DOMAIN procs = 1 .. Len(q)
  BY <1>3, Numbered
<1>7. TypeOK'
  BY <1>4, <1>5 DEF TypeOK, settings
<1> QED
  BY <1>3, <1>5, <1>6, <1>7 DEF w

\* Processes that a launch starts are of the type.
LEMMA SpawnedTyped ==
  ASSUME TypeOK, NEW i \in DOMAIN procs
  PROVE  Started(TRUE, ForkCommand(i)) \in Process /\ ClientProcess(i) \in Process
<1>1. ForkCommand(i) \in Tokens
  BY ForkCommandRefused
<1>2. /\ Asked(i) \in Tokens /\ Options(procs[i].args).client \in Tokens
      /\ << >> \in Tokens
  BY AskedTyped, TokensClosed DEF Choices
<1>3. Started(TRUE, ForkCommand(i)) \in Process
  BY <1>1, <1>2 DEF Started, Process
<1>4. Started(FALSE, << >>) \in Process
  BY <1>2 DEF Started, Process
<1>5. ClientProcess(i) \in Process
  BY <1>2, <1>4 DEF ClientProcess, Process
<1> QED
  BY <1>3, <1>5

\* The first state is of the type.
LEMMA TypeInit == Init => TypeOK
<1> SUFFICES ASSUME Init PROVE TypeOK
  OBVIOUS
<1>1. PICK c \in Commands : procs = <<Started(FALSE, c)>>
  BY DEF Init
<1>2. c \in Tokens /\ << >> \in Tokens
  BY <1>1, NativeLauncherAssumption, TokensClosed
<1>3. Started(FALSE, c) \in Process
  BY <1>2 DEF Started, Process
<1>4. procs \in Seq(Process)
  <2> DEFINE q == Started(FALSE, c)
  <2>1. q \in Process /\ procs = <<q>>
    BY <1>1, <1>3
  <2> HIDE DEF q
  <2> QED
    BY <2>1
<1>5. {config, bootstrap, saved, environment} \subseteq Tokens
  BY NativeLauncherAssumption DEF Init
<1> QED
  BY <1>4, <1>5 DEF Init, TypeOK

\* Every step is of one process, and moves it or starts another.
LEMMA StepsMove ==
  ASSUME TypeOK, Next
  PROVE  \E i \in DOMAIN procs : Moves(i) \/ Spawns(i)
BY PackrMoves, JavaMoves DEF Next

\* Every step keeps the type.
LEMMA TypeNext == TypeOK /\ [Next]_vars => TypeOK'
<1> SUFFICES ASSUME TypeOK, [Next]_vars PROVE TypeOK'
  OBVIOUS
<1>1. ASSUME NEW i \in DOMAIN procs, Moves(i) PROVE TypeOK'
  BY <1>1, BecomesFrame DEF Moves
<1>2. ASSUME NEW i \in DOMAIN procs, Spawns(i) PROVE TypeOK'
  BY <1>2, StartsFrame, SpawnedTyped DEF Spawns
<1>3. CASE UNCHANGED vars
  BY <1>3 DEF TypeOK, vars, settings
<1> QED
  BY <1>1, <1>2, <1>3, StepsMove

\* Values keep their types: every process has a command line and options that are
\* lists of arguments, whatever the parsers did with them (the parsers of packr.cpp
\* and Launcher.java, and ForkLauncher's command line).
THEOREM TypeCorrect == Spec => []TypeOK
BY TypeInit, TypeNext, PTL DEF Spec

-----------------------------------------------------------------------------
(***************************************************************************)
(* The inductive invariant.                                                 *)
(***************************************************************************)

\* The executable the user starts never is a client's VM.  It launches only once
\* main has returned, and not in a process that runs the client itself.
Launcher(p) ==
  /\ ~p.forked /\ p.at # "client"
  /\ "launch" \in p.java => p.at = "destroy" /\ ~p.client

\* A launcher that has started another process launches nothing more.
Over(p) == p.at \in {"destroy", "ended"} /\ "launch" \notin p.java /\ ~p.client

\* A forked launcher does not get beyond the parser of its command line, though
\* the class path stands on it.
Refused(p) ==
  /\ p.forked /\ ~p.client /\ p.java = {}
  /\ ReadsClasspath(p.cmd)
  /\ \/ p.at = "parse" /\ Refusal(p.cmd)
     \/ p.at = "ended" /\ p.status = "rejected"

\* A client's VM.
Hosts(p) == ~p.forked /\ p.at \in {"client", "ended"} /\ p.java = {}

Processes ==
  /\ Len(procs) \in {1, 2}
  /\ Launcher(procs[1])
  /\ Len(procs) = 2 => Over(procs[1]) /\ (Refused(procs[2]) \/ Hosts(procs[2]))

Inv == TypeOK /\ Processes

\* The first state has the invariant.
LEMMA ProcessesInit == Init => Processes
<1> SUFFICES ASSUME Init PROVE Processes
  OBVIOUS
<1>1. PICK c \in Commands : procs = <<Started(FALSE, c)>>
  BY DEF Init
<1>2. Len(procs) = 1 /\ procs[1] = Started(FALSE, c)
  BY <1>1
<1>3. Launcher(procs[1])
  BY <1>2 DEF Launcher, Started
<1>4. Len(procs) \in {1, 2} /\ Len(procs) # 2
  BY <1>2
<1> QED
  BY <1>3, <1>4, Zenon DEF Processes

\* The launcher stays one, and stays done with launching.
LEMMA LauncherMoves ==
  ASSUME NEW p, NEW r, Moved(p, r), Launcher(p)
  PROVE  Launcher(r) /\ (Over(p) => Over(r))
BY DEF Launcher, Moved, Over

\* What the launcher started ends, and as what it was.
LEMMA StartedMoves ==
  ASSUME NEW p \in Process, NEW r \in Process, Moved(p, r), Refused(p) \/ Hosts(p)
  PROVE  Refused(r) \/ Hosts(r)
<1>1. CASE Refused(p)
  BY <1>1 DEF Refused, Moved
<1>2. CASE Hosts(p)
  BY <1>2 DEF Hosts, Moved
<1> QED
  BY <1>1, <1>2

\* Every step keeps it.
LEMMA ProcessesNext == Inv /\ [Next]_vars => Processes'
<1> SUFFICES ASSUME Inv, [Next]_vars PROVE Processes'
  OBVIOUS
<1> USE DEF Inv
<1>1. /\ Len(procs) \in {1, 2} /\ DOMAIN procs = 1 .. Len(procs)
      /\ 1 \in DOMAIN procs /\ \A i \in DOMAIN procs : procs[i] \in Process
  BY Numbered DEF Processes
<1>2. ASSUME NEW i \in DOMAIN procs, Moves(i) PROVE Processes'
  <2>1. PICK r \in Process : Becomes(i, r) /\ Moved(procs[i], r)
    BY <1>2 DEF Moves
  <2>2. /\ Len(procs') = Len(procs) /\ procs'[i] = r
        /\ \A j \in DOMAIN procs : j # i => procs'[j] = procs[j]
    BY <2>1, BecomesFrame
  <2>3. ASSUME i = 1 PROVE Launcher(r) /\ (Over(procs[1]) => Over(r))
    BY <2>1, <2>3, LauncherMoves DEF Processes
  <2>4. ASSUME i = 2, Len(procs) = 2 PROVE Refused(r) \/ Hosts(r)
    BY <1>1, <2>1, <2>4, StartedMoves DEF Processes
  <2>5. CASE i = 1
    <3>1. Len(procs) = 2 => procs'[2] = procs[2]
      BY <1>1, <2>2, <2>5
    <3> QED
      BY <2>2, <2>3, <2>5, <3>1 DEF Processes
  <2>6. CASE i = 2
    <3>1. Len(procs) = 2 /\ procs'[1] = procs[1]
      BY <1>1, <2>2, <2>6
    <3> QED
      BY <2>2, <2>4, <2>6, <3>1 DEF Processes
  <2> QED
    BY <1>1, <2>5, <2>6
<1>3. ASSUME NEW i \in DOMAIN procs, Spawns(i) PROVE Processes'
  <2>1. PICK p \in {Started(TRUE, ForkCommand(i)), ClientProcess(i)} : Starts(i, p)
    BY <1>3 DEF Spawns
  <2>2. procs[i].at = "destroy" /\ "launch" \in procs[i].java
    BY <1>3 DEF Spawns
  <2>3. i = 1 /\ Len(procs) = 1
    <3>1. CASE Len(procs) = 1
      BY <1>1, <3>1
    <3>2. CASE Len(procs) = 2
      <4>1. i = 1 \/ i = 2
        BY <1>1, <3>2
      <4>2. i # 1
        BY <2>2, <3>2 DEF Processes, Over
      <4>3. i # 2
        BY <2>2, <3>2 DEF Processes, Refused, Hosts
      <4> QED
        BY <4>1, <4>2, <4>3
    <3> QED
      BY <1>1, <3>1, <3>2
  <2>4. p \in Process
    BY SpawnedTyped
  <2>5. /\ Len(procs') = 2 /\ procs'[1] = Without(1, "launch") /\ procs'[2] = p
    BY <2>1, <2>3, <2>4, StartsFrame
  <2> DEFINE w == Without(1, "launch")
  <2>6. /\ w.at = "destroy" /\ w.java = procs[1].java \ {"launch"}
        /\ w.client = procs[1].client /\ w.forked = procs[1].forked
    <3>1. procs[1] \in Process
      BY <1>1
    <3> QED
      BY <2>2, <2>3, <3>1 DEF Without, Process
  <2> HIDE DEF w
  <2>7. Launcher(procs[1]) /\ ~procs[1].client
    BY <2>2, <2>3 DEF Processes, Launcher
  <2>8. Launcher(w) /\ Over(w)
    BY <2>2, <2>3, <2>6, <2>7 DEF Launcher, Over
  <2>9. CASE p = Started(TRUE, ForkCommand(i))
    <3>1. Refusal(ForkCommand(i)) /\ ReadsClasspath(ForkCommand(i))
      BY ForkCommandRefused, ForkCommandReads DEF Refusal
    <3>2. Refused(p)
      BY <2>9, <3>1 DEF Refused, Started
    <3> QED
      BY <2>5, <2>8, <3>2 DEF Processes, w
  <2>10. CASE p = ClientProcess(i)
    <3>1. Hosts(p)
      BY <2>10 DEF ClientProcess, Started, Hosts
    <3> QED
      BY <2>5, <2>8, <3>1 DEF Processes, w
  <2> QED
    BY <2>1, <2>9, <2>10
<1>4. CASE UNCHANGED vars
  BY <1>4 DEF vars, Processes
<1> QED
  BY <1>2, <1>3, <1>4, StepsMove

\* The invariant is one of the specification.
LEMMA Invariant == Spec => []Inv
<1>1. Init => Inv
  BY TypeInit, ProcessesInit DEF Inv
<1>2. Inv /\ [Next]_vars => Inv'
  BY TypeNext, ProcessesNext DEF Inv
<1> QED
  BY <1>1, <1>2, PTL DEF Spec

\* A launch starts one other process and runs the client in one (ForkLauncher.java
\* and JvmLauncher.java): the launcher ends its launch thread with it, and what it
\* starts is a client's VM, or a launcher that packr refuses.  Had packr accepted
\* its command line, that launcher would run the client and not launch again: the
\* class path stands behind a -- and main's parser reads it, whatever the arguments
\* for the VM are in front of it and those for the client behind it.
THEOREM OneLaunch == Spec => []NoForkLoop
<1>1. Inv => NoForkLoop
  <2> SUFFICES ASSUME Inv PROVE NoForkLoop
    OBVIOUS
  <2>1. Len(procs) \in {1, 2} /\ DOMAIN procs = 1 .. Len(procs)
    BY Numbered DEF Inv, Processes
  <2>2. Len(procs) = 2 => ~procs[1].client
    BY DEF Inv, Processes, Over
  <2>3. ASSUME NEW i \in DOMAIN procs, procs[i].forked PROVE ReadsClasspath(procs[i].cmd)
    <3>1. i = 1 \/ (i = 2 /\ Len(procs) = 2)
      BY <2>1
    <3>2. i # 1
      BY <2>3 DEF Inv, Processes, Launcher
    <3> QED
      BY <2>3, <3>1, <3>2 DEF Inv, Processes, Refused, Hosts
  <2>4. \A i, j \in DOMAIN procs : procs[i].client /\ procs[j].client => i = j
    BY <2>1, <2>2
  <2> QED
    BY <2>1, <2>3, <2>4 DEF NoForkLoop
<1> QED
  BY <1>1, Invariant, PTL

\* Whatever the user's, the settings', the bootstrap's and the configuration's
\* arguments are, a launcher that ForkLauncher starts ends at packr's parser:
\* the FORK launch mode never runs a client.
THEOREM ForksAreRefused ==
  Spec => [](\A i \in DOMAIN procs :
               procs[i].forked => \/ procs[i].at = "parse" /\ ~procs[i].client
                                  \/ procs[i].at = "ended" /\ procs[i].status = "rejected")
<1> DEFINE P == \A i \in DOMAIN procs :
               procs[i].forked => \/ procs[i].at = "parse" /\ ~procs[i].client
                                  \/ procs[i].at = "ended" /\ procs[i].status = "rejected"
<1>1. Inv => P
  <2> SUFFICES ASSUME Inv, NEW i \in DOMAIN procs, procs[i].forked
               PROVE  \/ procs[i].at = "parse" /\ ~procs[i].client
                      \/ procs[i].at = "ended" /\ procs[i].status = "rejected"
    OBVIOUS
  <2>1. i = 1 \/ (i = 2 /\ Len(procs) = 2)
    BY Numbered DEF Inv, Processes
  <2>2. i # 1
    BY DEF Inv, Processes, Launcher
  <2> QED
    BY <2>1, <2>2 DEF Inv, Processes, Refused, Hosts
<1> HIDE DEF P
<1>2. Spec => []P
  BY <1>1, Invariant, PTL
<1> QED
  BY <1>2 DEF P
=============================================================================
