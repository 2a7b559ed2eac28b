------------------------ MODULE AssistantTurnProofs ------------------------
(***************************************************************************)
(* Proofs about AssistantTurn, for any number of blocks and of streams     *)
(* that fail: presentations and the tools they run do not overlap, and     *)
(* the next request answers every call.                                    *)
(***************************************************************************)
EXTENDS AssistantTurn, TLAPS, FunctionTheorems, WellFoundedInduction

(* Blocks are numbered as they arrive. *)
Increasing(content) ==
  \A i, j \in 1..Len(content) : i < j => content[i].id < content[j].id

Numbered(t, n) ==
  Increasing(t.content) /\ \A i \in 1..Len(t.content) : t.content[i].id <= n

(* Every presentation but the one that holds the lock is of an earlier     *)
(* answer, and moves the index of this one on once at most.                *)
Room(t, n) ==
  /\ t.index + Len(t.running) <= n + 1
  /\ Len(t.running) + Len(t.content) <= n + (IF t.locked THEN 1 ELSE 0)
  /\ t.locked => t.content # <<>>

Distinct(s) == \A i, j \in 1..Len(s) : s[i] = s[j] => i = j

CallsSaved ==
  Distinct(calls) /\ (phase \in {"wait", "collected"} => calls = CallsOf(turn.content))

Common == Numbered(turn, arrived) /\ Room(turn, arrived) /\ CallsSaved

(* One presentation at most: it holds the lock, and presents the block at  *)
(* the index unless the cut took it away.                                  *)
Alone(t, n) ==
  /\ Len(t.running) <= 1
  /\ t.locked <=> t.running # <<>>
  /\ t.ready => t.running = <<>> /\ t.index > Len(t.content)
  /\ \A k \in 1..Len(t.running) : LET it == t.running[k] IN
       /\ it.skip = t.rejected
       /\ it.block.id <= n
       /\ IF t.index <= Len(t.content)
          THEN /\ it.block.id = t.content[t.index].id
               /\ it.block.kind = t.content[t.index].kind
          ELSE \A i \in 1..Len(t.content) : t.content[i].id # it.block.id

(* Before the answer is cut. *)
OnTrack(t) ==
  t.index <= Len(t.content) + 1 /\ (t.running # <<>> => t.index <= Len(t.content))

(* Calls before the index are answered, the others have no result. *)
Answering(t, r, n) ==
  /\ \A k \in 1..Len(t.results) : t.results[k].call <= n
  /\ \A i \in 1..Len(t.content) : LET block == t.content[i] IN
       block.kind \in Tools =>
         IF i < t.index
         THEN Answered(t, r, block)
         ELSE \A k \in 1..Len(t.results) : t.results[k].call # block.id

(* What runs is in ran. *)
Recorded(t, r) ==
  \A k \in 1..Len(t.running) : Runs(t.running[k]) => Contains(r, t.running[k].block.id)

(* What ran comes before the block at the index, or is it. *)
Ordered(t, r, n) ==
  /\ \A i, j \in 1..Len(r) : i < j => r[i] < r[j]
  /\ \A i \in 1..Len(r) : r[i] <= n
  /\ t.index <= Len(t.content) =>
       \A i \in 1..Len(r) :
         \/ r[i] < t.content[t.index].id
         \/ r[i] = t.content[t.index].id /\ t.running # <<>> /\ Runs(t.running[1])

NotOvertaken ==
  /\ Alone(turn, arrived) /\ Answering(turn, ran, arrived) /\ Ordered(turn, ran, arrived)
  /\ Recorded(turn, ran)
  /\ phase \in {"stream", "broken", "closed", "save"} => OnTrack(turn)
  /\ phase = "collected" => turn.running = <<>> /\ turn.index > Len(turn.content)

TurnInv == TypeOK /\ Common /\ (~overtaken => NotOvertaken)

USE TurnAssumption

-----------------------------------------------------------------------------
(* Sequences, and functions defined by recursion.                          *)

(* Induction without an operator as parameter: a set of numbers has a      *)
(* least element.                                                          *)
Below == {p \in Nat \X Nat : p[1] < p[2]}

LEMMA Least ==
  ASSUME NEW T \in SUBSET Nat, T # {}
  PROVE  \E x \in T : \A y \in T : x <= y
<1>1. IsWellFoundedOn(Below, Nat) BY NatLessThanWellFounded, Zenon DEF OpToRel, Below
<1>2. PICK x \in T : \A y \in T : ~(<<y, x>> \in Below) BY <1>1, WFMin, Zenon
<1>3. ASSUME NEW y \in T PROVE x <= y
  <2>1. <<y, x>> \in Nat \X Nat OBVIOUS
  <2>2. ~(y < x) BY <1>2, <2>1 DEF Below
  <2> QED BY <2>2
<1> QED BY <1>3

(* Induction up to n.                                                      *)
LEMMA UpTo ==
  ASSUME NEW n \in Nat, NEW T \in SUBSET (0..n), 0 \in T,
         \A k \in 0..n : k > 0 /\ k - 1 \in T => k \in T
  PROVE  T = 0..n
<1> DEFINE U == (0..n) \ T
<1>1. SUFFICES ASSUME U # {} PROVE FALSE
  OBVIOUS
<1>2. U \in SUBSET Nat OBVIOUS
<1>3. PICK x \in U : \A y \in U : x <= y BY <1>1, <1>2, Least
<1>4. x \in 0..n /\ x > 0 OBVIOUS
<1>5. x - 1 \in 0..n /\ ~(x <= x - 1) BY <1>4
<1>6. x - 1 \in T BY <1>3, <1>5
<1> QED BY <1>4, <1>6

(* The equation of a function defined by recursion has a solution, so the  *)
(* CHOOSE of its definition finds one.                                     *)
Steps(N, V) == [(1..N) \X V -> V]

IsRecursion(f, N, V, base, step) ==
  /\ f \in [0..N -> V] /\ f[0] = base
  /\ \A n \in 0..N : n > 0 => f[n] = step[<<n, f[n - 1]>>]

LEMMA Recursion ==
  ASSUME NEW N \in Nat, NEW V, NEW base \in V, NEW step \in Steps(N, V)
  PROVE  \E f : IsRecursion(f, N, V, base, step)
<1> DEFINE Defines(f, m) ==
             f[0] = base /\ \A n \in 0..m : n > 0 => f[n] = step[<<n, f[n - 1]>>]
           T == {m \in 0..N : \E f \in [0..m -> V] : Defines(f, m)}
<1>1. T \in SUBSET (0..N) OBVIOUS
<1>2. 0 \in T
  <2> DEFINE f == [n \in 0..0 |-> base]
  <2>1. f \in [0..0 -> V] /\ Defines(f, 0) OBVIOUS
  <2> HIDE DEF f, Defines
  <2>2. \E g \in [0..0 -> V] : Defines(g, 0) BY <2>1
  <2> QED BY <2>2
<1>3. ASSUME NEW m \in 0..N, m > 0, m - 1 \in T PROVE m \in T
  <2>1. PICK g \in [0..(m - 1) -> V] : Defines(g, m - 1) BY <1>3
  <2> DEFINE x == step[<<m, g[m - 1]>>]
             f == [n \in 0..m |-> IF n = m THEN x ELSE g[n]]
  <2>2. m - 1 \in 0..(m - 1) /\ m \in 1..N BY <1>3
  <2>3. <<m, g[m - 1]>> \in (1..N) \X V BY <2>2
  <2>4. x \in V BY <2>3 DEF Steps
  <2> HIDE DEF x
  <2>5. \A n \in 0..m : n = m \/ n \in 0..(m - 1) BY <1>3
  <2>6. f \in [0..m -> V] BY <2>4, <2>5
  <2>7. f[0] = base
    <3>1. 0 \in 0..m /\ 0 # m BY <1>3
    <3> QED BY <2>1, <3>1
  <2>8. ASSUME NEW n \in 0..m, n > 0 PROVE f[n] = step[<<n, f[n - 1]>>]
    <3>1. n - 1 \in 0..m /\ n - 1 # m /\ n - 1 \in 0..(m - 1) BY <1>3, <2>8
    <3>2. f[n - 1] = g[n - 1] BY <3>1
    <3>3. CASE n = m
      <4>1. f[n] = x BY <3>3
      <4> QED BY <3>2, <3>3, <4>1 DEF x
    <3>4. CASE n # m
      <4>1. n \in 0..(m - 1) BY <2>5, <3>4
      <4>2. f[n] = g[n] BY <3>4
      <4>3. g[n] = step[<<n, g[n - 1]>>] BY <2>1, <2>8, <4>1
      <4> QED BY <3>2, <4>2, <4>3
    <3> QED BY <3>3, <3>4
  <2> HIDE DEF f
  <2>9. Defines(f, m) BY <2>7, <2>8
  <2> QED BY <2>6, <2>9
<1> HIDE DEF T
<1>4. T = 0..N BY <1>1, <1>2, <1>3, UpTo
<1>5. N \in T BY <1>4
<1> QED BY <1>5 DEF T, IsRecursion

LEMMA AmongElements ==
  ASSUME NEW V, NEW s \in Seq(V), NEW S
  PROVE  /\ Among(s, S) \in Seq(V)
         /\ ToSet(Among(s, S)) = ToSet(s) \cap S
         /\ Distinct(s) => Distinct(Among(s, S))
<1> DEFINE Is(f) ==
             f = [n \in 0..Len(s) |->
                   IF n = 0 THEN <<>>
                   ELSE IF s[n] \in S THEN Append(f[n - 1], s[n]) ELSE f[n - 1]]
           kept == CHOOSE f : Is(f)
           From(n, x) == \E i \in 1..n : s[i] = x
           Good(n) == /\ kept[n] \in Seq(V)
                      /\ \A k \in 1..Len(kept[n]) : kept[n][k] \in S /\ From(n, kept[n][k])
                      /\ \A i \in 1..n : s[i] \in S => \E k \in 1..Len(kept[n]) : kept[n][k] = s[i]
                      /\ Distinct(s) => Distinct(kept[n])
           T == {n \in 0..Len(s) : Good(n)}
<1>1. Among(s, S) = kept[Len(s)] BY DEF Among
<1>2. Len(s) \in Nat OBVIOUS
<1>3. \A n \in 0..Len(s) :
        kept[n] = IF n = 0 THEN <<>>
                  ELSE IF s[n] \in S THEN Append(kept[n - 1], s[n]) ELSE kept[n - 1]
  <2> DEFINE W == Seq(V)
             step == [p \in (1..Len(s)) \X W |-> IF s[p[1]] \in S THEN Append(p[2], s[p[1]]) ELSE p[2]]
  <2>1. step \in Steps(Len(s), W)
    <3>1. ASSUME NEW p \in (1..Len(s)) \X W PROVE step[p] \in W
      <4>1. p[1] \in 1..Len(s) /\ p[2] \in Seq(V) /\ s[p[1]] \in V BY <3>1
      <4> QED BY <4>1
    <3> QED BY <3>1 DEF Steps
  <2>2. <<>> \in W OBVIOUS
  <2> HIDE DEF W, step
  <2>3. PICK f : IsRecursion(f, Len(s), W, <<>>, step) BY <1>2, <2>1, <2>2, Recursion
  <2>9. /\ f \in [0..Len(s) -> W] /\ f[0] = <<>>
        /\ \A n \in 0..Len(s) : n > 0 => f[n] = step[<<n, f[n - 1]>>]
    BY <2>3 DEF IsRecursion
  <2>4. ASSUME NEW n \in 0..Len(s), n > 0
        PROVE  f[n] = IF s[n] \in S THEN Append(f[n - 1], s[n]) ELSE f[n - 1]
    <3>1. n \in 1..Len(s) /\ n - 1 \in 0..Len(s) BY <1>2, <2>4
    <3>2. <<n, f[n - 1]>> \in (1..Len(s)) \X W BY <2>9, <3>1
    <3>3. step[<<n, f[n - 1]>>] = IF s[n] \in S THEN Append(f[n - 1], s[n]) ELSE f[n - 1]
      BY <3>2 DEF step
    <3> QED BY <2>9, <2>4, <3>3
  <2>5. Is(f)
    <3> DEFINE h == [n \in 0..Len(s) |->
                      IF n = 0 THEN <<>>
                      ELSE IF s[n] \in S THEN Append(f[n - 1], s[n]) ELSE f[n - 1]]
    <3>1. \A n \in 0..Len(s) : f[n] = h[n] BY <1>2, <2>9, <2>4
    <3>2. f = [n \in 0..Len(s) |-> f[n]] BY <2>9
    <3>3. h = [n \in 0..Len(s) |-> h[n]] OBVIOUS
    <3> HIDE DEF h
    <3>4. f = h BY <3>1, <3>2, <3>3
    <3> QED BY <3>4 DEF h
  <2> HIDE DEF Is
  <2>6. Is(kept) BY <2>5, Zenon
  <2> HIDE DEF kept
  <2> DEFINE h == [n \in 0..Len(s) |->
                    IF n = 0 THEN <<>>
                    ELSE IF s[n] \in S THEN Append(kept[n - 1], s[n]) ELSE kept[n - 1]]
  <2>7. kept = h BY <2>6 DEF Is
  <2>8. \A n \in 0..Len(s) :
          h[n] = IF n = 0 THEN <<>>
                 ELSE IF s[n] \in S THEN Append(kept[n - 1], s[n]) ELSE kept[n - 1]
    OBVIOUS
  <2> HIDE DEF h
  <2> QED BY <2>7, <2>8
<1> HIDE DEF kept, Is
<1>4. kept[0] = <<>> BY <1>2, <1>3
<1>5. ASSUME NEW n \in 0..Len(s), n > 0
      PROVE  kept[n] = IF s[n] \in S THEN Append(kept[n - 1], s[n]) ELSE kept[n - 1]
  BY <1>2, <1>3, <1>5
<1>6. Good(0) BY <1>4 DEF Distinct
<1>7. ASSUME NEW n \in 0..Len(s), n > 0, Good(n - 1) PROVE Good(n)
  <2> DEFINE a == kept[n - 1]
             m == Len(a)
  <2>1. n \in 1..Len(s) /\ s[n] \in V /\ n \in 1..n /\ (1..(n-1)) \subseteq 1..n BY <1>2, <1>7
  <2>2. a \in Seq(V) /\ m \in Nat BY <1>7
  <2>3. \A k \in 1..m : a[k] \in S /\ From(n - 1, a[k]) BY <1>7
  <2>4. \A i \in 1..(n - 1) : s[i] \in S => \E k \in 1..m : a[k] = s[i] BY <1>7
  <2>5. Distinct(s) => \A i, j \in 1..m : a[i] = a[j] => i = j BY <1>7 DEF Distinct
  <2>6. \A i \in 1..n : i = n \/ i \in 1..(n - 1) BY <2>1
  <2> HIDE DEF a
  <2>7. \A k \in 1..m : From(n, a[k]) BY <2>1, <2>3
  <2>8. CASE s[n] \notin S
    <3>1. kept[n] = a BY <1>5, <1>7, <2>8 DEF a
    <3>2. \A i \in 1..n : s[i] \in S => \E k \in 1..m : a[k] = s[i] BY <2>4, <2>6, <2>8
    <3> QED BY <2>2, <2>3, <2>5, <2>7, <3>1, <3>2 DEF Distinct
  <2>9. CASE s[n] \in S
    <3> DEFINE b == Append(a, s[n])
    <3>1. kept[n] = b BY <1>5, <1>7, <2>9 DEF a
    <3>2. /\ b \in Seq(V) /\ Len(b) = m + 1 /\ b[m + 1] = s[n]
          /\ \A k \in 1..m : b[k] = a[k]
      BY <2>1, <2>2
    <3> HIDE DEF b, m
    <3>3. \A k \in 1..(m + 1) : k \in 1..m \/ k = m + 1 BY <2>2
    <3>4. m + 1 \in 1..(m + 1) /\ (1..m) \subseteq 1..(m + 1) BY <2>2
    <3>5. \A k \in 1..(m + 1) : b[k] \in S /\ From(n, b[k])
      BY <2>1, <2>3, <2>7, <2>9, <3>2, <3>3
    <3>6. \A i \in 1..n : s[i] \in S => \E k \in 1..(m + 1) : b[k] = s[i]
      BY <2>4, <2>6, <3>2, <3>4
    <3>7. ASSUME Distinct(s), NEW i \in 1..m PROVE a[i] # s[n]
      <4>1. PICK j \in 1..(n - 1) : s[j] = a[i] BY <2>3, <3>7
      <4>2. j \in 1..Len(s) /\ j # n BY <1>2, <2>1
      <4> QED BY <2>1, <3>7, <4>1, <4>2 DEF Distinct
    <3>8. Distinct(s) => \A i, j \in 1..(m + 1) : b[i] = b[j] => i = j
      BY <2>5, <3>2, <3>3, <3>7
    <3> QED BY <3>1, <3>2, <3>5, <3>6, <3>8 DEF Distinct
  <2> QED BY <2>8, <2>9
<1>8. Good(Len(s))
  <2> HIDE DEF Good
  <2>1. T \in SUBSET (0..Len(s)) OBVIOUS
  <2>2. 0 \in T BY <1>2, <1>6
  <2>3. ASSUME NEW k \in 0..Len(s), k > 0, k - 1 \in T PROVE k \in T
    <3>1. Good(k - 1) BY <2>3
    <3> QED BY <1>7, <2>3, <3>1
  <2>4. T = 0..Len(s)
    <3> HIDE DEF T
    <3> QED BY <1>2, <2>1, <2>2, <2>3, UpTo
  <2>5. Len(s) \in T BY <1>2, <2>4
  <2> QED BY <2>5
<1> DEFINE w == kept[Len(s)]
<1>9. /\ w \in Seq(V) /\ \A k \in 1..Len(w) : w[k] \in S /\ \E i \in 1..Len(s) : s[i] = w[k]
      /\ \A i \in 1..Len(s) : s[i] \in S => \E k \in 1..Len(w) : w[k] = s[i]
      /\ Distinct(s) => Distinct(w)
  BY <1>8
<1> HIDE DEF w
<1>10. ToSet(w) = ToSet(s) \cap S
  <2>1. ToSet(w) = {w[k] : k \in 1..Len(w)} BY <1>9 DEF ToSet
  <2>2. ToSet(s) = {s[k] : k \in 1..Len(s)} BY DEF ToSet
  <2> QED BY <1>9, <2>1, <2>2
<1> QED BY <1>1, <1>9, <1>10 DEF w

(* A sequence without repetition is not longer than one with its elements. *)
LEMMA DistinctLength ==
  ASSUME NEW V, NEW s \in Seq(V), NEW r \in Seq(V), Distinct(s), ToSet(s) \subseteq ToSet(r)
  PROVE  Len(s) <= Len(r)
<1> DEFINE f == [i \in 1..Len(s) |-> CHOOSE j \in 1..Len(r) : r[j] = s[i]]
<1>1. \A i \in 1..Len(s) : \E j \in 1..Len(r) : r[j] = s[i] BY DEF ToSet
<1>2. \A i \in 1..Len(s) : f[i] \in 1..Len(r) /\ r[f[i]] = s[i] BY <1>1
<1>3. f \in [1..Len(s) -> 1..Len(r)] BY <1>2
<1> HIDE DEF f
<1>4. \A i, j \in 1..Len(s) : f[i] = f[j] => i = j BY <1>2 DEF Distinct
<1>5. f \in Injection(1..Len(s), 1..Len(r)) BY <1>3, <1>4 DEF Injection, IsInjective
<1>6. ExistsInjection(1..Len(s), 1..Len(r)) BY <1>5 DEF ExistsInjection
<1> QED BY <1>6, Fun_NatInjLeq

(* The calls of an answer.                                                 *)
LEMMA CallsElements ==
  ASSUME NEW c \in Seq(Blocks), Increasing(c)
  PROVE  /\ CallsOf(c) \in Seq(1..MaxBlocks) /\ Distinct(CallsOf(c))
         /\ ToSet(CallsOf(c)) = {c[i].id : i \in {j \in 1..Len(c) : c[j].kind \in Tools}}
<1> DEFINE ids == [i \in 1..Len(c) |-> c[i].id]
           S == {c[i].id : i \in {j \in 1..Len(c) : c[j].kind \in Tools}}
           B == 1..MaxBlocks
<1>1. \A i \in 1..Len(c) : c[i] \in Blocks OBVIOUS
<1>2. Len(c) \in Nat /\ \A i \in 1..Len(c) : c[i].id \in B BY <1>1 DEF Blocks
<1>3. \A i \in 1..Len(c) : ids[i] = c[i].id OBVIOUS
<1>4. ids \in [1..Len(c) -> B] BY <1>2
<1>5. ids \in Seq(B) /\ Len(ids) = Len(c)
  <2> HIDE DEF ids, B
  <2> QED BY <1>2, <1>4
<1>6. Distinct(ids)
  <2> HIDE DEF ids
  <2>1. \A i, j \in 1..Len(c) : i < j => c[i].id # c[j].id
    <3>1. \A i \in 1..Len(c) : c[i].id \in Nat BY <1>2
    <3> QED BY <3>1 DEF Increasing
  <2>2. \A i, j \in 1..Len(c) : i < j \/ j < i \/ i = j BY <1>2
  <2> QED BY <1>3, <1>5, <2>1, <2>2 DEF Distinct
<1>7. ToSet(ids) \cap S = S
  <2>1. ToSet(ids) = {ids[i] : i \in 1..Len(c)} BY <1>5 DEF ToSet
  <2> QED BY <1>3, <2>1
<1> HIDE DEF ids
<1>8. CallsOf(c) = Among(ids, S) BY DEF CallsOf, ids
<1> HIDE DEF S, B
<1>9. Among(ids, S) \in Seq(B) /\ ToSet(Among(ids, S)) = S /\ Distinct(Among(ids, S))
  BY <1>5, <1>6, <1>7, AmongElements
<1> QED BY <1>8, <1>9 DEF S, B

-----------------------------------------------------------------------------
(* What a presentation that is asked for does to the turn: it starts, or   *)
(* there is another one or nothing to present.                             *)

SameBlocks(c, d) ==
  Len(d) = Len(c) /\ \A i \in 1..Len(c) : d[i].id = c[i].id /\ d[i].kind = c[i].kind

Starts(t, u) ==
  /\ ~t.locked /\ t.index <= Len(t.content) /\ u.locked
  /\ \E b \in Blocks :
       /\ b.id = t.content[t.index].id /\ b.kind = t.content[t.index].kind
       /\ u.running = Append(t.running, [block |-> b, skip |-> t.rejected])

Rests(t, u) == u.locked = t.locked /\ u.running = t.running

Presents(t, u) ==
  /\ u \in Turns
  /\ u.index = t.index /\ u.results = t.results /\ u.rejected = t.rejected
  /\ SameBlocks(t.content, u.content)
  /\ u.ready => t.ready \/ (~t.locked /\ t.index > Len(t.content))
  /\ Starts(t, u) \/ Rests(t, u)

LEMMA LastType ==
  ASSUME NEW S, NEW s \in Seq(S), s # <<>>
  PROVE  Last(s) \in S
<1>1. Len(s) \in 1..Len(s) OBVIOUS
<1> QED BY <1>1 DEF Last

LEMMA TurnFields ==
  ASSUME NEW t \in Turns
  PROVE  /\ t.content \in Seq(Blocks) /\ Len(t.content) \in Nat
         /\ \A i \in 1..Len(t.content) : t.content[i] \in Blocks
         /\ t.index \in 1..(MaxBlocks + 1) /\ t.index \in Nat
         /\ t.locked \in BOOLEAN /\ t.pending \in BOOLEAN /\ t.ready \in BOOLEAN
         /\ t.complete \in BOOLEAN /\ t.rejected \in BOOLEAN /\ t.saved \in BOOLEAN
         /\ t.held \in BOOLEAN
         /\ t.results \in Seq([call : 1..MaxBlocks, from : 0..MaxBlocks])
         /\ t.running \in Seq([block : Blocks, skip : BOOLEAN])
         /\ Len(t.results) \in Nat /\ Len(t.running) \in Nat
BY DEF Turns

LEMMA ResultsType ==
  ASSUME NEW t \in Turns
  PROVE  \A k \in 1..Len(t.results) :
           t.results[k].call \in 1..MaxBlocks /\ t.results[k].from \in 0..MaxBlocks
<1> DEFINE R == [call : 1..MaxBlocks, from : 0..MaxBlocks]
           s == t.results
<1>1. s \in Seq(R) BY TurnFields
<1>2. \A x \in R : x.call \in 1..MaxBlocks /\ x.from \in 0..MaxBlocks OBVIOUS
<1> HIDE DEF R, s
<1>3. \A k \in 1..Len(s) : s[k] \in R BY <1>1
<1> QED BY <1>2, <1>3 DEF s

LEMMA RunningType ==
  ASSUME NEW t \in Turns
  PROVE  \A k \in 1..Len(t.running) :
           t.running[k].block \in Blocks /\ t.running[k].skip \in BOOLEAN
<1> DEFINE R == [block : Blocks, skip : BOOLEAN]
           s == t.running
<1>1. s \in Seq(R) BY TurnFields
<1>2. \A x \in R : x.block \in Blocks /\ x.skip \in BOOLEAN OBVIOUS
<1> HIDE DEF R, s
<1>3. \A k \in 1..Len(s) : s[k] \in R BY <1>1
<1> QED BY <1>2, <1>3 DEF s

LEMMA SameBlocksReflexive == \A c : SameBlocks(c, c)
BY DEF SameBlocks

LEMMA PresentPresents ==
  ASSUME NEW t \in Turns
  PROVE  Presents(t, Present(t))
<1>1. CASE t.locked
  <2>1. Present(t) = [t EXCEPT !.pending = TRUE] BY <1>1 DEF Present
  <2>2. Present(t) \in Turns BY <2>1 DEF Turns
  <2> QED BY <2>1, <2>2, SameBlocksReflexive DEF Presents, Rests, Turns
<1>2. CASE ~t.locked /\ t.index > Len(t.content)
  <2>1. Present(t) = [t EXCEPT !.pending = FALSE, !.ready = t.ready \/ t.complete]
    BY <1>2 DEF Present
  <2>2. (t.ready \/ t.complete) \in BOOLEAN OBVIOUS
  <2>3. Present(t) \in Turns BY <2>1, <2>2 DEF Turns
  <2> QED BY <1>2, <2>1, <2>3, SameBlocksReflexive DEF Presents, Rests, Turns
<1>3. CASE ~t.locked /\ ~(t.index > Len(t.content))
  <2> DEFINE b == t.content[t.index]
             p == [block |-> b, skip |-> t.rejected]
  <2>1. t.index \in 1..Len(t.content) /\ b \in Blocks BY <1>3, TurnFields
  <2>2. Present(t) = [t EXCEPT !.locked = TRUE, !.pending = FALSE, !.running = Append(t.running, p)]
    BY <1>3 DEF Present, Started
  <2>3. Append(t.running, p) \in Seq([block : Blocks, skip : BOOLEAN])
    <3>1. p \in [block : Blocks, skip : BOOLEAN]
      <4>1. t.rejected \in BOOLEAN BY TurnFields
      <4> QED BY <2>1, <4>1
    <3>2. t.running \in Seq([block : Blocks, skip : BOOLEAN]) BY TurnFields
    <3> HIDE DEF p
    <3> QED BY <3>1, <3>2
  <2>4. Present(t) \in Turns
    <3> DEFINE r == Append(t.running, p)
    <3> HIDE DEF r
    <3> QED BY <2>2, <2>3 DEF Turns, r
  <2>5. /\ Present(t).index = t.index /\ Present(t).results = t.results
        /\ Present(t).rejected = t.rejected /\ Present(t).content = t.content
        /\ Present(t).ready = t.ready /\ Present(t).locked
        /\ Present(t).running = Append(t.running, p)
    <3> DEFINE r == Append(t.running, p)
    <3> HIDE DEF r
    <3> QED BY <2>2 DEF Turns, r
  <2>6. Starts(t, Present(t))
    <3>1. t.index <= Len(t.content) BY <2>1
    <3> HIDE DEF b
    <3>2. b.id = t.content[t.index].id /\ b.kind = t.content[t.index].kind BY DEF b
    <3> QED BY <1>3, <2>1, <2>5, <3>1, <3>2 DEF Starts
  <2> QED BY <2>4, <2>5, <2>6, SameBlocksReflexive DEF Presents
<1> QED BY <1>1, <1>2, <1>3, TurnFields

LEMMA EndedBlocks ==
  ASSUME NEW t \in Turns, NEW S
  PROVE  /\ Ended(t, S) \in Turns /\ ~Ended(t, S).ready
         /\ SameBlocks(t.content, Ended(t, S).content)
         /\ Ended(t, S).index = t.index /\ Ended(t, S).results = t.results
         /\ Ended(t, S).rejected = t.rejected /\ Ended(t, S).locked = t.locked
         /\ Ended(t, S).running = t.running
<1> DEFINE c == t.content
           d == [i \in 1..Len(c) |-> IF i \in S THEN [c[i] EXCEPT !.partial = FALSE] ELSE c[i]]
<1>1. c \in Seq(Blocks) /\ Len(c) \in Nat /\ \A i \in 1..Len(c) : c[i] \in Blocks
  BY TurnFields
<1>2. Ended(t, S) = [t EXCEPT !.content = d, !.ready = FALSE] BY DEF Ended
<1> HIDE DEF c
<1>3. \A i \in 1..Len(c) : d[i] \in Blocks /\ d[i].id = c[i].id /\ d[i].kind = c[i].kind
  BY <1>1 DEF Blocks
<1>4. d \in [1..Len(c) -> Blocks] BY <1>3
<1>5. d \in Seq(Blocks) /\ Len(d) = Len(c) BY <1>1, <1>4
<1>6. SameBlocks(c, d) BY <1>3, <1>5 DEF SameBlocks
<1> HIDE DEF d
<1> QED BY <1>2, <1>5, <1>6 DEF Turns, c

LEMMA ToolCallsEndPresents ==
  ASSUME NEW t \in Turns
  PROVE  Presents(t, ToolCallsEnd(t))
<1> DEFINE open == {i \in 1..Len(t.content) : IsOpen(t.content[i])}
           first == Min(open)
           a == Ended(t, {first})
           one == Present(a)
           b == Ended(one, open)
           two == Present(b)
<1>1. ToolCallsEnd(t) = IF open = {} THEN t ELSE IF open = {first} THEN one ELSE two
  BY DEF ToolCallsEnd
<1>2. a \in Turns /\ Presents(a, one) BY EndedBlocks, PresentPresents
<1>3. Presents(t, one)
  <2>1. /\ ~a.ready /\ SameBlocks(t.content, a.content) /\ a.index = t.index
        /\ a.results = t.results /\ a.rejected = t.rejected /\ a.locked = t.locked
        /\ a.running = t.running
    BY EndedBlocks
  <2> HIDE DEF one, a
  <2>2. SameBlocks(t.content, one.content) /\ Len(a.content) = Len(t.content)
    BY <1>2, <2>1 DEF Presents, SameBlocks
  <2>3. Starts(a, one) => Starts(t, one)
    <3>1. SUFFICES ASSUME Starts(a, one) PROVE Starts(t, one)
      OBVIOUS
    <3>2. t.index \in 1..Len(t.content) BY <2>1, <2>2, <3>1, TurnFields DEF Starts
    <3>3. /\ a.content[t.index].id = t.content[t.index].id
          /\ a.content[t.index].kind = t.content[t.index].kind
      BY <2>1, <3>2 DEF SameBlocks
    <3> QED BY <2>1, <2>2, <3>1, <3>3 DEF Starts
  <2>4. Rests(a, one) => Rests(t, one) BY <2>1 DEF Rests
  <2> QED BY <1>2, <2>1, <2>2, <2>3, <2>4 DEF Presents
<1>4. b \in Turns /\ Presents(b, two) BY <1>3, EndedBlocks, PresentPresents DEF Presents
<1>5. one.locked \/ one.index > Len(one.content)
  <2>1. CASE Starts(a, one) BY <2>1, Zenon DEF Starts
  <2>2. CASE Rests(a, one)
    <3>1. CASE a.locked BY <2>2, <3>1 DEF Rests
    <3>2. CASE ~a.locked /\ a.index > Len(a.content)
      BY <1>2, <3>2 DEF Presents, SameBlocks
    <3>3. CASE ~a.locked /\ ~(a.index > Len(a.content))
      <4>1. one = Started(a) BY <3>3 DEF Present
      <4>2. one.locked BY <1>2, <4>1 DEF Started, Turns
      <4> QED BY <4>2
    <3> QED BY <3>1, <3>2, <3>3
  <2> QED BY <1>2, <2>1, <2>2 DEF Presents
<1>6. Rests(b, two) /\ (two.ready => ~b.locked /\ b.index > Len(b.content))
  <2> HIDE DEF one, two
  <2>1. one \in Turns BY <1>3 DEF Presents
  <2>2. b.locked = one.locked /\ b.index = one.index /\ Len(b.content) = Len(one.content) /\ ~b.ready
    BY <2>1, EndedBlocks DEF SameBlocks
  <2>3. b.locked \/ b.index > Len(b.content) BY <1>5, <2>2
  <2>4. ~Starts(b, two) BY <1>4, <2>3, TurnFields DEF Starts
  <2> QED BY <1>4, <2>2, <2>4 DEF Presents
<1>7. Presents(t, two)
  <2> HIDE DEF one, two
  <2>1. one \in Turns BY <1>3 DEF Presents
  <2>2. /\ b.index = one.index /\ b.results = one.results /\ b.rejected = one.rejected
        /\ b.locked = one.locked /\ b.running = one.running
        /\ SameBlocks(one.content, b.content)
    BY <2>1, EndedBlocks
  <2>3. SameBlocks(t.content, two.content)
    BY <1>3, <1>4, <2>2 DEF Presents, SameBlocks
  <2>4. two.locked = one.locked /\ two.running = one.running BY <1>6, <2>2 DEF Rests
  <2>5. Starts(t, one) => Starts(t, two) BY <2>4 DEF Starts
  <2>6. Rests(t, one) => Rests(t, two) BY <2>4 DEF Rests
  <2>7. two.ready => ~t.locked /\ t.index > Len(t.content)
    <3>1. two.ready => ~one.locked /\ one.index > Len(one.content)
      BY <1>6, <2>2 DEF SameBlocks
    <3>2. one.index = t.index /\ Len(one.content) = Len(t.content) BY <1>3 DEF Presents, SameBlocks
    <3>3. ~one.locked => ~t.locked BY <1>3 DEF Presents, Starts, Rests
    <3> QED BY <3>1, <3>2, <3>3
  <2> QED BY <1>3, <1>4, <2>2, <2>3, <2>5, <2>6, <2>7 DEF Presents
<1>8. Presents(t, t) BY SameBlocksReflexive DEF Presents, Rests
<1> QED BY <1>1, <1>3, <1>7, <1>8

-----------------------------------------------------------------------------
(* What holds of a turn still holds of it with what is presented.          *)

LEMMA SameBlocksNumbered ==
  ASSUME NEW t \in Turns, NEW u \in Turns, NEW n, SameBlocks(t.content, u.content),
         Numbered(t, n)
  PROVE  Numbered(u, n)
BY DEF Numbered, Increasing, SameBlocks

LEMMA SameBlocksCalls ==
  ASSUME NEW c \in Seq(Blocks), NEW d \in Seq(Blocks), SameBlocks(c, d)
  PROVE  CallsOf(d) = CallsOf(c)
<1>1. [i \in 1..Len(c) |-> c[i].id] = [i \in 1..Len(d) |-> d[i].id] BY DEF SameBlocks
<1>2. {i \in 1..Len(c) : c[i].kind \in Tools} = {i \in 1..Len(d) : d[i].kind \in Tools}
  BY DEF SameBlocks
<1>3. {c[i].id : i \in {j \in 1..Len(c) : c[j].kind \in Tools}}
      = {d[i].id : i \in {j \in 1..Len(d) : d[j].kind \in Tools}}
  BY DEF SameBlocks
<1> QED BY <1>1, <1>3, Zenon DEF CallsOf

LEMMA PresentsRoom ==
  ASSUME NEW t \in Turns, NEW u, NEW n \in Nat, Presents(t, u), Room(t, n)
  PROVE  Room(u, n)
<1>1. u \in Turns /\ u.index = t.index /\ Len(u.content) = Len(t.content)
  BY DEF Presents, SameBlocks
<1>2. CASE Starts(t, u)
  <2>1. ~t.locked /\ u.locked /\ t.index <= Len(t.content) BY <1>2 DEF Starts
  <2>2. Len(u.running) = Len(t.running) + 1
    <3>1. t.running \in Seq([block : Blocks, skip : BOOLEAN]) BY TurnFields
    <3> QED BY <1>2, <3>1 DEF Starts
  <2> DEFINE i == t.index
             r == Len(t.running)
             c == Len(t.content)
  <2>3. i \in Nat /\ i > 0 /\ r \in Nat /\ c \in Nat BY TurnFields
  <2>4. i <= c /\ r + c <= n + 0 BY <2>1 DEF Room
  <2>5. u.index = i /\ Len(u.content) = c /\ Len(u.running) = r + 1 BY <1>1, <2>2
  <2> HIDE DEF i, r, c
  <2>6. i + (r + 1) <= n + 1 /\ (r + 1) + c <= n + 1 /\ c # 0 BY <2>3, <2>4
  <2>7. u.content # <<>> BY <2>5, <2>6
  <2> QED BY <2>1, <2>5, <2>6, <2>7 DEF Room
<1>3. CASE Rests(t, u)
  <2>1. t.content # <<>> => u.content # <<>>
    <3>1. t.content # <<>> => Len(t.content) # 0 BY TurnFields
    <3> QED BY <1>1, <3>1, TurnFields
  <2> QED BY <1>1, <1>3, <2>1 DEF Room, Rests
<1> QED BY <1>2, <1>3 DEF Presents

LEMMA StartedAlone ==
  ASSUME NEW t \in Turns, NEW n \in Nat, NEW u, Presents(t, u), Starts(t, u), Alone(t, n)
  PROVE  /\ t.running = <<>> /\ Len(u.running) = 1
         /\ u.running[1].skip = t.rejected
         /\ u.running[1].block.id = t.content[t.index].id
         /\ u.running[1].block.kind = t.content[t.index].kind
         /\ t.index \in 1..Len(t.content)
<1>1. ~t.locked /\ t.index <= Len(t.content) BY DEF Starts
<1>2. t.running = <<>> BY <1>1, TurnFields DEF Alone
<1>3. t.index \in 1..Len(t.content) BY <1>1, TurnFields
<1>4. PICK b \in Blocks : /\ b.id = t.content[t.index].id /\ b.kind = t.content[t.index].kind
                          /\ u.running = Append(t.running, [block |-> b, skip |-> t.rejected])
  BY DEF Starts
<1> DEFINE p == [block |-> b, skip |-> t.rejected]
<1>5. p.block = b /\ p.skip = t.rejected OBVIOUS
<1>6. u.running = Append(<<>>, p) BY <1>2, <1>4
<1> HIDE DEF p
<1>7. Len(u.running) = 1 /\ u.running[1] = p BY <1>6
<1> QED BY <1>2, <1>3, <1>4, <1>5, <1>7

LEMMA PresentsAlone ==
  ASSUME NEW t \in Turns, NEW u, NEW n \in Nat, Presents(t, u), Alone(t, n), Numbered(t, n)
  PROVE  Alone(u, n)
<1>1. /\ u \in Turns /\ u.index = t.index /\ u.rejected = t.rejected
      /\ SameBlocks(t.content, u.content) /\ Len(u.content) = Len(t.content)
  BY DEF Presents, SameBlocks
<1>2. t.index \in Nat /\ t.index > 0 /\ Len(t.content) \in Nat BY TurnFields
<1>3. CASE Starts(t, u)
  <2>1. /\ t.running = <<>> /\ Len(u.running) = 1 /\ u.running[1].skip = t.rejected
        /\ u.running[1].block.id = t.content[t.index].id
        /\ u.running[1].block.kind = t.content[t.index].kind
        /\ t.index \in 1..Len(t.content)
    BY <1>3, StartedAlone
  <2>2. u.locked /\ u.running # <<>>
    <3>1. u.running # <<>> BY <2>1
    <3> QED BY <1>3, <3>1 DEF Starts
  <2>3. ~u.ready
    <3>1. ~(t.index > Len(t.content)) BY <2>1
    <3> QED BY <3>1 DEF Presents, Alone
  <2>4. /\ u.running[1].block.id = u.content[u.index].id
        /\ u.running[1].block.kind = u.content[u.index].kind
        /\ u.running[1].block.id <= n
    BY <1>1, <2>1 DEF SameBlocks, Numbered
  <2>5. u.index <= Len(u.content) BY <1>1, <2>1
  <2>6. \A k \in 1..Len(u.running) : k = 1 BY <2>1
  <2> QED BY <1>1, <2>1, <2>2, <2>3, <2>4, <2>5, <2>6, TurnFields DEF Alone
<1>4. CASE Rests(t, u)
  <2>1. u.running = t.running /\ u.locked = t.locked BY <1>4 DEF Rests
  <2>2. u.ready => u.running = <<>> /\ u.index > Len(u.content)
    BY <1>1, <2>1, TurnFields DEF Presents, Alone
  <2>3. ASSUME NEW k \in 1..Len(u.running)
        PROVE  LET it == u.running[k] IN
                 /\ it.skip = u.rejected
                 /\ it.block.id <= n
                 /\ IF u.index <= Len(u.content)
                    THEN /\ it.block.id = u.content[u.index].id
                         /\ it.block.kind = u.content[u.index].kind
                    ELSE \A i \in 1..Len(u.content) : u.content[i].id # it.block.id
    <3>1. CASE u.index <= Len(u.content)
      <4>1. t.index \in 1..Len(t.content) BY <1>1, <1>2, <3>1
      <4> QED BY <1>1, <2>1, <2>3, <3>1, <4>1 DEF Alone, SameBlocks
    <3>2. CASE ~(u.index <= Len(u.content))
      BY <1>1, <2>1, <2>3, <3>2 DEF Alone, SameBlocks
    <3> QED BY <3>1, <3>2
  <2> QED BY <2>1, <2>2, <2>3 DEF Alone
<1> QED BY <1>3, <1>4 DEF Presents

LEMMA PresentsAnswering ==
  ASSUME NEW t \in Turns, NEW u, NEW n \in Nat, NEW r, Presents(t, u), Answering(t, r, n)
  PROVE  Answering(u, r, n)
<1>1. /\ u.index = t.index /\ u.results = t.results
      /\ Len(u.content) = Len(t.content)
      /\ \A i \in 1..Len(t.content) :
           u.content[i].id = t.content[i].id /\ u.content[i].kind = t.content[i].kind
  BY DEF Presents, SameBlocks
<1> QED BY <1>1 DEF Answering, Answered

LEMMA PresentsOnTrack ==
  ASSUME NEW t \in Turns, NEW u, Presents(t, u), OnTrack(t)
  PROVE  OnTrack(u)
<1>1. u.index = t.index /\ Len(u.content) = Len(t.content) BY DEF Presents, SameBlocks
<1>2. CASE Starts(t, u) BY <1>1, <1>2 DEF Starts, OnTrack
<1>3. CASE Rests(t, u) BY <1>1, <1>3 DEF Rests, OnTrack
<1> QED BY <1>2, <1>3 DEF Presents

(* The tools that ran.                                                     *)
LEMMA RanType ==
  ASSUME TypeOK, NEW t \in Turns, TurnBecomes(t)
  PROVE  ran' \in Seq(1..MaxBlocks)
<1> DEFINE now == t.running
<1>1. ran' = ran \/ (now # <<>> /\ ran' = Append(ran, Last(now).block.id))
  BY DEF TurnBecomes
<1>2. ASSUME now # <<>> PROVE Last(now).block.id \in 1..MaxBlocks
  <2>1. now \in Seq([block : Blocks, skip : BOOLEAN]) BY TurnFields
  <2>2. Last(now) \in [block : Blocks, skip : BOOLEAN] BY <1>2, <2>1, LastType
  <2> QED BY <2>2 DEF Blocks
<1>3. ran \in Seq(1..MaxBlocks) BY DEF TypeOK
<1> QED BY <1>1, <1>2, <1>3

LEMMA RanGrows ==
  ASSUME TypeOK, NEW t \in Turns, TurnBecomes(t)
  PROVE  \A e : Contains(ran, e) => Contains(ran', e)
<1> DEFINE now == t.running
           b == Last(now).block.id
<1>1. ran' = ran \/ (now # <<>> /\ ran' = Append(ran, b)) BY DEF TurnBecomes
<1>2. ran \in Seq(1..MaxBlocks) BY DEF TypeOK
<1> HIDE DEF b
<1>3. CASE ran' = Append(ran, b)
  <2>1. \A k \in 1..Len(ran) : k \in 1..Len(ran') /\ ran'[k] = ran[k]
    <3>1. Len(ran') = Len(ran) + 1 BY <1>2, <1>3
    <3> QED BY <1>2, <1>3, <3>1
  <2> QED BY <2>1 DEF Contains
<1> QED BY <1>1, <1>3

(* The presentation that ran before, if any, was of another block or of    *)
(* one that ran nothing.                                                   *)
Anew(u) ==
  \/ u.running = turn.running
  \/ /\ u.running = <<>>
     /\ u.index <= Len(u.content) =>
          \A i \in 1..Len(turn.running) :
            Runs(turn.running[i]) => turn.running[i].block.id # u.content[u.index].id

LEMMA PresentsOrdered ==
  ASSUME TypeOK, NEW u \in Turns, NEW t \in Turns, NEW n \in Nat, TurnBecomes(t),
         Presents(u, t), Alone(u, n), Numbered(u, n), Ordered(u, ran, n), Anew(u)
  PROVE  Ordered(t, ran', n)
<1>1. t.index = u.index /\ Len(t.content) = Len(u.content) /\ SameBlocks(u.content, t.content)
  BY DEF Presents, SameBlocks
<1>2. u.index \in Nat /\ u.index > 0 /\ Len(u.content) \in Nat /\ Len(ran) \in Nat
  BY TurnFields DEF TypeOK
<1>3. u.index <= Len(u.content) => t.content[t.index].id = u.content[u.index].id
  BY <1>1, <1>2 DEF SameBlocks
<1>4. turn' = t BY DEF TurnBecomes
<1>5. CASE Rests(u, t)
  <2>1. t.running = u.running BY <1>5 DEF Rests
  <2>2. ran' = ran
    <3>1. CASE u.running = <<>> BY <1>4, <2>1, <3>1 DEF TurnBecomes
    <3>2. CASE u.running # <<>>
      <4>1. u.running = turn.running BY <3>2 DEF Anew
      <4>2. Contains(turn.running, Last(t.running))
        <5>1. Len(u.running) \in Nat /\ Len(u.running) # 0 BY <3>2, TurnFields
        <5>2. Len(u.running) \in 1..Len(u.running) BY <5>1
        <5> QED BY <2>1, <4>1, <5>2 DEF Contains, Last
      <4> QED BY <1>4, <4>2 DEF TurnBecomes
    <3> QED BY <3>1, <3>2
  <2> QED BY <1>1, <1>3, <2>1, <2>2 DEF Ordered
<1>6. CASE Starts(u, t)
  <2>1. /\ u.running = <<>> /\ Len(t.running) = 1
        /\ t.running[1].block.id = u.content[u.index].id /\ u.index \in 1..Len(u.content)
    BY <1>6, StartedAlone
  <2> DEFINE it == t.running[1]
             b == u.content[u.index].id
  <2>2. Last(t.running) = it /\ t.running # <<>> /\ it.block.id = b BY <2>1 DEF Last
  <2>3. Runs(it) => ~Contains(turn.running, it)
    <3>1. ASSUME Runs(it), NEW i \in 1..Len(turn.running), turn.running[i] = it PROVE FALSE
      <4>1. turn.running # <<>> BY <3>1
      <4>2. turn.running[i].block.id # b BY <2>1, <3>1, <4>1 DEF Anew
      <4> QED BY <2>2, <3>1, <4>2
    <3> QED BY <3>1 DEF Contains
  <2>4. ran' = IF Runs(it) THEN Append(ran, b) ELSE ran
    BY <1>4, <2>2, <2>3 DEF TurnBecomes
  <2>5. /\ \A i \in 1..Len(ran) : ran[i] < b
        /\ \A i, j \in 1..Len(ran) : i < j => ran[i] < ran[j]
        /\ \A i \in 1..Len(ran) : ran[i] <= n
    BY <2>1 DEF Ordered
  <2>6. b <= n /\ b \in Nat
    <3>1. u.content[u.index] \in Blocks BY <2>1, TurnFields
    <3> QED BY <2>1, <3>1 DEF Numbered, Blocks
  <2>7. ran \in Seq(1..MaxBlocks) BY DEF TypeOK
  <2>8. t.content[t.index].id = b BY <1>3, <2>1
  <2> HIDE DEF it, b
  <2>9. CASE Runs(it)
    <3>1. /\ Len(ran') = Len(ran) + 1 /\ ran'[Len(ran) + 1] = b
          /\ \A i \in 1..Len(ran) : ran'[i] = ran[i]
      BY <2>4, <2>6, <2>7, <2>9
    <3>2. \A i \in 1..Len(ran') : i \in 1..Len(ran) \/ i = Len(ran) + 1 BY <1>2, <3>1
    <3>3. \A i \in 1..Len(ran') : ran'[i] < b \/ ran'[i] = b BY <2>5, <3>1, <3>2
    <3>4. \A i, j \in 1..Len(ran') : i < j => ran'[i] < ran'[j]
      BY <1>2, <2>5, <3>1, <3>2
    <3>5. \A i \in 1..Len(ran') : ran'[i] <= n BY <2>5, <2>6, <3>1, <3>2
    <3> QED BY <2>2, <2>8, <2>9, <3>3, <3>4, <3>5 DEF Ordered, it
  <2>10. CASE ~Runs(it) BY <2>4, <2>5, <2>8, <2>10 DEF Ordered
  <2> QED BY <2>9, <2>10
<1> QED BY <1>5, <1>6 DEF Presents

-----------------------------------------------------------------------------
(* A block arrives. *)

LEMMA PresentsRecorded ==
  ASSUME TypeOK, NEW u \in Turns, NEW t \in Turns, TurnBecomes(t),
         Presents(u, t), Anew(u), Recorded(turn, ran)
  PROVE  Recorded(t, ran')
<1>1. \A e : Contains(ran, e) => Contains(ran', e) BY RanGrows
<1>2. \A k \in 1..Len(u.running) : Runs(u.running[k]) => Contains(ran', u.running[k].block.id)
  BY <1>1 DEF Anew, Recorded
<1>3. CASE Rests(u, t) BY <1>2, <1>3 DEF Rests, Recorded
<1>4. CASE Starts(u, t)
  <2> DEFINE now == t.running
             it == Last(now)
  <2>1. now \in Seq([block : Blocks, skip : BOOLEAN]) BY TurnFields
  <2>2. PICK p : now = Append(u.running, p) BY <1>4 DEF Starts
  <2>3. u.running \in Seq([block : Blocks, skip : BOOLEAN]) BY TurnFields
  <2> HIDE DEF now
  <2>4. /\ Len(now) = Len(u.running) + 1 /\ now # <<>> /\ it = now[Len(now)]
        /\ \A k \in 1..Len(u.running) : now[k] = u.running[k]
    BY <2>2, <2>3 DEF Last
  <2>5. \A k \in 1..Len(now) : k \in 1..Len(u.running) \/ k = Len(now) BY <2>3, <2>4
  <2> HIDE DEF it
  <2>6. Runs(it) => Contains(ran', it.block.id)
    <3>1. CASE Contains(turn.running, it) BY <1>1, <3>1 DEF Contains, Recorded
    <3>2. CASE Runs(it) /\ ~Contains(turn.running, it)
      <4>1. ran' = Append(ran, it.block.id) BY <2>4, <3>2 DEF TurnBecomes, now, it
      <4>2. ran \in Seq(1..MaxBlocks) /\ Len(ran) \in Nat BY DEF TypeOK
      <4> DEFINE e == it.block.id
      <4> HIDE DEF e
      <4>3. ran' = Append(ran, e) BY <4>1 DEF e
      <4>4. Len(ran') = Len(ran) + 1 /\ ran'[Len(ran) + 1] = e BY <4>2, <4>3
      <4>5. Len(ran) + 1 \in 1..Len(ran') BY <4>2, <4>4
      <4> QED BY <4>4, <4>5 DEF Contains, e
    <3> QED BY <3>1, <3>2
  <2> QED BY <1>2, <2>4, <2>5, <2>6 DEF Recorded, now
<1> QED BY <1>3, <1>4 DEF Presents

LEMMA LastTextPresents ==
  ASSUME NEW t \in Turns
  PROVE  Presents(t, LastTextComplete(t)) /\ Rests(t, LastTextComplete(t))
<1> DEFINE c == t.content
           k == Len(c)
           d == [c EXCEPT ![k].partial = FALSE]
<1>1. c \in Seq(Blocks) BY TurnFields
<1>2. CASE c # <<>> /\ Last(c).kind = "text"
  <2>1. LastTextComplete(t) = [t EXCEPT !.content = d]
    BY <1>2, TurnFields DEF LastTextComplete, Turns
  <2> HIDE DEF c
  <2>2. k \in 1..Len(c) BY <1>1, <1>2
  <2>3. c[k] \in Blocks BY <1>1, <2>2
  <2> DEFINE e == [c[k] EXCEPT !.partial = FALSE]
  <2>4. e \in Blocks /\ e.id = c[k].id /\ e.kind = c[k].kind BY <2>3 DEF Blocks
  <2>5. d = [c EXCEPT ![k] = e] OBVIOUS
  <2> HIDE DEF e, d
  <2>6. d \in Seq(Blocks) /\ Len(d) = Len(c) BY <1>1, <2>2, <2>4, <2>5
  <2>7. \A i \in 1..Len(c) : d[i] = IF i = k THEN e ELSE c[i] BY <1>1, <2>2, <2>5
  <2>8. SameBlocks(c, d) BY <2>4, <2>6, <2>7 DEF SameBlocks
  <2> HIDE DEF k
  <2> QED BY <2>1, <2>6, <2>8 DEF Presents, Rests, Turns, c
<1>3. CASE ~(c # <<>> /\ Last(c).kind = "text")
  <2>1. LastTextComplete(t) = t BY <1>3 DEF LastTextComplete
  <2> QED BY <2>1, SameBlocksReflexive DEF Presents, Rests
<1> QED BY <1>2, <1>3

LEMMA RestsOrdered ==
  ASSUME NEW t \in Turns, NEW u, NEW r, NEW n \in Nat, Presents(t, u), Rests(t, u), Ordered(t, r, n)
  PROVE  Ordered(u, r, n)
<1>1. u.index = t.index /\ Len(u.content) = Len(t.content) /\ u.running = t.running
  BY DEF Presents, SameBlocks, Rests
<1>2. t.index \in Nat /\ t.index > 0 /\ Len(t.content) \in Nat BY TurnFields
<1>3. t.index <= Len(t.content) => u.content[t.index].id = t.content[t.index].id
  BY <1>2 DEF Presents, SameBlocks
<1> QED BY <1>1, <1>3 DEF Ordered

LEMMA WithBlockFields ==
  ASSUME NEW t \in Turns, NEW b \in Blocks, NEW u, u = WithBlock(t, b)
  PROVE  /\ u \in Turns /\ ~u.ready /\ u.index = t.index /\ u.results = t.results
         /\ u.rejected = t.rejected /\ u.locked = t.locked /\ u.running = t.running
         /\ Len(u.content) = Len(t.content) + 1 /\ u.content[Len(t.content) + 1] = b
         /\ \A i \in 1..Len(t.content) : u.content[i] = t.content[i]
<1> DEFINE c == t.content
           d == Append(c, b)
<1>1. c \in Seq(Blocks) BY TurnFields
<1>2. u = [t EXCEPT !.content = d, !.ready = FALSE] BY DEF WithBlock
<1> HIDE DEF c
<1>3. /\ d \in Seq(Blocks) /\ Len(d) = Len(c) + 1 /\ d[Len(c) + 1] = b
      /\ \A i \in 1..Len(c) : d[i] = c[i]
  BY <1>1
<1> HIDE DEF d
<1>4. u \in Turns BY <1>2, <1>3 DEF Turns
<1>5. /\ u.content = d /\ ~u.ready /\ u.index = t.index /\ u.results = t.results
      /\ u.rejected = t.rejected /\ u.locked = t.locked /\ u.running = t.running
  BY <1>2 DEF Turns
<1> QED BY <1>3, <1>4, <1>5 DEF c

LEMMA WithBlockCommon ==
  ASSUME NEW t \in Turns, NEW n \in Nat, NEW b \in Blocks, b.id = n + 1, NEW u, u = WithBlock(t, b),
         Numbered(t, n), Room(t, n)
  PROVE  u \in Turns /\ Numbered(u, n + 1) /\ Room(u, n + 1)
<1> DEFINE k == Len(t.content)
<1>1. k \in Nat BY TurnFields
<1>2. /\ u \in Turns /\ u.index = t.index /\ u.locked = t.locked /\ u.running = t.running
      /\ Len(u.content) = k + 1 /\ u.content[k + 1] = b
      /\ \A i \in 1..k : u.content[i] = t.content[i]
  BY WithBlockFields
<1>3. /\ \A i \in 1..k : t.content[i].id <= n /\ t.content[i].id \in Nat
      /\ \A i, j \in 1..k : i < j => t.content[i].id < t.content[j].id
  BY TurnFields DEF Numbered, Increasing, Blocks
<1>4. Numbered(u, n + 1)
  <2> HIDE DEF k
  <2>1. \A i \in 1..(k + 1) : i \in 1..k \/ i = k + 1 BY <1>1
  <2>2. \A i \in 1..(k + 1) : u.content[i].id <= n + 1
    <3>1. ASSUME NEW i \in 1..k PROVE u.content[i].id <= n + 1
      <4>1. u.content[i].id = t.content[i].id BY <1>2
      <4> QED BY <1>3, <4>1
    <3> QED BY <1>2, <2>1, <3>1
  <2>3. ASSUME NEW i \in 1..(k + 1), NEW j \in 1..(k + 1), i < j
        PROVE  u.content[i].id < u.content[j].id
    <3>1. i \in 1..k BY <1>1, <2>3
    <3>2. CASE j \in 1..k BY <1>2, <1>3, <2>3, <3>1, <3>2
    <3>3. CASE j = k + 1
      <4>1. u.content[i].id = t.content[i].id /\ u.content[j].id = n + 1 BY <1>2, <3>1, <3>3
      <4> QED BY <1>3, <3>1, <4>1
    <3> QED BY <2>1, <3>2, <3>3
  <2> QED BY <1>2, <2>2, <2>3 DEF Numbered, Increasing
<1>5. Room(u, n + 1)
  <2> DEFINE i == t.index
             r == Len(t.running)
             w == IF t.locked THEN 1 ELSE 0
  <2>1. i \in Nat /\ r \in Nat /\ w \in Nat BY TurnFields
  <2>2. i + r <= n + 1 /\ r + k <= n + w BY DEF Room
  <2> HIDE DEF i, r, w, k
  <2>3. i + r <= n + 1 + 1 /\ r + (k + 1) <= n + 1 + w BY <1>1, <2>1, <2>2
  <2>4. u.content # <<>>
    <3>1. Len(u.content) # 0 BY <1>1, <1>2
    <3> QED BY <3>1
  <2> QED BY <1>2, <2>3, <2>4 DEF Room, i, r, w, k
<1> QED BY <1>2, <1>4, <1>5

LEMMA WithBlockAlone ==
  ASSUME NEW t \in Turns, NEW n \in Nat, NEW b \in Blocks, b.id = n + 1, NEW u, u = WithBlock(t, b),
         NEW r \in Seq(1..MaxBlocks),
         Numbered(t, n), Alone(t, n), Answering(t, r, n), OnTrack(t), Ordered(t, r, n)
  PROVE  Alone(u, n + 1) /\ Answering(u, r, n + 1) /\ OnTrack(u) /\ Ordered(u, r, n + 1)
<1> DEFINE k == Len(t.content)
<1>1. k \in Nat /\ t.index \in Nat /\ t.index > 0 BY TurnFields
<1>2. /\ ~u.ready /\ u.index = t.index /\ u.results = t.results /\ u.rejected = t.rejected
      /\ u.locked = t.locked /\ u.running = t.running
      /\ Len(u.content) = k + 1 /\ u.content[k + 1] = b
      /\ \A i \in 1..k : u.content[i] = t.content[i]
  BY WithBlockFields
<1>3. t.index <= k + 1 /\ (t.running # <<>> => t.index <= k) BY DEF OnTrack
<1>4. t.index <= k => u.content[t.index] = t.content[t.index] BY <1>1, <1>2
<1>5. Alone(u, n + 1)
  <2>1. ASSUME NEW i \in 1..Len(u.running)
        PROVE  LET it == u.running[i] IN
                 /\ it.skip = u.rejected
                 /\ it.block.id <= n + 1
                 /\ it.block.id = u.content[u.index].id /\ it.block.kind = u.content[u.index].kind
    <3>1. i \in 1..Len(t.running) /\ u.running = t.running BY <1>2, <2>1
    <3>2. t.running # <<>> BY <3>1
    <3>3. t.index <= k BY <1>3, <3>2
    <3>4. /\ t.running[i].skip = t.rejected /\ t.running[i].block.id <= n
          /\ t.running[i].block.id = t.content[t.index].id
          /\ t.running[i].block.kind = t.content[t.index].kind
      BY <3>1, <3>3 DEF Alone
    <3>5. /\ t.running[i] = u.running[i] /\ u.rejected = t.rejected
          /\ u.content[u.index] = t.content[t.index]
      BY <1>2, <1>4, <3>1, <3>3
    <3>6. u.running[i].block.id <= n + 1
      <4>1. t.running[i].block.id \in Nat
        <5>1. t.running[i].block \in Blocks BY <3>1, RunningType
        <5> QED BY <5>1 DEF Blocks
      <4> QED BY <3>4, <3>5, <4>1
    <3> QED BY <3>4, <3>5, <3>6
  <2>2. Len(t.running) <= 1 /\ (t.locked <=> t.running # <<>>) BY DEF Alone
  <2>3. u.index <= Len(u.content) BY <1>2, <1>3
  <2> QED BY <1>2, <2>1, <2>2, <2>3 DEF Alone
<1>6. Answering(u, r, n + 1)
  <2>1. \A j \in 1..Len(t.results) : t.results[j].call <= n /\ t.results[j].call \in Nat
    <3>1. \A j \in 1..Len(t.results) : t.results[j].call \in 1..MaxBlocks BY ResultsType
    <3> QED BY <3>1 DEF Answering
  <2>2. \A i \in 1..Len(u.content) : i \in 1..k \/ i = k + 1
    <3> HIDE DEF k
    <3>1. \A i \in 1..(k + 1) : i \in 1..k \/ i = k + 1 BY <1>1
    <3> QED BY <1>2, <3>1
  <2>3. \A j \in 1..Len(u.results) : u.results[j].call <= n + 1 BY <1>2, <2>1
  <2>4. ASSUME NEW i \in 1..k
        PROVE  LET block == u.content[i] IN
                 block.kind \in Tools =>
                   IF i < u.index
                   THEN Answered(u, r, block)
                   ELSE \A j \in 1..Len(u.results) : u.results[j].call # block.id
    BY <1>2 DEF Answering, Answered
  <2>5. \A j \in 1..Len(u.results) : u.results[j].call # u.content[k + 1].id
    BY <1>2, <2>1
  <2>6. ~(k + 1 < u.index) BY <1>1, <1>2, <1>3
  <2> QED BY <2>2, <2>3, <2>4, <2>5, <2>6 DEF Answering
<1>7. OnTrack(u) BY <1>1, <1>2, <1>3 DEF OnTrack
<1>8. Ordered(u, r, n + 1)
  <2>1. \A i \in 1..Len(r) : r[i] \in Nat /\ r[i] <= n BY DEF Ordered
  <2>2. CASE t.index <= k
    <3>1. u.content[u.index].id = t.content[t.index].id BY <1>2, <1>4, <2>2
    <3> QED BY <1>2, <2>1, <2>2, <3>1 DEF Ordered
  <2>3. CASE ~(t.index <= k)
    <3>1. u.content[u.index].id = n + 1
      <4>1. t.index = k + 1 BY <1>1, <1>3, <2>3
      <4> QED BY <1>2, <4>1
    <3>2. \A i \in 1..Len(r) : r[i] < n + 1 /\ r[i] <= n + 1 BY <2>1
    <3> QED BY <3>1, <3>2 DEF Ordered
  <2> QED BY <2>2, <2>3
<1> QED BY <1>5, <1>6, <1>7, <1>8

-----------------------------------------------------------------------------
(* A presentation ends.                                                    *)

LEMMA RemovedType ==
  ASSUME NEW S, NEW s \in Seq(S), NEW i \in 1..Len(s)
  PROVE  RemoveAt(s, i) \in Seq(S) /\ Len(RemoveAt(s, i)) = Len(s) - 1
<1> DEFINE a == SubSeq(s, 1, i - 1)
           b == SubSeq(s, i + 1, Len(s))
<1>1. a \in Seq(S) /\ Len(a) = i - 1
  <2>1. PICK k \in Nat : k = i - 1 OBVIOUS
  <2>2. \A j \in 1..k : s[j] \in S BY <2>1
  <2>3. SubSeq(s, 1, k) \in Seq(S) /\ Len(SubSeq(s, 1, k)) = k BY <2>1, <2>2
  <2> QED BY <2>1, <2>3
<1>2. b \in Seq(S) /\ Len(b) = Len(s) - i
  <2>1. \A j \in (i + 1)..Len(s) : s[j] \in S OBVIOUS
  <2>2. b \in Seq(S) BY <2>1
  <2>3. Len(s) \in Nat /\ i \in 1..Len(s) OBVIOUS
  <2>4. Len(b) = IF i + 1 <= Len(s) THEN Len(s) - (i + 1) + 1 ELSE 0 BY <2>3
  <2> QED BY <2>2, <2>3, <2>4
<1> HIDE DEF a, b
<1>3. a \o b \in Seq(S) /\ Len(a \o b) = Len(s) - 1 BY <1>1, <1>2
<1> QED BY <1>3 DEF RemoveAt, a, b

(* Results stay; one is added unless the call has one.                     *)
Keeps(s, q) == Len(s) <= Len(q) /\ \A k \in 1..Len(s) : q[k] = s[k]

Adds(s, q, r) == \A k \in 1..Len(q) : k \in 1..Len(s) \/ q[k] = r

LEMMA PushAdds ==
  ASSUME NEW R, NEW s \in Seq(R), NEW r \in R
  PROVE  Push(s, r) \in Seq(R) /\ Keeps(s, Push(s, r)) /\ Adds(s, Push(s, r), r)
<1> DEFINE u == Append(s, r)
<1>1. u \in Seq(R) /\ Len(u) = Len(s) + 1 /\ u[Len(s) + 1] = r /\ \A k \in 1..Len(s) : u[k] = s[k]
  OBVIOUS
<1>2. Len(s) \in Nat OBVIOUS
<1> HIDE DEF u
<1>3. CASE \E k \in 1..Len(s) : s[k].call = r.call
  <2>1. Push(s, r) = s BY <1>3 DEF Push
  <2> QED BY <1>2, <1>3, <2>1 DEF Keeps, Adds
<1>4. CASE ~\E k \in 1..Len(s) : s[k].call = r.call
  <2>1. Push(s, r) = u BY <1>4 DEF Push, u
  <2>2. \A k \in 1..Len(u) : k \in 1..Len(s) \/ k = Len(s) + 1 BY <1>1, <1>2
  <2>3. Len(s) + 1 \in 1..Len(u) /\ Len(s) <= Len(u) BY <1>1, <1>2
  <2>4. \A k \in 1..Len(u) : k \in 1..Len(s) \/ u[k] = r BY <1>1, <2>2
  <2> QED BY <1>1, <2>1, <2>3, <2>4 DEF Keeps, Adds
<1> QED BY <1>3, <1>4

LEMMA OutcomeFields ==
  ASSUME TypeOK, NEW i \in 1..Len(turn.running), NEW o \in Outcomes(i), NEW it, it = turn.running[i]
  PROVE  /\ o \in Turns
         /\ o.content = turn.content /\ o.index = turn.index /\ o.locked = turn.locked
         /\ o.ready = turn.ready /\ o.complete = turn.complete
         /\ Len(o.running) = Len(turn.running) - 1
         /\ o.rejected # turn.rejected => o.rejected /\ Runs(it)
         /\ \/ o.results = Push(turn.results, ResultOf(it.block.id, it.block.id))
            \/ /\ o.results = turn.results
               /\ \/ it.block.kind = "text" \/ (~it.skip /\ it.block.partial)
                  \/ Stale(it) \/ Accepts(it)
         /\ ~Runs(it) /\ ~it.skip /\ it.block.partial => o.results = turn.results
<1> DEFINE R == [block : Blocks, skip : BOOLEAN]
           m == RemoveAt(turn.running, i)
           rest == [turn EXCEPT !.running = m]
           p == Push(turn.results, ResultOf(it.block.id, it.block.id))
           silent == it.block.kind = "text" \/ (~it.skip /\ it.block.partial)
<1>1. turn \in Turns BY DEF TypeOK
<1>2. m \in Seq(R) /\ Len(m) = Len(turn.running) - 1
  <2> DEFINE s == turn.running
  <2>1. s \in Seq(R) BY <1>1, TurnFields
  <2> HIDE DEF s, R
  <2>2. i \in 1..Len(s) BY DEF s
  <2>3. RemoveAt(s, i) \in Seq(R) /\ Len(RemoveAt(s, i)) = Len(s) - 1 BY <2>1, <2>2, RemovedType
  <2> QED BY <2>3 DEF s
<1>3. p \in Seq([call : 1..MaxBlocks, from : 0..MaxBlocks])
  <2>1. it.block.id \in 1..MaxBlocks BY <1>1, RunningType DEF Blocks
  <2>2. ResultOf(it.block.id, it.block.id) \in [call : 1..MaxBlocks, from : 0..MaxBlocks]
    BY <2>1 DEF ResultOf
  <2>3. turn.results \in Seq([call : 1..MaxBlocks, from : 0..MaxBlocks]) BY <1>1, TurnFields
  <2> DEFINE Q == [call : 1..MaxBlocks, from : 0..MaxBlocks]
             r == ResultOf(it.block.id, it.block.id)
             q == turn.results
  <2> HIDE DEF Q, r, q
  <2>4. r \in Q /\ q \in Seq(Q) BY <2>2, <2>3 DEF Q, r, q
  <2>5. Push(q, r) \in Seq(Q) BY <2>4, PushAdds
  <2> QED BY <2>5 DEF Q, r, q
<1>4. o \in (IF silent THEN {} ELSE {[rest EXCEPT !.results = Push(@, ResultOf(it.block.id, it.block.id))]})
            \cup (IF Runs(it) /\ ~Accepts(it)
                  THEN {[rest EXCEPT !.results = Push(@, ResultOf(it.block.id, it.block.id)),
                                     !.rejected = TRUE]} ELSE {})
            \cup (IF silent \/ Stale(it) \/ Accepts(it) THEN {rest} ELSE {})
  BY DEF Outcomes
<1> HIDE DEF m
<1>5. rest \in Turns /\ rest.results = turn.results BY <1>1, <1>2 DEF Turns
<1>6. \/ ~silent /\ o = [rest EXCEPT !.results = p]
      \/ Runs(it) /\ o = [rest EXCEPT !.results = p, !.rejected = TRUE]
      \/ (silent \/ Stale(it) \/ Accepts(it)) /\ o = rest
  BY <1>4, <1>5 DEF Turns
<1> HIDE DEF p, silent
<1>7. \/ ~silent /\ o = [turn EXCEPT !.running = m, !.results = p]
      \/ Runs(it) /\ o = [turn EXCEPT !.running = m, !.results = p, !.rejected = TRUE]
      \/ (silent \/ Stale(it) \/ Accepts(it)) /\ o = [turn EXCEPT !.running = m]
  BY <1>1, <1>6 DEF Turns
<1>8. o \in Turns BY <1>1, <1>2, <1>3, <1>7 DEF Turns
<1>9. /\ o.content = turn.content /\ o.index = turn.index /\ o.locked = turn.locked
      /\ o.ready = turn.ready /\ o.complete = turn.complete /\ o.running = m
  BY <1>1, <1>7 DEF Turns
<1>10. \/ ~silent /\ o.results = p /\ o.rejected = turn.rejected
       \/ Runs(it) /\ o.results = p /\ o.rejected
       \/ (silent \/ Stale(it) \/ Accepts(it)) /\ o.results = turn.results /\ o.rejected = turn.rejected
  BY <1>1, <1>7 DEF Turns
<1>11. ~Runs(it) /\ ~it.skip /\ it.block.partial => o.results = turn.results
  BY <1>10 DEF silent
<1> QED BY <1>2, <1>8, <1>9, <1>10, <1>11 DEF p, silent

(* Where the presentation leaves the turn, before it goes on.              *)
Moved(o, partial) == IF ~partial \/ o.rejected THEN Passed(o) ELSE [o EXCEPT !.locked = FALSE]

LEMMA MovedFields ==
  ASSUME NEW o \in Turns, NEW partial \in BOOLEAN, o.index <= MaxBlocks, NEW u, u = Moved(o, partial)
  PROVE  /\ u \in Turns /\ ~u.locked
         /\ u.content = o.content /\ u.results = o.results /\ u.running = o.running
         /\ u.rejected = o.rejected
         /\ u.index = IF ~partial \/ o.rejected THEN o.index + 1 ELSE o.index
         /\ u.ready => o.ready \/ ((~partial \/ o.rejected) /\ o.index >= Len(o.content))
<1>1. CASE ~partial \/ o.rejected
  <2> DEFINE i == o.index + 1
             r == o.ready \/ o.index = Len(o.content) \/ (o.complete /\ o.index > Len(o.content))
  <2>1. i \in 1..(MaxBlocks + 1) BY TurnFields
  <2>2. r \in BOOLEAN BY TurnFields
  <2>3. u = [o EXCEPT !.locked = FALSE, !.index = i, !.ready = r]
    BY <1>1 DEF Moved, Passed, Turns
  <2>4. r => o.ready \/ o.index >= Len(o.content) BY TurnFields
  <2> HIDE DEF i, r
  <2>5. u \in Turns BY <2>1, <2>2, <2>3 DEF Turns
  <2>6. /\ ~u.locked /\ u.content = o.content /\ u.results = o.results /\ u.running = o.running
        /\ u.rejected = o.rejected /\ u.index = i /\ u.ready = r
    BY <2>3 DEF Turns
  <2> QED BY <1>1, <2>4, <2>5, <2>6 DEF i
<1>2. CASE ~(~partial \/ o.rejected)
  <2>1. u = [o EXCEPT !.locked = FALSE] BY <1>2 DEF Moved
  <2>2. u \in Turns BY <2>1 DEF Turns
  <2> QED BY <1>2, <2>1, <2>2 DEF Turns
<1> QED BY <1>1, <1>2

LEMMA AdvancePresents ==
  ASSUME NEW o \in Turns, NEW partial \in BOOLEAN, Moved(o, partial) \in Turns
  PROVE  Presents(Moved(o, partial), Advance(o, partial))
<1> DEFINE now == Moved(o, partial)
<1>1. Advance(o, partial) = Present(now) \/ Advance(o, partial) = now BY DEF Advance, Moved
<1> HIDE DEF now
<1>2. Presents(now, Present(now)) BY PresentPresents DEF now
<1>3. Presents(now, now) BY SameBlocksReflexive DEF Presents, Rests, now
<1> QED BY <1>1, <1>2, <1>3 DEF now

LEMMA OutcomeRoom ==
  ASSUME TypeOK, Common, NEW i \in 1..Len(turn.running), NEW o \in Outcomes(i),
         NEW u, u = Moved(o, turn.running[i].block.partial)
  PROVE  /\ o \in Turns /\ o.index <= MaxBlocks /\ u \in Turns
         /\ turn.running[i].block.partial \in BOOLEAN
         /\ Numbered(u, arrived) /\ Room(u, arrived) /\ u.content = turn.content
<1> DEFINE x == turn.index
           r == Len(turn.running)
           c == Len(turn.content)
           partial == turn.running[i].block.partial
<1>1. turn \in Turns /\ arrived \in 0..MaxBlocks BY DEF TypeOK
<1>2. x \in Nat /\ r \in Nat /\ c \in Nat /\ r > 0 /\ partial \in BOOLEAN
  <2>1. x \in Nat /\ r \in Nat /\ c \in Nat BY <1>1, TurnFields
  <2>2. turn.running[i].block \in Blocks BY <1>1, RunningType
  <2>3. partial \in BOOLEAN BY <2>2 DEF Blocks
  <2>4. i \in 1..r OBVIOUS
  <2> HIDE DEF r, x, c, partial
  <2> QED BY <2>1, <2>3, <2>4
<1>3. /\ o \in Turns /\ o.content = turn.content /\ o.index = x /\ Len(o.running) = r - 1
  BY OutcomeFields
<1>4. x + r <= arrived + 1 /\ r + c <= arrived + 1
  <2> DEFINE w == IF turn.locked THEN 1 ELSE 0
  <2>1. x + r <= arrived + 1 /\ r + c <= arrived + w BY DEF Common, Room
  <2>2. w \in 0..1 OBVIOUS
  <2> HIDE DEF x, r, c, w
  <2> QED BY <1>1, <1>2, <2>1, <2>2
<1> HIDE DEF x, r, c
<1>5. x <= MaxBlocks BY <1>1, <1>2, <1>4
<1>6. /\ u \in Turns /\ ~u.locked /\ u.content = o.content /\ u.running = o.running
      /\ u.index = x \/ u.index = x + 1
  <2> DEFINE p == partial
  <2>1. p \in BOOLEAN /\ u = Moved(o, p) BY <1>2
  <2> HIDE DEF p, partial
  <2>2. o.index <= MaxBlocks BY <1>3, <1>5
  <2>3. /\ u \in Turns /\ ~u.locked /\ u.content = o.content /\ u.running = o.running
        /\ u.index = IF ~p \/ o.rejected THEN o.index + 1 ELSE o.index
    BY <1>3, <2>1, <2>2, MovedFields
  <2> QED BY <1>3, <2>3
<1>7. Len(u.running) = r - 1 /\ Len(u.content) = c BY <1>3, <1>6 DEF c
<1>8. u.index + (r - 1) <= arrived + 1 /\ (r - 1) + c <= arrived + 0
  BY <1>1, <1>2, <1>4, <1>6
<1>9. Room(u, arrived)
  <2>1. Len(u.running) + Len(u.content) <= arrived + (IF u.locked THEN 1 ELSE 0)
    BY <1>6, <1>7, <1>8
  <2>2. u.index + Len(u.running) <= arrived + 1 BY <1>7, <1>8
  <2> QED BY <1>6, <2>1, <2>2 DEF Room
<1>10. Numbered(u, arrived) BY <1>3, <1>6 DEF Common, Numbered
<1> QED BY <1>2, <1>3, <1>5, <1>6, <1>9, <1>10

LEMMA OutcomeAlone ==
  ASSUME TypeOK, Common, NotOvertaken, NEW i \in 1..Len(turn.running), NEW o \in Outcomes(i),
         NEW u, u = Moved(o, turn.running[i].block.partial)
  PROVE  /\ Alone(u, arrived) /\ Answering(u, ran, arrived) /\ Ordered(u, ran, arrived) /\ Anew(u)
         /\ OnTrack(turn) => OnTrack(u)
<1> DEFINE x == turn.index
           c == Len(turn.content)
           it == turn.running[i]
           partial == it.block.partial
           passed == ~partial \/ o.rejected
           b == it.block.id
           q == turn.results
<1>1. turn \in Turns /\ arrived \in 0..MaxBlocks /\ turn.rejected \in BOOLEAN
  BY TurnFields DEF TypeOK
<1>2. x \in Nat /\ x > 0 /\ c \in Nat /\ Len(q) \in Nat BY <1>1, TurnFields
<1>3. /\ it.block \in Blocks /\ partial \in BOOLEAN /\ b \in 1..MaxBlocks
      /\ it.block.kind \in Kinds /\ it.skip \in BOOLEAN
  <2>1. it.block \in Blocks /\ it.skip \in BOOLEAN BY <1>1, RunningType
  <2> QED BY <2>1 DEF Blocks
<1>4. /\ Len(turn.running) = 1 /\ i = 1 /\ ~turn.ready
      /\ it.skip = turn.rejected /\ b <= arrived
      /\ IF x <= c
         THEN b = turn.content[x].id /\ it.block.kind = turn.content[x].kind
         ELSE \A j \in 1..c : turn.content[j].id # b
  <2>1. Alone(turn, arrived) BY DEF NotOvertaken
  <2>2. Len(turn.running) <= 1 BY <2>1 DEF Alone
  <2>3. Len(turn.running) \in Nat BY <1>1, TurnFields
  <2>4. Len(turn.running) = 1 /\ i = 1
    <3> DEFINE k == Len(turn.running)
    <3>1. k \in Nat /\ k <= 1 /\ i \in 1..k BY <2>2, <2>3
    <3> HIDE DEF k
    <3>2. k = 1 /\ i = 1 BY <3>1
    <3> QED BY <3>2 DEF k
  <2>5. turn.running # <<>> BY <2>4
  <2> QED BY <2>1, <2>4, <2>5 DEF Alone
<1>5. /\ o \in Turns /\ o.content = turn.content /\ o.index = x /\ o.ready = turn.ready
      /\ Len(o.running) = Len(turn.running) - 1
      /\ o.rejected # turn.rejected => o.rejected /\ Runs(it)
      /\ \/ o.results = Push(q, ResultOf(b, b))
         \/ /\ o.results = q
            /\ \/ it.block.kind = "text" \/ (~it.skip /\ partial)
               \/ Stale(it) \/ Accepts(it)
      /\ ~Runs(it) /\ ~it.skip /\ partial => o.results = q
  BY OutcomeFields
<1>6. /\ o.index <= MaxBlocks /\ u.content = turn.content /\ u \in Turns
  BY OutcomeRoom
<1>7. /\ ~u.locked /\ u.results = o.results /\ u.running = o.running /\ u.rejected = o.rejected
      /\ u.index = IF passed THEN x + 1 ELSE x
      /\ u.ready => passed /\ x >= c
  <2> DEFINE p == partial
  <2>1. p \in BOOLEAN /\ u = Moved(o, p) BY <1>3
  <2> HIDE DEF p, partial
  <2>2. /\ ~u.locked /\ u.results = o.results /\ u.running = o.running /\ u.rejected = o.rejected
        /\ u.index = IF ~p \/ o.rejected THEN o.index + 1 ELSE o.index
        /\ u.ready => o.ready \/ ((~p \/ o.rejected) /\ o.index >= Len(o.content))
    BY <1>5, <1>6, <2>1, MovedFields
  <2>3. passed = (~p \/ o.rejected) BY DEF passed, p
  <2> HIDE DEF passed
  <2>4. u.ready => passed /\ x >= c BY <1>4, <1>5, <2>2, <2>3
  <2>5. u.index = IF passed THEN x + 1 ELSE x BY <1>5, <2>2, <2>3
  <2> QED BY <2>2, <2>4, <2>5
<1>8. u.running = <<>> /\ Len(u.running) = 0
  <2>1. Len(u.running) = 0 BY <1>4, <1>5, <1>7
  <2> QED BY <1>6, <2>1, TurnFields
<1>9. \A j, k \in 1..c : j < k => turn.content[j].id < turn.content[k].id
  BY DEF Common, Numbered, Increasing
<1>10. \A j \in 1..c : turn.content[j] \in Blocks /\ turn.content[j].id \in Nat
  BY <1>1, TurnFields DEF Blocks
<1>11. ~passed => ~Runs(it) /\ ~it.skip /\ partial BY <1>3, <1>4, <1>5 DEF Runs
<1> HIDE DEF x, c, it, b, q, passed
<1>12. Alone(u, arrived)
  <2>1. u.ready => u.index > Len(u.content) BY <1>2, <1>6, <1>7 DEF c
  <2>2. \A k \in 1..Len(u.running) : FALSE BY <1>8
  <2> QED BY <1>7, <1>8, <2>1, <2>2 DEF Alone
<1>13. Answering(u, ran, arrived)
  <2>1. Answering(turn, ran, arrived) BY DEF NotOvertaken
  <2>2. \A k \in 1..Len(q) : q[k].call <= arrived BY <2>1 DEF Answering, q
  <2>3. \A j \in 1..c : turn.content[j].kind \in Tools =>
          IF j < x
          THEN Answered(turn, ran, turn.content[j])
          ELSE \A k \in 1..Len(q) : q[k].call # turn.content[j].id
    BY <2>1 DEF Answering, q, c, x
  <2>4. CASE o.results = q
    <3>1. ASSUME passed, x <= c, turn.content[x].kind \in Tools
          PROVE  turn.content[x].kind = "attempt_completion" /\ Contains(ran, turn.content[x].id)
      <4>1. x \in 1..c BY <1>2, <3>1
      <4>2. b = turn.content[x].id /\ it.block.kind = turn.content[x].kind BY <1>4, <3>1
      <4>3. ~Stale(it) BY <4>1, <4>2 DEF Stale, c, b
      <4>4. it.block.kind # "text" BY <3>1, <4>2 DEF Tools
      <4>5. o.results # Push(q, ResultOf(b, b))
        <5>1. \A k \in 1..Len(q) : q[k].call # b BY <1>2, <2>3, <3>1, <4>1, <4>2
        <5>2. ResultOf(b, b).call = b BY DEF ResultOf
        <5>3. Push(q, ResultOf(b, b)) = Append(q, ResultOf(b, b)) BY <5>1, <5>2 DEF Push
        <5>4. q \in Seq([call : 1..MaxBlocks, from : 0..MaxBlocks]) BY <1>1, TurnFields DEF q
        <5>5. Len(Append(q, ResultOf(b, b))) = Len(q) + 1 BY <5>4
        <5> QED BY <1>2, <2>4, <5>3, <5>5
      <4>6. CASE Accepts(it)
        <5>1. Runs(it) /\ it.block.kind = "attempt_completion" BY <4>6 DEF Accepts
        <5>2. Contains(ran, it.block.id) BY <5>1 DEF NotOvertaken, Recorded, it
        <5> QED BY <4>2, <5>1, <5>2 DEF b
      <4>7. CASE ~Accepts(it)
        <5>1. ~it.skip /\ partial BY <1>5, <4>3, <4>4, <4>5, <4>7
        <5>2. o.rejected /\ ~turn.rejected BY <1>4, <3>1, <5>1 DEF passed
        <5>3. Runs(it) BY <1>5, <5>2
        <5> QED BY <5>1, <5>3 DEF Runs
      <4> QED BY <4>6, <4>7
    <3>2. ASSUME NEW j \in 1..c, turn.content[j].kind \in Tools
          PROVE  IF j < u.index
                 THEN Answered(u, ran, turn.content[j])
                 ELSE \A k \in 1..Len(q) : q[k].call # turn.content[j].id
      <4>1. Answered(turn, ran, turn.content[j]) => Answered(u, ran, turn.content[j])
        BY <1>7, <2>4 DEF Answered, q
      <4>2. CASE passed /\ j = x
        <5>1. Answered(u, ran, turn.content[j]) BY <1>2, <3>1, <3>2, <4>2 DEF Answered
        <5>2. j < u.index BY <1>2, <1>7, <4>2
        <5> QED BY <5>1, <5>2
      <4>3. CASE ~(passed /\ j = x)
        <5>1. j < u.index <=> j < x BY <1>2, <1>7, <4>3
        <5> QED BY <2>3, <3>2, <4>1, <5>1
      <4> QED BY <4>2, <4>3
    <3> QED BY <1>6, <1>7, <2>2, <2>4, <3>2 DEF Answering, c
  <2>5. CASE o.results = Push(q, ResultOf(b, b)) /\ o.results # q
    <3> DEFINE v == o.results
               y == ResultOf(b, b)
    <3>1. y.call = b BY DEF ResultOf
    <3>2. v = Append(q, y) /\ \A k \in 1..Len(q) : q[k].call # b BY <2>5, <3>1 DEF Push
    <3>3. q \in Seq([call : 1..MaxBlocks, from : 0..MaxBlocks]) BY <1>1, TurnFields DEF q
    <3> HIDE DEF v, y
    <3>4. /\ Len(v) = Len(q) + 1 /\ v[Len(q) + 1] = y
          /\ \A k \in 1..Len(q) : v[k] = q[k]
      BY <3>2, <3>3
    <3>5. \A k \in 1..Len(v) : k \in 1..Len(q) \/ k = Len(q) + 1 BY <1>2, <3>4
    <3>6. Len(q) + 1 \in 1..Len(v) /\ \A k \in 1..Len(q) : k \in 1..Len(v) BY <1>2, <3>4
    <3>7. passed
      <4>1. ~(~Runs(it) /\ ~it.skip /\ partial) BY <1>5, <2>5
      <4> QED BY <1>11, <4>1
    <3>8. \A k \in 1..Len(v) : v[k].call <= arrived BY <1>4, <2>2, <3>1, <3>4, <3>5
    <3>9. ASSUME NEW j \in 1..c, turn.content[j].kind \in Tools
          PROVE  IF j < u.index
                 THEN Answered(u, ran, turn.content[j])
                 ELSE \A k \in 1..Len(v) : v[k].call # turn.content[j].id
      <4>1. CASE j < x
        <5>1. Answered(turn, ran, turn.content[j]) BY <2>3, <3>9, <4>1
        <5>2. j < u.index BY <1>2, <1>7, <4>1
        <5>3. Answered(u, ran, turn.content[j]) BY <1>7, <3>4, <3>6, <5>1 DEF Answered, q, v
        <5> QED BY <5>2, <5>3
      <4>2. CASE j = x
        <5>1. b = turn.content[j].id BY <1>2, <1>4, <4>2
        <5>2. j < u.index BY <1>2, <1>7, <3>7, <4>2
        <5>3. v[Len(q) + 1] = ResultOf(turn.content[j].id, turn.content[j].id) BY <3>4, <5>1 DEF y
        <5>4. Answered(u, ran, turn.content[j]) BY <1>7, <3>6, <5>3 DEF Answered, v
        <5> QED BY <5>2, <5>4
      <4>3. CASE j > x
        <5>1. b # turn.content[j].id
          <6>1. x \in 1..c /\ x < j BY <1>2, <4>3
          <6>2. turn.content[x].id < turn.content[j].id BY <1>9, <6>1
          <6>3. b = turn.content[x].id BY <1>4, <6>1
          <6> QED BY <1>10, <6>1, <6>2, <6>3
        <5>2. ~(j < u.index) BY <1>2, <1>7, <4>3
        <5>3. \A k \in 1..Len(q) : q[k].call # turn.content[j].id
          <6>1. ~(j < x) BY <1>2, <4>3
          <6> QED BY <2>3, <3>9, <6>1
        <5> QED BY <3>1, <3>4, <3>5, <5>1, <5>2, <5>3
      <4> QED BY <1>2, <4>1, <4>2, <4>3
    <3> QED BY <1>6, <1>7, <3>8, <3>9 DEF Answering, c, v
  <2> QED BY <1>5, <2>4, <2>5
<1>14. Ordered(u, ran, arrived) /\ Anew(u)
  <2>1. Ordered(turn, ran, arrived) BY DEF NotOvertaken
  <2>2. \A j \in 1..Len(ran) : ran[j] \in Nat BY DEF TypeOK
  <2>3. ~Runs(it) => \A j \in 1..Len(turn.running) : ~Runs(turn.running[j]) BY <1>4 DEF it
  <2>4. CASE ~passed
    <3>1. u.index = x /\ ~Runs(it) BY <1>7, <1>11, <2>4
    <3>2. Anew(u) BY <1>8, <2>3, <3>1 DEF Anew
    <3>3. x <= c => \A j \in 1..Len(ran) : ran[j] < turn.content[x].id
      BY <1>4, <2>1, <3>1 DEF Ordered, x, c, it
    <3> QED BY <1>6, <2>1, <3>1, <3>2, <3>3 DEF Ordered, x, c
  <2>5. CASE passed /\ x + 1 <= c
    <3>1. u.index = x + 1 BY <1>7, <2>5
    <3>2. x \in 1..c /\ x + 1 \in 1..c /\ x <= c BY <1>2, <2>5
    <3>3. b = turn.content[x].id /\ b < turn.content[x + 1].id BY <1>2, <1>4, <1>9, <3>2
    <3>4. Anew(u)
      <4>1. \A j \in 1..Len(turn.running) : turn.running[j].block.id = b BY <1>4 DEF it, b
      <4>2. b # turn.content[x + 1].id BY <1>10, <3>2, <3>3
      <4> QED BY <1>6, <1>8, <3>1, <4>1, <4>2 DEF Anew
    <3>5. \A j \in 1..Len(ran) : ran[j] < turn.content[x].id \/ ran[j] = turn.content[x].id
      BY <2>1, <3>2 DEF Ordered, x, c
    <3>6. \A j \in 1..Len(ran) : ran[j] < turn.content[x + 1].id
      BY <1>10, <2>2, <3>2, <3>3, <3>5
    <3> QED BY <1>6, <2>1, <3>1, <3>4, <3>6 DEF Ordered
  <2>6. CASE passed /\ ~(x + 1 <= c)
    <3>1. ~(u.index <= Len(u.content)) BY <1>2, <1>6, <1>7, <2>6 DEF c
    <3>2. Anew(u) BY <1>8, <3>1, Zenon DEF Anew
    <3> QED BY <2>1, <3>1, <3>2, Zenon DEF Ordered
  <2> QED BY <2>4, <2>5, <2>6
<1>15. OnTrack(turn) => OnTrack(u)
  <2>1. ASSUME OnTrack(turn) PROVE x <= c
    <3>1. turn.running # <<>> BY <1>4
    <3> QED BY <2>1, <3>1 DEF OnTrack, x, c
  <2>2. x <= c => u.index <= c + 1 BY <1>2, <1>7
  <2> QED BY <1>6, <1>8, <2>1, <2>2 DEF OnTrack, c
<1> QED BY <1>12, <1>13, <1>14, <1>15

-----------------------------------------------------------------------------
(* The answer is cut.                                                      *)

(* The results that are pushed for the calls at the places in S.           *)
Pushed(rs, c, S) ==
  LET pushed[n \in 0..Len(c)] ==
        IF n = 0 THEN rs
        ELSE IF n \in S THEN Push(pushed[n - 1], ResultOf(c[n].id, 0)) ELSE pushed[n - 1]
  IN pushed[Len(c)]

AddsCalls(s, q, c, S) ==
  \A k \in 1..Len(q) : k \in 1..Len(s) \/ \E i \in S \cap (1..Len(c)) : q[k].call = c[i].id

LEMMA PushedElements ==
  ASSUME NEW c \in Seq(Blocks), NEW S,
         NEW rs \in Seq([call : 1..MaxBlocks, from : 0..MaxBlocks])
  PROVE  /\ Pushed(rs, c, S) \in Seq([call : 1..MaxBlocks, from : 0..MaxBlocks])
         /\ Keeps(rs, Pushed(rs, c, S)) /\ AddsCalls(rs, Pushed(rs, c, S), c, S)
<1> DEFINE R == [call : 1..MaxBlocks, from : 0..MaxBlocks]
           new(n) == ResultOf(c[n].id, 0)
           Is(f) ==
             f = [n \in 0..Len(c) |->
                   IF n = 0 THEN rs
                   ELSE IF n \in S THEN Push(f[n - 1], ResultOf(c[n].id, 0)) ELSE f[n - 1]]
           pushed == CHOOSE f : Is(f)
           Good(q) == /\ q \in Seq(R)
                      /\ Len(rs) <= Len(q) /\ \A k \in 1..Len(rs) : q[k] = rs[k]
                      /\ \A k \in 1..Len(q) :
                           k \in 1..Len(rs) \/ \E i \in S \cap (1..Len(c)) : q[k].call = c[i].id
<1>1. Pushed(rs, c, S) = pushed[Len(c)] BY DEF Pushed
<1>2. Len(c) \in Nat /\ Len(rs) \in Nat OBVIOUS
<1>3. \A n \in 1..Len(c) : new(n) \in R /\ new(n).call = c[n].id
  <2>1. ASSUME NEW n \in 1..Len(c) PROVE c[n].id \in 1..MaxBlocks
    <3>1. c[n] \in Blocks OBVIOUS
    <3> QED BY <3>1 DEF Blocks
  <2>2. \A x \in 1..MaxBlocks : ResultOf(x, 0) \in R /\ ResultOf(x, 0).call = x
    BY DEF ResultOf, R
  <2> QED BY <2>1, <2>2
<1>4. rs \in Seq(R) OBVIOUS
<1> HIDE DEF R
<1>5. \A n \in 0..Len(c) :
        pushed[n] = IF n = 0 THEN rs
                    ELSE IF n \in S THEN Push(pushed[n - 1], new(n)) ELSE pushed[n - 1]
  <2> DEFINE W == Seq(R)
             step == [p \in (1..Len(c)) \X W |-> IF p[1] \in S THEN Push(p[2], new(p[1])) ELSE p[2]]
  <2> HIDE DEF new
  <2>1. step \in Steps(Len(c), W)
    <3>1. ASSUME NEW p \in (1..Len(c)) \X W PROVE step[p] \in W
      <4>1. p[1] \in 1..Len(c) /\ p[2] \in Seq(R) /\ new(p[1]) \in R BY <1>3, <3>1
      <4>2. Push(p[2], new(p[1])) \in Seq(R) BY <4>1, PushAdds
      <4> QED BY <4>1, <4>2
    <3> QED BY <3>1 DEF Steps
  <2>2. rs \in W BY <1>4
  <2> HIDE DEF W, step
  <2>3. PICK f : IsRecursion(f, Len(c), W, rs, step) BY <1>2, <2>1, <2>2, Recursion
  <2>4. /\ f \in [0..Len(c) -> W] /\ f[0] = rs
        /\ \A n \in 0..Len(c) : n > 0 => f[n] = step[<<n, f[n - 1]>>]
    BY <2>3 DEF IsRecursion
  <2>5. ASSUME NEW n \in 0..Len(c), n > 0
        PROVE  f[n] = IF n \in S THEN Push(f[n - 1], new(n)) ELSE f[n - 1]
    <3>1. n \in 1..Len(c) /\ n - 1 \in 0..Len(c) BY <1>2, <2>5
    <3>2. <<n, f[n - 1]>> \in (1..Len(c)) \X W BY <2>4, <3>1
    <3>3. step[<<n, f[n - 1]>>] = IF n \in S THEN Push(f[n - 1], new(n)) ELSE f[n - 1]
      BY <3>2 DEF step
    <3> QED BY <2>4, <2>5, <3>3
  <2>6. Is(f)
    <3> DEFINE h == [n \in 0..Len(c) |->
                      IF n = 0 THEN rs ELSE IF n \in S THEN Push(f[n - 1], new(n)) ELSE f[n - 1]]
    <3>1. \A n \in 0..Len(c) : f[n] = h[n] BY <1>2, <2>4, <2>5
    <3>2. f = [n \in 0..Len(c) |-> f[n]] BY <2>4
    <3>3. h = [n \in 0..Len(c) |-> h[n]] OBVIOUS
    <3> HIDE DEF h
    <3>4. f = h BY <3>1, <3>2, <3>3
    <3> QED BY <3>4 DEF h, new
  <2> HIDE DEF Is
  <2>7. Is(pushed) BY <2>6, Zenon
  <2> HIDE DEF pushed
  <2> DEFINE h == [n \in 0..Len(c) |->
                    IF n = 0 THEN rs
                    ELSE IF n \in S THEN Push(pushed[n - 1], new(n)) ELSE pushed[n - 1]]
  <2>8. pushed = h BY <2>7 DEF Is, new
  <2>9. \A n \in 0..Len(c) :
          h[n] = IF n = 0 THEN rs
                 ELSE IF n \in S THEN Push(pushed[n - 1], new(n)) ELSE pushed[n - 1]
    OBVIOUS
  <2> HIDE DEF h
  <2> QED BY <2>8, <2>9
<1> HIDE DEF pushed, Is, new
<1>6. ASSUME NEW q, NEW n \in 1..Len(c), n \in S, Good(q) PROVE Good(Push(q, new(n)))
  <2> DEFINE p == Push(q, new(n))
  <2>1. /\ p \in Seq(R) /\ Len(q) <= Len(p) /\ \A k \in 1..Len(q) : p[k] = q[k]
        /\ \A k \in 1..Len(p) : k \in 1..Len(q) \/ p[k] = new(n)
    <3> DEFINE r == new(n)
    <3>1. r \in R /\ q \in Seq(R) BY <1>3, <1>6
    <3> HIDE DEF r, Good
    <3>2. Push(q, r) \in Seq(R) /\ Keeps(q, Push(q, r)) /\ Adds(q, Push(q, r), r)
      BY <3>1, PushAdds
    <3> QED BY <3>2 DEF r, Keeps, Adds
  <2>2. q \in Seq(R) /\ Len(q) \in Nat /\ Len(p) \in Nat BY <1>6, <2>1
  <2> HIDE DEF p
  <2>3. \A k \in 1..Len(rs) : k \in 1..Len(q) BY <1>2, <1>6, <2>2
  <2>4. Len(rs) <= Len(p) BY <1>2, <1>6, <2>1, <2>2
  <2>5. \A k \in 1..Len(rs) : p[k] = rs[k] BY <1>6, <2>1, <2>3
  <2>6. \A k \in 1..Len(p) :
          k \in 1..Len(rs) \/ \E i \in S \cap (1..Len(c)) : p[k].call = c[i].id
    <3>1. ASSUME NEW k \in 1..Len(p), k \in 1..Len(q), k \notin 1..Len(rs)
          PROVE  \E i \in S \cap (1..Len(c)) : p[k].call = c[i].id
      <4>1. \E i \in S \cap (1..Len(c)) : q[k].call = c[i].id BY <1>6, <3>1
      <4> QED BY <2>1, <3>1, <4>1
    <3>2. ASSUME NEW k \in 1..Len(p), p[k] = new(n)
          PROVE  \E i \in S \cap (1..Len(c)) : p[k].call = c[i].id
      BY <1>3, <1>6, <3>2
    <3> QED BY <2>1, <3>1, <3>2
  <2> QED BY <2>1, <2>4, <2>5, <2>6 DEF p
<1> DEFINE T == {n \in 0..Len(c) : Good(pushed[n])}
<1>7. Good(pushed[0])
  <2>1. pushed[0] = rs BY <1>2, <1>5
  <2> HIDE DEF Good
  <2>2. Good(rs) BY <1>2, <1>4 DEF Good
  <2> QED BY <2>1, <2>2
<1> HIDE DEF Good
<1>8. ASSUME NEW n \in 0..Len(c), n > 0, n - 1 \in T PROVE n \in T
  <2>1. n \in 1..Len(c) BY <1>2, <1>8
  <2>2. Good(pushed[n - 1]) BY <1>8
  <2>3. pushed[n] = IF n \in S THEN Push(pushed[n - 1], new(n)) ELSE pushed[n - 1]
    BY <1>5, <1>8
  <2>4. CASE n \in S
    <3>1. Good(Push(pushed[n - 1], new(n))) BY <1>6, <2>1, <2>2, <2>4
    <3> QED BY <2>3, <2>4, <3>1
  <2>5. CASE n \notin S BY <2>2, <2>3, <2>5
  <2> QED BY <2>4, <2>5
<1>9. T \in SUBSET (0..Len(c)) /\ 0 \in T BY <1>2, <1>7
<1>10. T = 0..Len(c)
  <2> HIDE DEF T
  <2> QED BY <1>2, <1>8, <1>9, UpTo
<1>11. Good(pushed[Len(c)])
  <2>1. Len(c) \in T BY <1>2, <1>10
  <2> QED BY <2>1
<1> QED BY <1>1, <1>11 DEF Good, R, Keeps, AddsCalls

LEMMA CutKeeps ==
  ASSUME NEW t \in Turns, NEW u, u = Cut(t)
  PROVE  /\ u \in Turns /\ u.index = t.index /\ u.locked = t.locked /\ u.ready = t.ready
         /\ u.rejected = t.rejected /\ u.running = t.running /\ u.held = t.held
         /\ Len(u.content) <= Len(t.content) /\ (t.content # <<>> => Len(u.content) > 0)
         /\ \A i \in 1..Len(u.content) : u.content[i] = t.content[i]
         /\ Len(t.results) <= Len(u.results)
         /\ \A k \in 1..Len(t.results) : u.results[k] = t.results[k]
         /\ \A k \in 1..Len(u.results) :
              \/ k \in 1..Len(t.results)
              \/ \E i \in 1..Len(t.content) : i > Len(u.content) /\ u.results[k].call = t.content[i].id
<1> DEFINE c == t.content
           I == {i \in 1..Len(c) : c[i].kind = "new_task"}
           first == IF I # {} THEN Min(I) ELSE 0
           later == {i \in 1..Len(c) : i > first /\ c[i].kind \in Tools}
           R == [call : 1..MaxBlocks, from : 0..MaxBlocks]
           q == Pushed(t.results, c, later)
           d == SubSeq(c, 1, first)
<1>1. Cut(t) = IF first = 0 \/ later = {} THEN t ELSE [t EXCEPT !.content = d, !.results = q]
  BY DEF Cut, Pushed, SelectInSeq
<1>2. c \in Seq(Blocks) /\ Len(c) \in Nat /\ t.results \in Seq(R) /\ Len(t.results) \in Nat
  BY TurnFields
<1>3. first \in 0..Len(c)
  <2>1. CASE I # {}
    <3>1. I \in SUBSET Nat OBVIOUS
    <3>2. \E x \in I : \A y \in I : x <= y BY <2>1, <3>1, Least
    <3>3. Min(I) \in I BY <3>2 DEF Min
    <3> QED BY <2>1, <3>3
  <2>2. CASE I = {} BY <1>2, <2>2
  <2> QED BY <2>1, <2>2
<1> HIDE DEF first
<1>4. CASE first = 0 \/ later = {}
  <2>1. u = t BY <1>1, <1>4
  <2>2. c # <<>> => Len(c) > 0 BY <1>2
  <2> QED BY <1>2, <2>1, <2>2
<1>5. CASE ~(first = 0 \/ later = {})
  <2>1. u = [t EXCEPT !.content = d, !.results = q] BY <1>1, <1>5
  <2>2. first \in Nat /\ first > 0 /\ first <= Len(c) BY <1>2, <1>3, <1>5
  <2>3. d \in Seq(Blocks) /\ Len(d) = first /\ \A i \in 1..first : d[i] = c[i]
    <3>1. \A i \in 1..first : c[i] \in Blocks BY <1>2, <2>2
    <3> HIDE DEF c
    <3> QED BY <1>2, <2>2, <3>1
  <2>4. /\ q \in Seq(R) /\ Len(t.results) <= Len(q)
        /\ \A k \in 1..Len(t.results) : q[k] = t.results[k]
        /\ \A k \in 1..Len(q) :
             k \in 1..Len(t.results) \/ \E i \in later \cap (1..Len(c)) : q[k].call = c[i].id
    <3> DEFINE p == t.results
    <3>1. p \in Seq([call : 1..MaxBlocks, from : 0..MaxBlocks]) BY <1>2
    <3> HIDE DEF p, c, later
    <3> DEFINE w == Pushed(p, c, later)
    <3>2. /\ w \in Seq([call : 1..MaxBlocks, from : 0..MaxBlocks])
          /\ Keeps(p, w) /\ AddsCalls(p, w, c, later)
      BY <1>2, <3>1, PushedElements
    <3> QED BY <3>2 DEF p, Keeps, AddsCalls
  <2> HIDE DEF d, q, R
  <2>5. u \in Turns BY <2>1, <2>3, <2>4 DEF Turns, R
  <2>6. /\ u.content = d /\ u.results = q /\ u.index = t.index /\ u.locked = t.locked
        /\ u.ready = t.ready /\ u.rejected = t.rejected /\ u.running = t.running /\ u.held = t.held
    BY <2>1 DEF Turns
  <2>7. \A i \in later : i \in 1..Len(c) /\ i > first OBVIOUS
  <2> HIDE DEF later
  <2> QED BY <2>2, <2>3, <2>4, <2>5, <2>6, <2>7
<1> QED BY <1>4, <1>5

-----------------------------------------------------------------------------
(* The repair of the results.                                              *)

(* Results that name each call of used once.                               *)
Named(acc) ==
  /\ \A k \in 1..Len(acc.results) : acc.results[k].call \in acc.used
  /\ \A c \in acc.used : \E k \in 1..Len(acc.results) : acc.results[k].call = c
  /\ \A j, k \in 1..Len(acc.results) : acc.results[j].call = acc.results[k].call => j = k

LEMMA RepairedAnswers ==
  ASSUME TypeOK, Distinct(calls), calls # <<>>
  PROVE  /\ {Repaired[i].call : i \in 1..Len(Repaired)} = ToSet(calls)
         /\ Len(Repaired) = Len(calls)
<1> DEFINE ids == ToSet(calls)
           B == 1..MaxBlocks
           R == [call : 1..MaxBlocks, from : 0..MaxBlocks]
           N == Len(turn.results)
           Call(used, i) ==
             IF turn.results[i].call \in ids \ used THEN turn.results[i].call
             ELSE IF i <= Len(calls) /\ calls[i] \notin used THEN calls[i] ELSE 0
           Corrected(acc, i) ==
             IF Call(acc.used, i) = 0 THEN acc
             ELSE [used |-> acc.used \cup {Call(acc.used, i)},
                   results |-> Append(acc.results, ResultOf(Call(acc.used, i), turn.results[i].from))]
           Is(f) == f = [n \in 0..N |->
                          IF n = 0 THEN [used |-> {}, results |-> <<>>] ELSE Corrected(f[n - 1], n)]
           upTo == CHOOSE f : Is(f)
           done == upTo[N]
           missing == Among(calls, ids \ done.used)
           W == [used : SUBSET ids, results : Seq(R)]
           none == [used |-> {}, results |-> <<>>]
<1>1. Repaired = [i \in 1..Len(missing) |-> ResultOf(missing[i], 0)] \o done.results
  BY Zenon DEF Repaired
<1>2. /\ calls \in Seq(B) /\ Len(calls) \in Nat /\ N \in Nat
      /\ turn.results \in Seq(R) /\ turn \in Turns
  <2>1. turn \in Turns /\ calls \in Seq(B) BY DEF TypeOK
  <2>2. turn.results \in Seq(R) /\ N \in Nat BY <2>1, TurnFields
  <2> HIDE DEF B, R, N
  <2> QED BY <2>1, <2>2
<1>3. \A i \in 1..Len(calls) : calls[i] \in ids /\ calls[i] \in B
  <2> HIDE DEF B, N, R
  <2>1. DOMAIN calls = 1..Len(calls) BY <1>2
  <2> QED BY <1>2, <2>1 DEF ToSet
<1>4. ids \subseteq B
  <2>1. DOMAIN calls = 1..Len(calls) BY <1>2
  <2> QED BY <1>3, <2>1 DEF ToSet
<1>5. \A i \in 1..N : turn.results[i].from \in 0..MaxBlocks BY <1>2, ResultsType
<1> HIDE DEF ids, R, N
<1>6. ASSUME NEW used \in SUBSET ids, NEW i \in 1..N
      PROVE  Call(used, i) = 0 \/ Call(used, i) \in ids \ used
  BY <1>2, <1>3
<1> HIDE DEF Call
<1>7. ASSUME NEW acc \in W, NEW i \in 1..N
      PROVE  /\ Corrected(acc, i) \in W
             /\ Named(acc) => Named(Corrected(acc, i))
  <2> DEFINE x == Call(acc.used, i)
             y == ResultOf(x, turn.results[i].from)
             r == acc.results
             q == Append(r, y)
             v == acc.used \cup {x}
  <2>1. acc.used \in SUBSET ids /\ r \in Seq(R) OBVIOUS
  <2>2. x = 0 \/ x \in ids \ acc.used BY <1>6, <2>1
  <2>3. CASE x = 0
    <3>1. Corrected(acc, i) = acc BY <2>3
    <3> QED BY <3>1
  <2>4. CASE x # 0
    <3>1. Corrected(acc, i) = [used |-> v, results |-> q] BY <2>4
    <3>2. x \in ids \ acc.used /\ x \in B BY <1>4, <2>2, <2>4
    <3>3. y \in R /\ y.call = x BY <1>5, <3>2 DEF R, ResultOf
    <3> HIDE DEF x, y, Corrected, W
    <3>4. /\ q \in Seq(R) /\ Len(q) = Len(r) + 1 /\ q[Len(r) + 1] = y
          /\ \A k \in 1..Len(r) : q[k] = r[k]
      BY <2>1, <3>3
    <3>5. Len(r) \in Nat BY <2>1
    <3> HIDE DEF q
    <3>6. v \in SUBSET ids BY <2>1, <3>2
    <3>7. [used |-> v, results |-> q] \in W BY <3>4, <3>6 DEF W
    <3>8. ASSUME Named(acc) PROVE Named([used |-> v, results |-> q])
      <4>1. /\ \A k \in 1..Len(r) : r[k].call \in acc.used
            /\ \A c \in acc.used : \E k \in 1..Len(r) : r[k].call = c
            /\ \A j, k \in 1..Len(r) : r[j].call = r[k].call => j = k
        BY <3>8 DEF Named
      <4> HIDE DEF r
      <4>2. \A k \in 1..Len(q) : k \in 1..Len(r) \/ k = Len(r) + 1 BY <3>4, <3>5
      <4>3. Len(r) + 1 \in 1..Len(q) /\ \A k \in 1..Len(r) : k \in 1..Len(q) BY <3>4, <3>5
      <4>4. \A k \in 1..Len(q) : q[k].call \in v BY <3>3, <3>4, <4>1, <4>2
      <4>5. \A c \in v : \E k \in 1..Len(q) : q[k].call = c BY <3>3, <3>4, <4>1, <4>3
      <4>6. \A k \in 1..Len(r) : q[k].call # q[Len(r) + 1].call BY <3>2, <3>3, <3>4, <4>1
      <4>7. \A j, k \in 1..Len(q) : q[j].call = q[k].call => j = k
        <5>1. \A j, k \in 1..Len(r) : q[j].call = q[k].call => j = k BY <3>4, <4>1
        <5> QED BY <4>2, <4>6, <5>1
      <4> HIDE DEF v
      <4> DEFINE e == [used |-> v, results |-> q]
      <4>8. e.used = v /\ e.results = q OBVIOUS
      <4> HIDE DEF e
      <4>9. Named(e) BY <4>4, <4>5, <4>7, <4>8 DEF Named
      <4> QED BY <4>9 DEF e
    <3> QED BY <3>1, <3>7, <3>8
  <2> QED BY <2>3, <2>4
<1> HIDE DEF Corrected
<1>8. \A n \in 0..N : upTo[n] = IF n = 0 THEN none ELSE Corrected(upTo[n - 1], n)
  <2> DEFINE step == [p \in (1..N) \X W |-> Corrected(p[2], p[1])]
  <2> HIDE DEF W
  <2>1. step \in Steps(N, W) BY <1>7 DEF Steps
  <2>2. none \in W BY DEF W
  <2> HIDE DEF step, none
  <2>3. PICK f : IsRecursion(f, N, W, none, step) BY <1>2, <2>1, <2>2, Recursion
  <2>4. /\ f \in [0..N -> W] /\ f[0] = none
        /\ \A n \in 0..N : n > 0 => f[n] = step[<<n, f[n - 1]>>]
    BY <2>3 DEF IsRecursion
  <2>5. ASSUME NEW n \in 0..N, n > 0 PROVE f[n] = Corrected(f[n - 1], n)
    <3>1. n \in 1..N /\ n - 1 \in 0..N BY <1>2, <2>5
    <3>2. <<n, f[n - 1]>> \in (1..N) \X W BY <2>4, <3>1
    <3>3. step[<<n, f[n - 1]>>] = Corrected(f[n - 1], n) BY <3>2 DEF step
    <3> QED BY <2>4, <2>5, <3>3
  <2>6. Is(f)
    <3> DEFINE h == [n \in 0..N |-> IF n = 0 THEN none ELSE Corrected(f[n - 1], n)]
    <3>1. \A n \in 0..N : f[n] = h[n] BY <1>2, <2>4, <2>5
    <3>2. f = [n \in 0..N |-> f[n]] BY <2>4
    <3>3. h = [n \in 0..N |-> h[n]] OBVIOUS
    <3> HIDE DEF h
    <3>4. f = h BY <3>1, <3>2, <3>3
    <3> QED BY <3>4 DEF h, none
  <2> HIDE DEF Is
  <2>7. Is(upTo) BY <2>6, Zenon
  <2> HIDE DEF upTo
  <2> DEFINE h == [n \in 0..N |-> IF n = 0 THEN none ELSE Corrected(upTo[n - 1], n)]
  <2>8. upTo = h BY <2>7 DEF Is, none
  <2>9. \A n \in 0..N : h[n] = IF n = 0 THEN none ELSE Corrected(upTo[n - 1], n) OBVIOUS
  <2> HIDE DEF h
  <2> QED BY <2>8, <2>9
<1> DEFINE T == {n \in 0..N : upTo[n] \in W /\ Named(upTo[n])}
<1>9. none \in W /\ Named(none) BY DEF Named
<1> HIDE DEF upTo, Is, W, none
<1>10. 0 \in T BY <1>2, <1>8, <1>9
<1>11. ASSUME NEW n \in 0..N, n > 0, n - 1 \in T PROVE n \in T
  <2>1. n \in 1..N BY <1>2, <1>11
  <2>2. upTo[n] = Corrected(upTo[n - 1], n) BY <1>8, <1>11
  <2>3. upTo[n - 1] \in W /\ Named(upTo[n - 1]) BY <1>11
  <2> QED BY <1>7, <2>1, <2>2, <2>3
<1>12. T = 0..N
  <2>1. T \in SUBSET (0..N) OBVIOUS
  <2> HIDE DEF T
  <2> QED BY <1>2, <1>10, <1>11, <2>1, UpTo
<1>13. done \in W /\ Named(done)
  <2>1. N \in T BY <1>2, <1>12
  <2> QED BY <2>1
<1> HIDE DEF T, done, missing
<1>14. done.used \subseteq ids /\ done.results \in Seq(R) BY <1>13 DEF W
<1>15. /\ missing \in Seq(B) /\ Distinct(missing)
       /\ \A c : c \in ids \ done.used <=> \E k \in 1..Len(missing) : missing[k] = c
  <2> DEFINE S == ids \ done.used
  <2> HIDE DEF S, B
  <2>1. missing = Among(calls, S) BY DEF missing, S
  <2>2. missing \in Seq(B) /\ ToSet(missing) = ids \cap S /\ Distinct(missing)
    BY <1>2, <2>1, AmongElements DEF ids
  <2>3. ToSet(missing) = {missing[k] : k \in 1..Len(missing)} BY <2>2 DEF ToSet
  <2>4. ids \cap S = ids \ done.used BY DEF S
  <2> QED BY <2>2, <2>3, <2>4
<1> DEFINE m == [i \in 1..Len(missing) |-> ResultOf(missing[i], 0)]
           g == done.results
           q == m \o g
           a == [i \in 1..Len(q) |-> q[i].call]
<1>16. /\ m \in Seq(R) /\ Len(m) = Len(missing) /\ Len(m) \in Nat
       /\ \A i \in 1..Len(m) : m[i].call = missing[i]
  <2>1. \A i \in 1..Len(missing) : missing[i] \in 1..MaxBlocks BY <1>15
  <2>2. \A i \in 1..Len(missing) : m[i] \in R /\ m[i].call = missing[i]
    BY <2>1 DEF ResultOf, R
  <2>3. Len(missing) \in Nat BY <1>15
  <2>4. m \in [1..Len(missing) -> R] BY <2>2
  <2> HIDE DEF m
  <2>5. m \in Seq(R) /\ Len(m) = Len(missing) BY <2>3, <2>4
  <2> QED BY <2>2, <2>3, <2>5
<1>17. g \in Seq(R) /\ Len(g) \in Nat BY <1>14
<1>18. /\ \A k \in 1..Len(g) : g[k].call \in done.used
       /\ \A c \in done.used : \E k \in 1..Len(g) : g[k].call = c
       /\ \A j, k \in 1..Len(g) : g[j].call = g[k].call => j = k
  BY <1>13 DEF Named
<1> HIDE DEF m, g
<1>19. /\ q \in Seq(R) /\ Len(q) = Len(m) + Len(g)
       /\ \A i \in 1..Len(m) : q[i] = m[i]
       /\ \A i \in 1..Len(g) : q[Len(m) + i] = g[i]
  BY <1>16, <1>17
<1> HIDE DEF q
<1>20. \A i \in 1..Len(q) : i \in 1..Len(m) \/ \E k \in 1..Len(g) : i = Len(m) + k
  <2>1. ASSUME NEW i \in 1..Len(q), i \notin 1..Len(m) PROVE i - Len(m) \in 1..Len(g) /\ i = Len(m) + (i - Len(m))
    BY <1>16, <1>17, <1>19, <2>1
  <2> QED BY <2>1
<1>21. /\ \A i \in 1..Len(m) : i \in 1..Len(q)
       /\ \A k \in 1..Len(g) : Len(m) + k \in 1..Len(q)
  BY <1>16, <1>17, <1>19
<1>22. \A i \in 1..Len(q) : q[i].call \in ids
  <2>1. \A i \in 1..Len(m) : q[i].call \in ids BY <1>15, <1>16, <1>19
  <2>2. \A k \in 1..Len(g) : q[Len(m) + k].call \in ids BY <1>14, <1>18, <1>19
  <2> QED BY <1>20, <2>1, <2>2
<1>23. ASSUME NEW c \in ids PROVE \E i \in 1..Len(q) : q[i].call = c
  <2>1. CASE c \in done.used
    <3>1. PICK k \in 1..Len(g) : g[k].call = c BY <1>18, <2>1
    <3> QED BY <1>19, <1>21, <3>1
  <2>2. CASE c \notin done.used
    <3>1. PICK k \in 1..Len(missing) : missing[k] = c BY <1>15, <1>23, <2>2
    <3> QED BY <1>16, <1>19, <1>21, <3>1
  <2> QED BY <2>1, <2>2
<1>24. \A i, j \in 1..Len(q) : q[i].call = q[j].call => i = j
  <2>1. ASSUME NEW i \in 1..Len(m), NEW j \in 1..Len(m), q[i].call = q[j].call PROVE i = j
    <3>1. missing[i] = missing[j] BY <1>16, <1>19, <2>1
    <3> QED BY <1>15, <1>16, <3>1 DEF Distinct
  <2>2. ASSUME NEW i \in 1..Len(m), NEW k \in 1..Len(g) PROVE q[i].call # q[Len(m) + k].call
    <3>1. q[i].call \in ids \ done.used BY <1>15, <1>16, <1>19
    <3>2. q[Len(m) + k].call \in done.used BY <1>18, <1>19
    <3> QED BY <3>1, <3>2
  <2>3. ASSUME NEW j \in 1..Len(g), NEW k \in 1..Len(g), q[Len(m) + j].call = q[Len(m) + k].call
        PROVE  j = k
    BY <1>18, <1>19, <2>3
  <2>4. SUFFICES ASSUME NEW i \in 1..Len(q), NEW j \in 1..Len(q), q[i].call = q[j].call
                 PROVE  i = j
    OBVIOUS
  <2>5. CASE i \in 1..Len(m) /\ j \in 1..Len(m) BY <2>1, <2>4, <2>5
  <2>6. CASE i \in 1..Len(m) /\ j \notin 1..Len(m)
    <3>1. PICK k \in 1..Len(g) : j = Len(m) + k BY <1>20, <2>6
    <3> QED BY <2>2, <2>4, <2>6, <3>1
  <2>7. CASE i \notin 1..Len(m) /\ j \in 1..Len(m)
    <3>1. PICK k \in 1..Len(g) : i = Len(m) + k BY <1>20, <2>7
    <3> QED BY <2>2, <2>4, <2>7, <3>1
  <2>8. CASE i \notin 1..Len(m) /\ j \notin 1..Len(m)
    <3>1. PICK k \in 1..Len(g) : i = Len(m) + k BY <1>20, <2>8
    <3>2. PICK h \in 1..Len(g) : j = Len(m) + h BY <1>20, <2>8
    <3>3. k = h BY <2>3, <2>4, <3>1, <3>2
    <3> QED BY <3>1, <3>2, <3>3
  <2> QED BY <2>5, <2>6, <2>7, <2>8
<1>25. a \in Seq(B) /\ Len(a) = Len(q) /\ \A i \in 1..Len(a) : a[i] = q[i].call
  <2>1. Len(q) \in Nat BY <1>19
  <2>2. a \in [1..Len(q) -> B] BY <1>4, <1>22
  <2>3. \A i \in 1..Len(q) : a[i] = q[i].call OBVIOUS
  <2> HIDE DEF a, B
  <2> QED BY <2>1, <2>2, <2>3
<1> HIDE DEF a, B
<1>26. Distinct(a) BY <1>24, <1>25 DEF Distinct
<1>27. ToSet(a) = {q[i].call : i \in 1..Len(q)}
  <2>1. ToSet(a) = {a[i] : i \in 1..Len(a)} BY <1>25 DEF ToSet
  <2> QED BY <1>25, <2>1
<1>28. {q[i].call : i \in 1..Len(q)} = ids BY <1>22, <1>23
<1>29. Len(a) <= Len(calls) /\ Len(calls) <= Len(a)
  <2>1. ToSet(a) = ToSet(calls) BY <1>27, <1>28 DEF ids
  <2>2. ToSet(a) \subseteq ToSet(calls) /\ ToSet(calls) \subseteq ToSet(a) BY <2>1
  <2>3. Len(a) <= Len(calls) BY <1>2, <1>25, <1>26, <2>2, DistinctLength
  <2>4. Len(calls) <= Len(a) BY <1>2, <1>25, <2>2, DistinctLength
  <2> QED BY <2>3, <2>4
<1>30. Len(a) \in Nat BY <1>25
<1>31. Len(q) = Len(calls) BY <1>2, <1>25, <1>29, <1>30
<1>32. Repaired = q BY <1>1 DEF q, m, g
<1> QED BY <1>28, <1>31, <1>32 DEF ids
-----------------------------------------------------------------------------
(* Steps.                                                                  *)

(* Of a turn that is like t, with the same presentations.                  *)
LEMMA RestsKeeps ==
  ASSUME NEW t \in Turns, NEW u, NEW n \in Nat, Presents(t, u), Rests(t, u)
  PROVE  /\ u \in Turns
         /\ Numbered(t, n) => Numbered(u, n)
         /\ Room(t, n) => Room(u, n)
         /\ Alone(t, n) /\ Numbered(t, n) => Alone(u, n)
         /\ \A r : Answering(t, r, n) => Answering(u, r, n)
         /\ OnTrack(t) => OnTrack(u)
         /\ \A r : Ordered(t, r, n) => Ordered(u, r, n)
<1>1. u \in Turns /\ SameBlocks(t.content, u.content) BY DEF Presents
<1>2. Numbered(t, n) => Numbered(u, n) BY <1>1, SameBlocksNumbered
<1>3. Room(t, n) => Room(u, n) BY PresentsRoom
<1>4. Alone(t, n) /\ Numbered(t, n) => Alone(u, n) BY PresentsAlone
<1>5. \A r : Answering(t, r, n) => Answering(u, r, n) BY PresentsAnswering
<1>6. OnTrack(t) => OnTrack(u) BY PresentsOnTrack
<1>7. \A r : Ordered(t, r, n) => Ordered(u, r, n) BY RestsOrdered
<1> QED BY <1>1, <1>2, <1>3, <1>4, <1>5, <1>6, <1>7

(* A step that leads to u and presents.                                    *)
LEMMA PresentsStep ==
  ASSUME TurnInv, NEW u \in Turns, NEW t, TurnBecomes(t), Presents(u, t),
         arrived' \in 0..MaxBlocks, UNCHANGED <<whole, failed, overtaken>>,
         phase' \in {"stream", "broken", "closed", "save", "wait", "collected", "failed", "ended"},
         Numbered(u, arrived'), Room(u, arrived'),
         ~overtaken => /\ Alone(u, arrived') /\ Answering(u, ran, arrived') /\ Ordered(u, ran, arrived')
                       /\ Anew(u),
         ~overtaken /\ phase' \in {"stream", "broken", "closed", "save"} => OnTrack(u),
         phase' = "collected" => overtaken,
         calls' \in Seq(1..MaxBlocks), Distinct(calls'),
         phase' \in {"wait", "collected"} => calls' = CallsOf(u.content)
  PROVE  TurnInv'
<1>1. TypeOK /\ turn' = t BY DEF TurnInv, TurnBecomes
<1>2. t \in Turns /\ SameBlocks(u.content, t.content) BY DEF Presents
<1>3. arrived' \in Nat OBVIOUS
<1>4. ran' \in Seq(1..MaxBlocks) BY <1>1, <1>2, RanType
<1>5. TypeOK' BY <1>1, <1>2, <1>4 DEF TypeOK
<1>6. Common'
  <2>1. Numbered(t, arrived') BY <1>2, SameBlocksNumbered
  <2>2. Room(t, arrived') BY <1>3, PresentsRoom
  <2>3. CallsOf(t.content) = CallsOf(u.content) BY <1>2, SameBlocksCalls, TurnFields
  <2>4. CallsSaved' BY <1>1, <2>3 DEF CallsSaved
  <2> QED BY <1>1, <2>1, <2>2, <2>4 DEF Common
<1>7. ASSUME ~overtaken' PROVE NotOvertaken'
  <2>1. ~overtaken BY <1>7
  <2>2. Alone(t, arrived') BY <1>3, <2>1, PresentsAlone
  <2>3. Answering(t, ran', arrived')
    <3>1. Answering(t, ran, arrived') BY <1>3, <2>1, PresentsAnswering
    <3> QED BY <1>1, <1>2, <3>1, RanGrows DEF Answering, Answered
  <2>4. Ordered(t, ran', arrived') BY <1>1, <1>2, <1>3, <2>1, PresentsOrdered
  <2>5. phase' \in {"stream", "broken", "closed", "save"} => OnTrack(t)
    BY <2>1, PresentsOnTrack
  <2>6. Recorded(t, ran')
    <3>1. Recorded(turn, ran) /\ Anew(u) BY <2>1 DEF TurnInv, NotOvertaken
    <3> QED BY <1>1, <1>2, <3>1, PresentsRecorded
  <2> QED BY <1>1, <2>1, <2>2, <2>3, <2>4, <2>5, <2>6 DEF NotOvertaken
<1> QED BY <1>5, <1>6, <1>7 DEF TurnInv

LEMMA TurnInvInit == Init => TurnInv
<1> SUFFICES ASSUME Init PROVE TurnInv
  OBVIOUS
<1>1. NoTurn \in Turns BY DEF NoTurn, Turns
<1>2. /\ turn = NoTurn /\ turn.content = <<>> /\ turn.results = <<>> /\ turn.running = <<>>
      /\ turn.index = 1 /\ ~turn.locked /\ ~turn.ready
  BY DEF Init, NoTurn
<1>3. /\ phase = "stream" /\ calls = <<>> /\ ran = <<>> /\ arrived = 0 /\ failed = 0
      /\ whole \in BOOLEAN /\ overtaken = FALSE
  BY DEF Init
<1>4. TypeOK
  <2>1. <<>> \in Seq(1..MaxBlocks) /\ 0 \in 0..MaxBlocks /\ 0 \in 0..MaxFailures OBVIOUS
  <2>2. turn \in Turns BY <1>1, <1>2
  <2> QED BY <1>3, <2>1, <2>2 DEF TypeOK
<1>5. Common
  <2>1. Numbered(turn, arrived) BY <1>2, <1>3 DEF Numbered, Increasing
  <2>2. Room(turn, arrived) BY <1>2, <1>3 DEF Room
  <2>3. CallsSaved BY <1>3 DEF CallsSaved, Distinct
  <2> QED BY <2>1, <2>2, <2>3 DEF Common
<1>6. NotOvertaken
  <2>1. Alone(turn, arrived) BY <1>2, <1>3 DEF Alone
  <2>2. Answering(turn, ran, arrived) BY <1>2, <1>3 DEF Answering
  <2>3. Ordered(turn, ran, arrived) BY <1>2, <1>3 DEF Ordered
  <2>4. OnTrack(turn) BY <1>2 DEF OnTrack
  <2>5. Recorded(turn, ran) BY <1>2 DEF Recorded
  <2> QED BY <1>3, <2>1, <2>2, <2>3, <2>4, <2>5 DEF NotOvertaken
<1> QED BY <1>4, <1>5, <1>6 DEF TurnInv

LEMMA TurnPresents == ASSUME TypeOK PROVE Presents(turn, turn) /\ Rests(turn, turn)
BY SameBlocksReflexive DEF Presents, Rests, TypeOK

(* What is asked for without a new block.                                  *)
LEMMA SameStep ==
  ASSUME TurnInv, NEW u, NEW t, Presents(turn, u), Rests(turn, u), Presents(u, t), TurnBecomes(t),
         phase \in {"stream", "broken", "closed", "save"},
         phase' \in {"stream", "broken", "closed", "save"},
         UNCHANGED <<whole, calls, arrived, failed, overtaken>>
  PROVE  TurnInv'
<1>1. turn \in Turns /\ arrived \in 0..MaxBlocks /\ calls \in Seq(1..MaxBlocks)
  BY DEF TurnInv, TypeOK
<1>2. Numbered(turn, arrived) /\ Room(turn, arrived) /\ Distinct(calls)
  BY DEF TurnInv, Common, CallsSaved
<1>3. ~overtaken => /\ Alone(turn, arrived) /\ Answering(turn, ran, arrived) /\ Ordered(turn, ran, arrived)
                    /\ OnTrack(turn)
  BY DEF TurnInv, NotOvertaken
<1>4. u \in Turns /\ Numbered(u, arrived) /\ Room(u, arrived)
  BY <1>1, <1>2, RestsKeeps
<1>5. ~overtaken => /\ Alone(u, arrived) /\ Answering(u, ran, arrived) /\ Ordered(u, ran, arrived)
                    /\ OnTrack(u)
  <2> SUFFICES ASSUME ~overtaken
               PROVE  /\ Alone(u, arrived) /\ Answering(u, ran, arrived) /\ Ordered(u, ran, arrived)
                      /\ OnTrack(u)
    OBVIOUS
  <2>1. /\ Alone(turn, arrived) /\ Answering(turn, ran, arrived) /\ Ordered(turn, ran, arrived)
        /\ OnTrack(turn) /\ arrived \in Nat
    BY <1>1, <1>3
  <2> QED BY <1>1, <1>2, <2>1, RestsKeeps
<1>6. Anew(u) BY DEF Rests, Anew
<1>7. phase' # "collected" /\ phase' \notin {"wait", "collected"} OBVIOUS
<1>8. phase' \in {"stream", "broken", "closed", "save", "wait", "collected", "failed", "ended"}
  OBVIOUS
<1> QED BY <1>1, <1>2, <1>4, <1>5, <1>6, <1>7, <1>8, PresentsStep

(* A block arrives in a turn like the present one, and is presented.       *)
LEMMA BlockStep ==
  ASSUME TurnInv, NEW u, Presents(turn, u), Rests(turn, u), NEW kind \in Kinds, NEW partial \in BOOLEAN,
         NewBlock, Chunk(Present(WithBlock(u, Block(kind, partial))))
  PROVE  TurnInv'
<1> DEFINE b == Block(kind, partial)
           w == WithBlock(u, b)
           t == Present(w)
           n == arrived
<1>1. turn \in Turns /\ n \in Nat /\ n < MaxBlocks /\ arrived' = n + 1
  BY DEF TurnInv, TypeOK, NewBlock
<1>2. /\ phase = "stream" /\ phase' \in {"stream", "broken"} /\ TurnBecomes(t)
      /\ UNCHANGED <<whole, calls, failed, overtaken>>
  BY DEF Chunk
<1>3. b \in Blocks /\ b.id = n + 1 BY <1>1 DEF Block, Blocks
<1> HIDE DEF b, t, w
<1>4. Numbered(turn, n) /\ Room(turn, n) /\ Distinct(calls) /\ calls \in Seq(1..MaxBlocks)
  BY DEF TurnInv, Common, CallsSaved, TypeOK
<1>5. ~overtaken => /\ Alone(turn, n) /\ Answering(turn, ran, n) /\ Ordered(turn, ran, n) /\ OnTrack(turn)
  BY <1>2 DEF TurnInv, NotOvertaken
<1>6. /\ u \in Turns /\ Numbered(u, n) /\ Room(u, n)
      /\ ~overtaken => /\ Alone(u, n) /\ Answering(u, ran, n) /\ Ordered(u, ran, n) /\ OnTrack(u)
  BY <1>1, <1>4, <1>5, RestsKeeps
<1>7. w = WithBlock(u, b) BY DEF w
<1>8. w \in Turns /\ Numbered(w, n + 1) /\ Room(w, n + 1)
  BY <1>1, <1>3, <1>6, <1>7, WithBlockCommon
<1>9. ran \in Seq(1..MaxBlocks) BY DEF TurnInv, TypeOK
<1>10. ~overtaken => /\ Alone(w, n + 1) /\ Answering(w, ran, n + 1) /\ Ordered(w, ran, n + 1) /\ OnTrack(w)
  <2> SUFFICES ASSUME ~overtaken
               PROVE  Alone(w, n + 1) /\ Answering(w, ran, n + 1) /\ Ordered(w, ran, n + 1) /\ OnTrack(w)
    OBVIOUS
  <2> QED BY <1>1, <1>3, <1>6, <1>7, <1>9, WithBlockAlone
<1>11. Presents(w, t) BY <1>8, PresentPresents DEF t
<1>12. Anew(w)
  <2>1. w.running = u.running BY <1>3, <1>6, <1>7, WithBlockFields
  <2> QED BY <2>1 DEF Rests, Anew
<1>13. /\ phase' # "collected" /\ phase' \notin {"wait", "collected"}
       /\ phase' \in {"stream", "broken", "closed", "save", "wait", "collected", "failed", "ended"}
  BY <1>2
<1>14. arrived' \in 0..MaxBlocks BY <1>1
<1> HIDE DEF n
<1>15. n + 1 = arrived' BY <1>1
<1>16. /\ Numbered(w, arrived') /\ Room(w, arrived')
       /\ ~overtaken => Alone(w, arrived') /\ Answering(w, ran, arrived') /\ Ordered(w, ran, arrived')
  BY <1>8, <1>10, <1>15
<1>17. calls' \in Seq(1..MaxBlocks) /\ Distinct(calls') BY <1>2, <1>4
<1> QED BY <1>2, <1>8, <1>10, <1>11, <1>12, <1>13, <1>14, <1>16, <1>17, PresentsStep

LEMMA StreamStep == ASSUME TurnInv, Stream PROVE TurnInv'
<1>1. TypeOK /\ turn \in Turns /\ Presents(turn, turn) /\ Rests(turn, turn)
  BY TurnPresents DEF TurnInv, TypeOK
<1>2. Presents(turn, Present(turn)) /\ Presents(turn, ToolCallsEnd(turn))
  BY <1>1, PresentPresents, ToolCallsEndPresents
<1>3. ASSUME Chunk(Present(turn)), UNCHANGED arrived PROVE TurnInv'
  <2>1. /\ phase = "stream" /\ phase' \in {"stream", "broken"} /\ TurnBecomes(Present(turn))
        /\ UNCHANGED <<whole, calls, arrived, failed, overtaken>>
    BY <1>3 DEF Chunk
  <2> QED BY <1>1, <1>2, <2>1, SameStep
<1>4. CASE Text
  <2>1. CASE turn.content # <<>> /\ Last(turn.content).kind = "text" /\ Last(turn.content).partial
    <3>1. Chunk(Present(turn)) /\ UNCHANGED arrived BY <1>4, <2>1 DEF Text
    <3> QED BY <1>3, <3>1
  <2>2. CASE ~(turn.content # <<>> /\ Last(turn.content).kind = "text" /\ Last(turn.content).partial)
    <3>1. NewBlock /\ Chunk(Present(WithBlock(turn, Block("text", TRUE)))) BY <1>4, <2>2 DEF Text
    <3>2. "text" \in Kinds BY DEF Kinds
    <3> QED BY <1>1, <3>1, <3>2, BlockStep
  <2> QED BY <2>1, <2>2
<1>5. CASE \E kind \in Tools : ToolCall(kind)
  <2>1. PICK kind \in Tools : ToolCall(kind) BY <1>5
  <2>2. NewBlock /\ Chunk(Present(WithBlock(turn, Block(kind, FALSE)))) /\ kind \in Kinds
    BY <2>1 DEF ToolCall, Kinds
  <2> QED BY <1>1, <2>2, BlockStep
<1>6. CASE \E kind \in Tools : ToolCallStart(kind)
  <2>1. PICK kind \in Tools : ToolCallStart(kind) BY <1>6
  <2>2. NewBlock /\ Chunk(Present(WithBlock(LastTextComplete(turn), Block(kind, TRUE)))) /\ kind \in Kinds
    BY <2>1 DEF ToolCallStart, Kinds
  <2>3. Presents(turn, LastTextComplete(turn)) /\ Rests(turn, LastTextComplete(turn))
    BY <1>1, LastTextPresents
  <2> QED BY <2>2, <2>3, BlockStep
<1>7. CASE ToolCallDelta BY <1>3, <1>7 DEF ToolCallDelta
<1>8. CASE FinishReason
  <2>1. /\ phase = "stream" /\ phase' = "closed" /\ TurnBecomes(ToolCallsEnd(turn))
        /\ UNCHANGED <<whole, calls, arrived, failed, overtaken>>
    BY <1>8 DEF FinishReason
  <2> QED BY <1>1, <1>2, <2>1, SameStep
<1>9. CASE StreamFails
  <2>1. /\ phase' = "failed" /\ failed' = failed + 1 /\ failed < MaxFailures
        /\ UNCHANGED <<whole, turn, calls, arrived, ran, overtaken>>
    BY <1>9 DEF StreamFails
  <2>2. TypeOK' BY <1>1, <2>1 DEF TypeOK
  <2>3. Common' BY <2>1 DEF TurnInv, Common, CallsSaved
  <2>4. ~overtaken' => NotOvertaken' BY <2>1 DEF TurnInv, NotOvertaken
  <2> QED BY <2>2, <2>3, <2>4 DEF TurnInv
<1> QED BY <1>4, <1>5, <1>6, <1>7, <1>8, <1>9 DEF Stream

LEMMA FinishStep ==
  ASSUME TurnInv, NEW i \in 1..Len(turn.running), Finish(i)
  PROVE  TurnInv'
<1> DEFINE partial == turn.running[i].block.partial
<1>1. /\ phase # "ended" /\ UNCHANGED <<whole, phase, calls, arrived, failed, overtaken>>
      /\ \E o \in Outcomes(i) : TurnBecomes(Advance(o, partial))
  BY DEF Finish
<1>2. PICK o \in Outcomes(i) : TurnBecomes(Advance(o, partial)) BY <1>1
<1> DEFINE u == Moved(o, partial)
           t == Advance(o, partial)
<1>3. TypeOK /\ Common BY DEF TurnInv
<1>4. /\ o \in Turns /\ u \in Turns /\ partial \in BOOLEAN
      /\ Numbered(u, arrived) /\ Room(u, arrived) /\ u.content = turn.content
  BY <1>3, OutcomeRoom
<1>5. Presents(u, t) BY <1>4, AdvancePresents
<1>6. ~overtaken => /\ Alone(u, arrived) /\ Answering(u, ran, arrived) /\ Ordered(u, ran, arrived) /\ Anew(u)
                    /\ OnTrack(turn) => OnTrack(u)
  <2> SUFFICES ASSUME ~overtaken
               PROVE  /\ Alone(u, arrived) /\ Answering(u, ran, arrived) /\ Ordered(u, ran, arrived) /\ Anew(u)
                      /\ OnTrack(turn) => OnTrack(u)
    OBVIOUS
  <2>1. NotOvertaken BY DEF TurnInv
  <2> QED BY <1>3, <2>1, OutcomeAlone
<1>7. ~overtaken /\ phase \in {"stream", "broken", "closed", "save"} => OnTrack(turn)
  BY DEF TurnInv, NotOvertaken
<1>8. phase = "collected" => overtaken
  <2>1. ASSUME phase = "collected", ~overtaken PROVE FALSE
    <3>1. turn.running = <<>> BY <2>1 DEF TurnInv, NotOvertaken
    <3> QED BY <3>1
  <2> QED BY <2>1
<1> HIDE DEF u, t, partial
<1>9. calls \in Seq(1..MaxBlocks) /\ Distinct(calls) /\ arrived \in 0..MaxBlocks
  BY <1>3 DEF Common, CallsSaved, TypeOK
<1>10. phase \in {"wait", "collected"} => calls = CallsOf(u.content)
  BY <1>3, <1>4 DEF Common, CallsSaved
<1>11. phase' \in {"stream", "broken", "closed", "save", "wait", "collected", "failed", "ended"}
  BY <1>1, <1>3 DEF TypeOK
<1>12. TurnBecomes(t) BY <1>2 DEF t
<1> QED BY <1>1, <1>4, <1>5, <1>6, <1>7, <1>8, <1>9, <1>10, <1>11, <1>12, PresentsStep

(* The end of the stream closes the blocks.                                *)
LEMMA StreamEndsStep == ASSUME TurnInv, StreamEnds PROVE TurnInv'
<1> DEFINE u == [turn EXCEPT !.complete = TRUE]
           t == ToolCallsEnd(u)
           h == \E i \in 1..Len(t.content) : t.content[i].partial
           c == t.content
           d == [i \in 1..Len(c) |-> [c[i] EXCEPT !.partial = FALSE]]
           v == [t EXCEPT !.held = h, !.content = d]
<1>1. turn \in Turns BY DEF TurnInv, TypeOK
<1>2. u \in Turns BY <1>1 DEF Turns
<1>3. Presents(turn, u) /\ Rests(turn, u)
  <2>1. /\ u.index = turn.index /\ u.results = turn.results /\ u.rejected = turn.rejected
        /\ u.content = turn.content /\ u.ready = turn.ready /\ u.locked = turn.locked
        /\ u.running = turn.running
    BY <1>1 DEF Turns
  <2> HIDE DEF u
  <2> QED BY <1>2, <2>1, SameBlocksReflexive DEF Presents, Rests
<1>4. Presents(u, t) BY <1>2, ToolCallsEndPresents
<1>5. /\ phase \in {"stream", "broken", "closed"} /\ phase' = "save"
      /\ UNCHANGED <<whole, calls, arrived, failed, overtaken>> /\ TurnBecomes(v)
  BY DEF StreamEnds
<1> HIDE DEF u, t
<1>6. t \in Turns BY <1>4 DEF Presents
<1>7. d \in Seq(Blocks) /\ SameBlocks(c, d)
  <2>1. c \in Seq(Blocks) /\ Len(c) \in Nat BY <1>6, TurnFields
  <2> HIDE DEF c
  <2>2. \A i \in 1..Len(c) : d[i] \in Blocks /\ d[i].id = c[i].id /\ d[i].kind = c[i].kind
    <3>1. \A b \in Blocks : LET e == [b EXCEPT !.partial = FALSE]
                            IN e \in Blocks /\ e.id = b.id /\ e.kind = b.kind
      BY DEF Blocks
    <3>2. \A i \in 1..Len(c) : c[i] \in Blocks BY <2>1
    <3> QED BY <3>1, <3>2
  <2>3. d \in [1..Len(c) -> Blocks] BY <2>2
  <2> HIDE DEF d
  <2>4. d \in Seq(Blocks) /\ Len(d) = Len(c) BY <2>1, <2>3
  <2> QED BY <2>2, <2>4 DEF SameBlocks
<1>8. h \in BOOLEAN OBVIOUS
<1> HIDE DEF d, h
<1>9. v \in Turns BY <1>6, <1>7, <1>8 DEF Turns
<1>10. /\ v.index = t.index /\ v.results = t.results /\ v.rejected = t.rejected /\ v.content = d
       /\ v.ready = t.ready /\ v.locked = t.locked /\ v.running = t.running
  BY <1>6 DEF Turns
<1> HIDE DEF v
<1>11. Presents(u, v)
  <2>1. SameBlocks(u.content, v.content) BY <1>4, <1>7, <1>10 DEF Presents, SameBlocks
  <2>2. Starts(u, t) => Starts(u, v) BY <1>10 DEF Starts
  <2>3. Rests(u, t) => Rests(u, v) BY <1>10 DEF Rests
  <2> QED BY <1>4, <1>9, <1>10, <2>1, <2>2, <2>3 DEF Presents
<1> QED BY <1>3, <1>5, <1>11, SameStep

(* The answer is saved without what the cut took from it: of a cut call    *)
(* nothing is expected, and it is presented no more.                       *)
LEMMA CutFields ==
  ASSUME TurnInv, phase = "save", NEW u, u = [Cut(turn) EXCEPT !.saved = TRUE]
  PROVE  /\ u \in Turns /\ Numbered(u, arrived) /\ Room(u, arrived) /\ u.running = turn.running
         /\ ~overtaken => Alone(u, arrived) /\ Answering(u, ran, arrived) /\ Ordered(u, ran, arrived)
<1> DEFINE w == Cut(turn)
           c == turn.content
           x == turn.index
           f == Len(u.content)
           n == arrived
<1>1. turn \in Turns /\ n \in 0..MaxBlocks /\ n \in Nat BY DEF TurnInv, TypeOK
<1>2. /\ w \in Turns /\ w.index = turn.index /\ w.locked = turn.locked /\ w.ready = turn.ready
      /\ w.rejected = turn.rejected /\ w.running = turn.running
      /\ Len(w.content) <= Len(turn.content) /\ (turn.content # <<>> => Len(w.content) > 0)
      /\ \A i \in 1..Len(w.content) : w.content[i] = turn.content[i]
      /\ Len(turn.results) <= Len(w.results)
      /\ \A k \in 1..Len(turn.results) : w.results[k] = turn.results[k]
      /\ \A k \in 1..Len(w.results) :
           \/ k \in 1..Len(turn.results)
           \/ \E i \in 1..Len(turn.content) :
                i > Len(w.content) /\ w.results[k].call = turn.content[i].id
  BY <1>1, CutKeeps
<1> HIDE DEF w
<1>3. /\ u \in Turns /\ u.index = w.index /\ u.locked = w.locked /\ u.ready = w.ready
      /\ u.rejected = w.rejected /\ u.running = w.running
      /\ u.content = w.content /\ u.results = w.results
  BY <1>2 DEF Turns, w
<1>4. /\ x \in Nat /\ x > 0 /\ Len(c) \in Nat /\ f \in Nat /\ f <= Len(c)
      /\ (c # <<>> => f > 0) /\ \A i \in 1..f : u.content[i] = c[i]
  <2>1. x \in Nat /\ x > 0 /\ Len(c) \in Nat BY <1>1, TurnFields
  <2>2. f = Len(w.content) /\ f \in Nat BY <1>3, TurnFields
  <2>3. \A i \in 1..Len(w.content) : u.content[i] = c[i] BY <1>2, <1>3
  <2> HIDE DEF f
  <2> QED BY <1>2, <2>1, <2>2, <2>3
<1> HIDE DEF n, f, x
<1>5. \A i \in 1..f : i \in 1..Len(c) BY <1>4
<1>6. \A i, j \in 1..Len(c) : i < j => c[i].id < c[j].id BY DEF TurnInv, Common, Numbered, Increasing
<1>7. \A i \in 1..Len(c) : c[i].id <= n /\ c[i].id \in Nat
  <2>1. \A i \in 1..Len(c) : c[i].id <= n BY DEF TurnInv, Common, Numbered, n
  <2>2. \A i \in 1..Len(c) : c[i].id \in Nat BY <1>1, TurnFields DEF Blocks
  <2> QED BY <2>1, <2>2
<1>8. Numbered(u, arrived) BY <1>4, <1>5, <1>6, <1>7 DEF Numbered, Increasing, f, n
<1>9. Room(u, arrived)
  <2> DEFINE r == Len(turn.running)
             k == IF turn.locked THEN 1 ELSE 0
  <2>1. x + r <= n + 1 /\ r + Len(c) <= n + k /\ (turn.locked => c # <<>>)
    BY DEF TurnInv, Common, Room, x, n
  <2>2. r \in Nat /\ k \in Nat BY <1>1, TurnFields
  <2> HIDE DEF r, k
  <2>3. r + f <= n + k BY <1>1, <1>4, <2>1, <2>2
  <2>4. turn.locked => u.content # <<>>
    <3>1. turn.locked => f > 0 BY <1>4, <2>1
    <3> QED BY <1>4, <3>1 DEF f
  <2> QED BY <1>2, <1>3, <2>1, <2>3, <2>4 DEF Room, r, k, f, n, x
<1>10. ASSUME ~overtaken PROVE Alone(u, arrived) /\ Answering(u, ran, arrived) /\ Ordered(u, ran, arrived)
  <2>1. Alone(turn, arrived) /\ Answering(turn, ran, arrived) /\ Ordered(turn, ran, arrived) /\ OnTrack(turn)
    BY <1>10 DEF TurnInv, NotOvertaken
  <2>2. u.index = x BY <1>2, <1>3 DEF x
  <2>3. turn.running # <<>> => x <= Len(c) BY <2>1 DEF OnTrack, x
  <2>4. Alone(u, arrived)
    <3>1. /\ Len(u.running) <= 1 /\ (u.locked <=> u.running # <<>>)
          /\ u.ready => u.running = <<>> /\ x > Len(c)
      BY <1>2, <1>3, <2>1 DEF Alone, x
    <3>2. x > Len(c) => x > f BY <1>4
    <3>3. ASSUME NEW k \in 1..Len(u.running)
          PROVE  LET it == u.running[k] IN
                 /\ it.skip = u.rejected
                 /\ it.block.id <= n
                 /\ IF x <= f
                    THEN /\ it.block.id = u.content[x].id
                         /\ it.block.kind = u.content[x].kind
                    ELSE \A i \in 1..f : u.content[i].id # it.block.id
      <4> DEFINE it == turn.running[k]
      <4>1. k \in 1..Len(turn.running) /\ u.running[k] = it BY <1>2, <1>3, <3>3
      <4>2. x <= Len(c) /\ x \in 1..Len(c)
        <5>1. turn.running # <<>> BY <4>1
        <5> QED BY <1>4, <2>3, <5>1
      <4>3. /\ it.skip = turn.rejected /\ it.block.id <= n
            /\ it.block.id = c[x].id /\ it.block.kind = c[x].kind
        BY <2>1, <4>1, <4>2 DEF Alone, x, n
      <4> HIDE DEF it
      <4>4. CASE x <= f
        <5>1. x \in 1..f BY <1>4, <4>4
        <5>2. u.content[x] = c[x] BY <1>4, <5>1
        <5> QED BY <1>2, <1>3, <4>1, <4>3, <4>4, <5>2
      <4>5. CASE ~(x <= f)
        <5>1. ASSUME NEW i \in 1..f PROVE u.content[i].id # it.block.id
          <6>1. i \in 1..Len(c) /\ i < x BY <1>4, <1>5, <4>5
          <6>2. c[i].id < c[x].id BY <1>6, <4>2, <6>1
          <6>3. u.content[i] = c[i] BY <1>4
          <6> QED BY <1>7, <4>2, <4>3, <6>1, <6>2, <6>3
        <5> QED BY <1>2, <1>3, <4>1, <4>3, <4>5, <5>1
      <4> QED BY <4>4, <4>5
    <3> QED BY <2>2, <3>1, <3>2, <3>3 DEF Alone, f, n
  <2>5. Answering(u, ran, arrived)
    <3> DEFINE rs == turn.results
               q == u.results
    <3>1. /\ \A k \in 1..Len(rs) : rs[k].call <= n
          /\ \A i \in 1..Len(c) :
               c[i].kind \in Tools =>
                 IF i < x
                 THEN Answered(turn, ran, c[i])
                 ELSE \A k \in 1..Len(rs) : rs[k].call # c[i].id
      BY <2>1 DEF Answering, x, n
    <3>2. /\ Len(rs) \in Nat /\ Len(q) \in Nat /\ Len(rs) <= Len(q)
          /\ \A k \in 1..Len(rs) : q[k] = rs[k]
          /\ \A k \in 1..Len(q) :
               k \in 1..Len(rs) \/ \E i \in 1..Len(c) : i > f /\ q[k].call = c[i].id
      <4>1. Len(rs) \in Nat /\ Len(q) \in Nat BY <1>1, <1>3, TurnFields
      <4>2. q = w.results /\ f = Len(w.content) BY <1>3 DEF f
      <4> HIDE DEF f, q
      <4> QED BY <1>2, <4>1, <4>2
    <3> HIDE DEF rs, q, c
    <3>3. \A k \in 1..Len(q) : q[k].call <= n BY <1>7, <3>1, <3>2
    <3>4. ASSUME NEW i \in 1..f, u.content[i].kind \in Tools
          PROVE  IF i < x
                 THEN Answered(u, ran, u.content[i])
                 ELSE \A k \in 1..Len(q) : q[k].call # u.content[i].id
      <4>1. u.content[i] = c[i] /\ i \in 1..Len(c) BY <1>4, <1>5
      <4>2. CASE i < x
        <5>1. Answered(turn, ran, c[i]) BY <3>1, <3>4, <4>1, <4>2
        <5>2. \A k \in 1..Len(rs) : k \in 1..Len(q) /\ q[k] = rs[k] BY <3>2
        <5>3. Answered(u, ran, u.content[i]) BY <4>1, <5>1, <5>2 DEF Answered, q, rs
        <5> QED BY <4>2, <5>3
      <4>3. CASE ~(i < x)
        <5>1. ASSUME NEW k \in 1..Len(q), q[k].call = c[i].id PROVE FALSE
          <6>1. k \notin 1..Len(rs) BY <3>1, <3>2, <3>4, <4>1, <4>3, <5>1
          <6>2. PICK j \in 1..Len(c) : j > f /\ q[k].call = c[j].id BY <3>2, <6>1
          <6>3. i < j BY <1>4, <6>2
          <6>4. c[i].id < c[j].id BY <1>6, <4>1, <6>3 DEF c
          <6> QED BY <1>7, <4>1, <5>1, <6>2, <6>4
        <5> QED BY <4>1, <4>3, <5>1
      <4> QED BY <4>2, <4>3
    <3> QED BY <2>2, <3>3, <3>4 DEF Answering, f, n, q
  <2>6. Ordered(u, ran, arrived)
    <3>1. x <= f => x <= Len(c) /\ u.content[x] = c[x] BY <1>4
    <3> QED BY <1>2, <1>3, <2>1, <2>2, <3>1 DEF Ordered, f, x
  <2> QED BY <2>4, <2>5, <2>6
<1> QED BY <1>2, <1>3, <1>8, <1>9, <1>10

LEMMA SaveAnswerStep == ASSUME TurnInv, SaveAnswer PROVE TurnInv'
<1> DEFINE u == [Cut(turn) EXCEPT !.saved = TRUE]
           t == IF u.held THEN Present(u) ELSE u
<1>1. /\ phase = "save" /\ phase' = "wait" /\ TurnBecomes(t) /\ calls' = CallsOf(u.content)
      /\ UNCHANGED <<whole, arrived, failed, overtaken>>
  BY DEF SaveAnswer
<1>2. /\ u \in Turns /\ Numbered(u, arrived) /\ Room(u, arrived) /\ u.running = turn.running
      /\ ~overtaken => Alone(u, arrived) /\ Answering(u, ran, arrived) /\ Ordered(u, ran, arrived)
  BY <1>1, CutFields
<1> HIDE DEF u
<1>3. Presents(u, t)
  <2>1. Presents(u, Present(u)) BY <1>2, PresentPresents
  <2>2. Presents(u, u) BY <1>2, SameBlocksReflexive DEF Presents, Rests
  <2> QED BY <2>1, <2>2
<1>4. calls' \in Seq(1..MaxBlocks) /\ Distinct(calls')
  BY <1>1, <1>2, CallsElements, TurnFields DEF Numbered
<1>5. Anew(u) BY <1>2 DEF Anew
<1>6. arrived \in 0..MaxBlocks BY DEF TurnInv, TypeOK
<1>7. phase' \in {"stream", "broken", "closed", "save", "wait", "collected", "failed", "ended"}
  BY <1>1
<1>8. phase' \notin {"stream", "broken", "closed", "save"} /\ phase' # "collected" BY <1>1
<1> HIDE DEF t
<1> QED BY <1>1, <1>2, <1>3, <1>4, <1>5, <1>6, <1>7, <1>8, PresentsStep

LEMMA CollectStep == ASSUME TurnInv, Collect PROVE TurnInv'
<1>1. /\ phase = "wait" /\ turn.ready /\ phase' \in {"ended", "collected"}
      /\ UNCHANGED <<whole, turn, calls, arrived, failed, ran, overtaken>>
  BY DEF Collect, AfterTurn
<1>2. TypeOK' BY <1>1 DEF TurnInv, TypeOK
<1>3. Common' BY <1>1 DEF TurnInv, Common, CallsSaved
<1>4. ~overtaken' => NotOvertaken'
  <2>1. ~overtaken => turn.running = <<>> /\ turn.index > Len(turn.content)
    BY <1>1 DEF TurnInv, NotOvertaken, Alone
  <2> QED BY <1>1, <2>1 DEF TurnInv, NotOvertaken
<1> QED BY <1>2, <1>3, <1>4 DEF TurnInv

LEMMA NextRequestStep == ASSUME TurnInv, NextRequest PROVE TurnInv'
<1> DEFINE r == Len(turn.running)
           c == Len(turn.content)
           k == IF turn.locked THEN 1 ELSE 0
           n == arrived
<1>1. /\ phase' = "stream" /\ turn' = [NoTurn EXCEPT !.running = turn.running]
      /\ overtaken' = (overtaken \/ turn.running # <<>>)
      /\ UNCHANGED <<whole, calls, arrived, failed, ran>>
  BY DEF NextRequest
<1>2. turn \in Turns /\ n \in Nat BY DEF TurnInv, TypeOK
<1>3. turn' \in Turns
  <2> DEFINE s == turn.running
  <2>1. s \in Seq([block : Blocks, skip : BOOLEAN]) BY <1>2, TurnFields
  <2>2. turn' = [NoTurn EXCEPT !.running = s] BY <1>1
  <2>3. NoTurn \in Turns BY DEF NoTurn, Turns
  <2> HIDE DEF s
  <2> QED BY <2>1, <2>2, <2>3 DEF Turns
<1>4. /\ turn'.content = <<>> /\ turn'.results = <<>> /\ turn'.running = turn.running
      /\ turn'.index = 1 /\ ~turn'.locked /\ ~turn'.ready
  BY <1>1 DEF NoTurn
<1>5. TypeOK' BY <1>1, <1>3 DEF TurnInv, TypeOK
<1>6. Common'
  <2>1. Numbered(turn', arrived') BY <1>4 DEF Numbered, Increasing
  <2>2. r <= n
    <3>1. r + c <= n + k /\ (turn.locked => turn.content # <<>>) BY DEF TurnInv, Common, Room
    <3>2. r \in Nat /\ c \in Nat BY <1>2, TurnFields
    <3>3. turn.content # <<>> => c # 0 BY <1>2, TurnFields
    <3>4. k = 0 \/ (c # 0 /\ k = 1)
      <4>1. k = 0 \/ (turn.locked /\ k = 1) OBVIOUS
      <4> HIDE DEF k, c
      <4> QED BY <3>1, <3>3, <4>1
    <3> HIDE DEF r, c, k, n
    <3> QED BY <1>2, <3>1, <3>2, <3>4
  <2>3. r \in Nat BY <1>2, TurnFields
  <2>4. Room(turn', arrived')
    <3> HIDE DEF r, n
    <3>1. 1 + r <= n + 1 /\ r + 0 <= n + 0 BY <1>2, <2>2, <2>3
    <3>2. Len(turn'.content) = 0 BY <1>4
    <3>3. Len(turn'.running) = r /\ arrived' = n BY <1>1, <1>4 DEF r, n
    <3> QED BY <1>4, <3>1, <3>2, <3>3 DEF Room
  <2>5. CallsSaved' BY <1>1 DEF TurnInv, Common, CallsSaved
  <2> QED BY <2>1, <2>4, <2>5 DEF Common
<1>7. ASSUME ~overtaken' PROVE NotOvertaken'
  <2>1. turn'.running = <<>> /\ ~overtaken BY <1>1, <1>4, <1>7
  <2>2. Alone(turn', arrived') BY <1>4, <2>1 DEF Alone
  <2>3. Answering(turn', ran', arrived') BY <1>4 DEF Answering
  <2>4. Ordered(turn', ran', arrived')
    <3>1. Ordered(turn, ran, arrived) BY <2>1 DEF TurnInv, NotOvertaken
    <3> QED BY <1>1, <1>4, <3>1 DEF Ordered
  <2>5. OnTrack(turn') BY <1>4, <2>1 DEF OnTrack
  <2>6. Recorded(turn', ran') BY <2>1 DEF Recorded
  <2> QED BY <1>1, <2>2, <2>3, <2>4, <2>5, <2>6 DEF NotOvertaken
<1> QED BY <1>5, <1>6, <1>7 DEF TurnInv

(* The invariant is inductive.                                             *)
LEMMA TurnInvStep == TurnInv /\ [Next]_vars => TurnInv'
<1> SUFFICES ASSUME TurnInv, [Next]_vars PROVE TurnInv'
  OBVIOUS
<1>1. CASE Stream BY <1>1, StreamStep
<1>2. CASE Loop
  BY <1>2, StreamEndsStep, SaveAnswerStep, CollectStep, NextRequestStep DEF Loop
<1>3. CASE Presenters
  <2>1. PICK i \in 1..Len(turn.running) : Finish(i) \/ HandOver(i) BY <1>3 DEF Presenters
  <2>2. CASE Finish(i) BY <2>2, FinishStep
  <2>3. CASE HandOver(i)
    <3>1. /\ phase' = "ended"
          /\ UNCHANGED <<whole, turn, calls, arrived, failed, ran, overtaken>>
      BY <2>3 DEF HandOver
    <3>2. TypeOK' BY <3>1 DEF TurnInv, TypeOK
    <3>3. Common' BY <3>1 DEF TurnInv, Common, CallsSaved
    <3>4. ~overtaken' => NotOvertaken' BY <3>1 DEF TurnInv, NotOvertaken
    <3> QED BY <3>2, <3>3, <3>4 DEF TurnInv
  <2> QED BY <2>1, <2>2, <2>3
<1>4. CASE UNCHANGED vars
  <2>1. UNCHANGED <<whole, phase, turn, calls, arrived, failed, ran, overtaken>> BY <1>4 DEF vars
  <2>2. TypeOK' BY <2>1 DEF TurnInv, TypeOK
  <2>3. Common' BY <2>1 DEF TurnInv, Common, CallsSaved
  <2>4. ~overtaken' => NotOvertaken' BY <2>1 DEF TurnInv, NotOvertaken
  <2> QED BY <2>2, <2>3, <2>4 DEF TurnInv
<1> QED BY <1>1, <1>2, <1>3, <1>4 DEF Next

THEOREM TurnInvariant == Spec => []TurnInv
BY TurnInvInit, TurnInvStep, PTL DEF Spec

(* Unless a request was retried over a running tool, presentations do not  *)
(* overlap and the tools of an answer run once each, in the order of the   *)
(* blocks (the lock and the index of presentAssistantMessage).             *)
THEOREM PresentedInOrder == Spec => []WellFormed
<1>1. TurnInv => WellFormed
  BY DEF TurnInv, NotOvertaken, Alone, Ordered, WellFormed, OneAtATime
<1> QED BY <1>1, TurnInvariant, PTL

(* The next request carries one result for each call of the answer and for *)
(* no other.  Unless a request was retried over a running tool, a call has *)
(* its own result before the repair or is an attempt_completion that ran.  *)
THEOREM EveryCallAnswered == Spec => []ResultsAnswerCalls
<1>1. ASSUME TurnInv PROVE ResultsAnswerCalls
  <2> SUFFICES ASSUME phase = "collected"
               PROVE  /\ calls # <<>> => /\ {Repaired[i].call : i \in 1..Len(Repaired)} = ToSet(calls)
                                         /\ Len(Repaired) = Len(calls)
                      /\ ~overtaken => \A i \in 1..Len(turn.content) :
                           turn.content[i].kind \in Tools => Answered(turn, ran, turn.content[i])
    BY DEF ResultsAnswerCalls
  <2>1. TypeOK /\ Distinct(calls) /\ calls = CallsOf(turn.content) /\ Increasing(turn.content)
    BY <1>1 DEF TurnInv, Common, CallsSaved, Numbered
  <2>2. calls # <<>> => /\ {Repaired[i].call : i \in 1..Len(Repaired)} = ToSet(calls)
                        /\ Len(Repaired) = Len(calls)
    BY <2>1, RepairedAnswers
  <2>3. ASSUME ~overtaken, NEW i \in 1..Len(turn.content), turn.content[i].kind \in Tools
        PROVE  Answered(turn, ran, turn.content[i])
    <3>1. turn \in Turns BY <2>1 DEF TypeOK
    <3>2. Len(turn.content) \in Nat /\ turn.index \in Nat BY <3>1, TurnFields
    <3>3. turn.index > Len(turn.content) /\ Answering(turn, ran, arrived)
      BY <1>1, <2>3 DEF TurnInv, NotOvertaken
    <3>4. i < turn.index BY <3>2, <3>3
    <3> QED BY <2>3, <3>3, <3>4 DEF Answering
  <2> QED BY <2>2, <2>3
<1> QED BY <1>1, TurnInvariant, PTL
=============================================================================
