---------------------------- MODULE TaskFileProofs ----------------------------
(***************************************************************************)
(* Theorems about TaskFile, for any tasks, threads and sizes of the buffer *)
(* and any number of crashes before two operations overlap: the list is in *)
(* the order of age whatever the threads do; until two operations overlap  *)
(* the file and the list agree between operations, and a crash loses no    *)
(* more than the task at hand or the end of the list.                      *)
(*                                                                         *)
(* A node always points to an older one: that makes a walk along the list  *)
(* end, and the proofs by induction along the list possible.               *)
(***************************************************************************)
EXTENDS TaskFile, SequenceTheorems, WellFoundedInduction, TLAPS

-----------------------------------------------------------------------------
(* Induction, and recursion along pointers that lead to smaller numbers *)

Less == {e \in Nat \X Nat : e[1] < e[2]}

LEMMA LessWellFounded == IsWellFoundedOn(Less, Nat)
<1>1. IsWellFoundedOn(OpToRel(<, Nat), Nat)
    BY NatLessThanWellFounded
<1>2. Less \cap (Nat \X Nat) \subseteq OpToRel(<, Nat)
    BY DEF Less, OpToRel
<1> HIDE DEF Less
<1> QED BY <1>1, <1>2, IsWellFoundedOnSubrelation

LEMMA Least ==
    ASSUME NEW T, T \subseteq Nat, T # {}
    PROVE  \E n \in T : \A m \in T : n <= m
<1> HIDE DEF Less
<1>1. PICK x \in T : \A y \in T : ~(<<y, x>> \in Less)
    BY LessWellFounded, WFMin
<1>2. ASSUME NEW y \in T PROVE x <= y
    <2>1. ~(<<y, x>> \in Less)
        BY <1>1
    <2> QED BY <2>1 DEF Less
<1> QED BY <1>2

LEMMA Induction ==
    ASSUME NEW S, 0 \in S, \A n \in Nat : n \in S => n + 1 \in S
    PROVE  Nat \subseteq S
<1> SUFFICES ASSUME ~(Nat \subseteq S) PROVE FALSE
    OBVIOUS
<1> DEFINE T == Nat \ S
<1>1. PICK n \in T : \A m \in T : n <= m
    BY Least
<1>2. n # 0
    OBVIOUS
<1>3. n - 1 \in Nat /\ n - 1 \notin T
    BY <1>1, <1>2
<1> QED BY <1>1, <1>3

\* Every pointer leads to an older task or to the end.
Older(nx) == nx \in [Tasks -> Nodes] /\ \A t \in Tasks : nx[t] = Nil \/ nx[t] < t

\* What holds at the end of the list and is passed on from a node's successor
\* to the node holds at every node.
LEMMA PointerInduction ==
    ASSUME NEW nx, Older(nx), NEW S, Nil \in S, \A t \in Tasks : nx[t] \in S => t \in S
    PROVE  Nodes \subseteq S
<1> SUFFICES ASSUME ~(Tasks \subseteq S) PROVE FALSE
    BY DEF Nodes
<1> DEFINE T == Tasks \ S
<1>1. T \subseteq Nat /\ T # {}
    BY TaskFileAssumption
<1>2. PICK t \in T : \A u \in T : t <= u
    BY <1>1, Least
<1>3. nx[t] \in Nodes /\ (nx[t] = Nil \/ nx[t] < t) /\ t \in Nat
    BY <1>1 DEF Older
<1>4. nx[t] \in S
    <2>1. CASE nx[t] = Nil
        BY <2>1
    <2>2. CASE nx[t] # Nil
        <3>1. nx[t] \in Tasks /\ nx[t] \in Nat /\ nx[t] < t
            BY <1>3, <2>2, TaskFileAssumption DEF Nodes
        <3>2. ~(t <= nx[t])
            BY <1>3, <3>1
        <3> QED BY <1>2, <3>1, <3>2
    <2> QED BY <2>1, <2>2
<1> QED BY <1>4

\* f collects the pieces of the nodes along the pointers.
Collects(f, nx, S, piece) ==
    /\ f \in [Nodes -> Seq(S)]
    /\ f[Nil] = <<>>
    /\ \A n \in Tasks : f[n] = piece[n] \o f[nx[n]]

\* A function that is defined by walking along the pointers exists.
LEMMA PointerRecursion ==
    ASSUME NEW nx, Older(nx), NEW S, NEW piece \in [Tasks -> Seq(S)]
    PROVE  \E f : Collects(f, nx, S, piece)
<1> USE TaskFileAssumption
<1> DEFINE Upto(k) == {n \in Tasks : n < k} \cup {Nil}
           Approx(k, g) == /\ g \in [Upto(k) -> Seq(S)]
                           /\ g[Nil] = <<>>
                           /\ \A n \in Tasks : n < k => g[n] = piece[n] \o g[nx[n]]
<1>1. \A k \in Nat, n \in Tasks : n < k => nx[n] \in Upto(k) /\ (nx[n] # Nil => nx[n] \in Tasks /\ nx[n] < n)
    BY DEF Older, Nodes
<1>2. \A k \in Nat : \E g : Approx(k, g)
    <2> DEFINE K == {k \in Nat : \E g : Approx(k, g)}
    <2>1. 0 \in K
        <3>1. Upto(0) = {Nil}
            OBVIOUS
        <3> DEFINE g == [n \in {Nil} |-> <<>>]
        <3>2. g \in [Upto(0) -> Seq(S)] /\ g[Nil] = <<>>
            BY <3>1
        <3>3. \A n \in Tasks : ~(n < 0)
            OBVIOUS
        <3> HIDE DEF g, Upto
        <3>4. Approx(0, g)
            BY <3>2, <3>3
        <3> QED BY <3>4
    <2>2. ASSUME NEW k \in Nat, k \in K PROVE k + 1 \in K
        <3>1. PICK g : Approx(k, g)
            BY <2>2
        <3> DEFINE h == [n \in Upto(k + 1) |-> IF n \in Upto(k) THEN g[n] ELSE piece[n] \o g[nx[n]]]
        <3>2. \A n \in Upto(k + 1) : n \in Upto(k) \/ (n \in Tasks /\ nx[n] \in Upto(k))
            <4> TAKE n \in Upto(k + 1)
            <4>1. CASE n = Nil \/ (n \in Tasks /\ n < k)
                BY <4>1
            <4>2. CASE n \in Tasks /\ ~(n < k)
                <5>1. n = k /\ n \in Nat
                    BY <4>2
                <5> QED BY <1>1, <4>2, <5>1 DEF Older, Nodes
            <4> QED BY <4>1, <4>2
        <3>3. Upto(k) \subseteq Upto(k + 1)
            <4>1. \A n \in Tasks : n < k => n < k + 1
                OBVIOUS
            <4> QED BY <4>1
        <3>4. g \in [Upto(k) -> Seq(S)] /\ g[Nil] = <<>>
            BY <3>1
        <3>5. h \in [Upto(k + 1) -> Seq(S)]
            <4>1. \A n \in Upto(k + 1) : (IF n \in Upto(k) THEN g[n] ELSE piece[n] \o g[nx[n]]) \in Seq(S)
                <5> HIDE DEF Upto
                <5> TAKE n \in Upto(k + 1)
                <5>1. CASE n \in Upto(k)
                    BY <3>4, <5>1
                <5>2. CASE n \notin Upto(k)
                    <6>1. n \in Tasks /\ nx[n] \in Upto(k)
                        BY <3>2, <5>2
                    <6>2. piece[n] \in Seq(S) /\ g[nx[n]] \in Seq(S)
                        BY <3>4, <6>1
                    <6> QED BY <5>2, <6>2
                <5> QED BY <5>1, <5>2
            <4> HIDE DEF Upto
            <4> QED BY <4>1
        <3>6. h[Nil] = <<>>
            BY <3>4
        <3>7. ASSUME NEW n \in Tasks, n < k + 1 PROVE h[n] = piece[n] \o h[nx[n]]
            <4>1. nx[n] \in Upto(k) /\ h[nx[n]] = g[nx[n]]
                <5>1. nx[n] = Nil \/ (nx[n] \in Tasks /\ nx[n] < n /\ nx[n] < k)
                    <6>1. n \in Nat /\ (nx[n] # Nil => nx[n] \in Tasks /\ nx[n] \in Nat /\ nx[n] < n)
                        <7>1. k + 1 \in Nat
                            OBVIOUS
                        <7> QED BY <1>1, <3>7, <7>1
                    <6> QED BY <3>7, <6>1
                <5>2. nx[n] \in Upto(k)
                    BY <5>1
                <5> HIDE DEF Upto
                <5> QED BY <3>3, <5>2
            <4>2. n \in Upto(k + 1)
                BY <3>7
            <4>3. CASE n < k
                <5>1. h[n] = g[n] /\ g[n] = piece[n] \o g[nx[n]]
                    BY <3>1, <4>2, <4>3
                <5> QED BY <4>1, <5>1
            <4>4. CASE ~(n < k)
                <5>1. n \notin Upto(k)
                    BY <4>4
                <5> HIDE DEF Upto
                <5> QED BY <4>1, <4>2, <5>1
            <4> QED BY <4>3, <4>4
        <3> HIDE DEF h, Upto
        <3>8. Approx(k + 1, h)
            <4>1. \A n \in Tasks : n < k + 1 => h[n] = piece[n] \o h[nx[n]]
                BY <3>7
            <4> QED BY <3>5, <3>6, <4>1
        <3> HIDE DEF Approx
        <3>9. k + 1 \in Nat /\ \E e : Approx(k + 1, e)
            BY <3>8
        <3> QED BY <3>9
    <2> HIDE DEF K
    <2>3. Nat \subseteq K
        BY <2>1, <2>2, Induction
    <2> QED BY <2>3 DEF K
<1>3. ASSUME NEW k \in Nat, NEW l \in Nat, NEW g, NEW h, Approx(k, g), Approx(l, h)
      PROVE  \A n \in Tasks : n < k /\ n < l => g[n] = h[n]
    <2> DEFINE D == {n \in Tasks : n < k /\ n < l /\ g[n] # h[n]}
    <2> SUFFICES ASSUME D # {} PROVE FALSE
        OBVIOUS
    <2>1. PICK n \in D : \A m \in D : n <= m
        BY Least
    <2>2. n \in Tasks /\ n \in Nat /\ n < k /\ n < l /\ g[n] # h[n]
        OBVIOUS
    <2>3. g[nx[n]] = h[nx[n]]
        <3>1. CASE nx[n] = Nil
            BY <1>3, <3>1
        <3>2. CASE nx[n] # Nil
            <4>1. nx[n] \in Tasks /\ nx[n] \in Nat /\ nx[n] < n
                BY <1>1, <2>2, <3>2
            <4>2. nx[n] < k /\ nx[n] < l /\ ~(n <= nx[n])
                BY <2>2, <4>1
            <4>3. nx[n] \notin D
                BY <2>1, <4>2
            <4> QED BY <4>1, <4>2, <4>3
        <3> QED BY <3>1, <3>2
    <2>4. g[n] = piece[n] \o g[nx[n]] /\ h[n] = piece[n] \o h[nx[n]]
        BY <1>3, <2>2
    <2> QED BY <2>2, <2>3, <2>4
<1> DEFINE At(n) == CHOOSE g : Approx(n + 1, g)
           f == [n \in Nodes |-> IF n = Nil THEN <<>> ELSE At(n)[n]]
<1>4. \A n \in Tasks : n \in Nat /\ n + 1 \in Nat /\ n < n + 1
    OBVIOUS
<1>5. \A n \in Tasks : Approx(n + 1, At(n))
    <2> HIDE DEF Approx
    <2> QED BY <1>2, <1>4
<1> HIDE DEF At
<1>6. ASSUME NEW n \in Tasks
      PROVE  At(n)[n] \in Seq(S) /\ At(n)[n] = piece[n] \o f[nx[n]]
    <2>1. /\ At(n) \in [Upto(n + 1) -> Seq(S)] /\ At(n)[Nil] = <<>>
          /\ At(n)[n] = piece[n] \o At(n)[nx[n]]
        BY <1>4, <1>5
    <2>2. n \in Upto(n + 1)
        BY <1>4
    <2>3. At(n)[nx[n]] = f[nx[n]]
        <3>1. CASE nx[n] = Nil
            BY <2>1, <3>1 DEF Nodes
        <3>2. CASE nx[n] # Nil
            <4>1. nx[n] \in Tasks /\ nx[n] < n
                BY <1>1, <1>4, <3>2
            <4>2. nx[n] < n + 1 /\ nx[n] < nx[n] + 1
                BY <1>4, <4>1
            <4>3. At(n)[nx[n]] = At(nx[n])[nx[n]]
                <5> HIDE DEF Approx
                <5>1. /\ n + 1 \in Nat /\ nx[n] + 1 \in Nat
                      /\ Approx(n + 1, At(n)) /\ Approx(nx[n] + 1, At(nx[n]))
                    BY <1>4, <1>5, <4>1
                <5>2. \A m \in Tasks : m < n + 1 /\ m < nx[n] + 1 => At(n)[m] = At(nx[n])[m]
                    BY <1>3, <5>1
                <5> QED BY <4>1, <4>2, <5>2
            <4> QED BY <4>1, <4>3, <3>2 DEF Nodes
        <3> QED BY <3>1, <3>2
    <2> HIDE DEF Upto, f
    <2> QED BY <2>1, <2>2, <2>3
<1>7. f \in [Nodes -> Seq(S)]
    <2>1. <<>> \in Seq(S)
        OBVIOUS
    <2> QED BY <1>6, <2>1 DEF Nodes
<1>8. f[Nil] = <<>> /\ \A n \in Tasks : f[n] = piece[n] \o f[nx[n]]
    <2>1. f[Nil] = <<>> /\ \A n \in Tasks : f[n] = At(n)[n]
        BY DEF Nodes
    <2> HIDE DEF f
    <2> QED BY <1>6, <2>1
<1> HIDE DEF f
<1> QED BY <1>7, <1>8 DEF Collects

-----------------------------------------------------------------------------
(* The list, and what write_tasks writes of it *)

\* From and RecordsFrom for given pointers and contents.
Chain(nx) == CHOOSE f : f = [n \in Nodes |-> IF n = Nil THEN <<>> ELSE <<n>> \o f[nx[n]]]
Written(nx, inf) == CHOOSE f : f = [n \in Nodes |->
    IF n = Nil THEN <<>>
    ELSE (IF n \in UserTasks THEN <<[id |-> n, info |-> inf[n]]>> ELSE <<>>) \o f[nx[n]]]

\* The nodes from a node on.
Reach(nx, n) == {Chain(nx)[n][i] : i \in 1..Len(Chain(nx)[n])}

LEMMA ListIsChain == /\ List = Chain(next)[head] /\ OnList = Reach(next, head)
                     /\ Records = Written(next, info)[head] /\ RecordsFrom = Written(next, info)
<1>1. From = Chain(next)
    BY DEF From, Chain
<1>2. RecordsFrom = Written(next, info)
    BY DEF RecordsFrom, Written
<1> QED BY <1>1, <1>2 DEF List, OnList, Reach, Records

LEMMA ListIsChainNext == /\ List' = Chain(next')[head'] /\ OnList' = Reach(next', head')
                         /\ Records' = Written(next', info')[head'] /\ RecordsFrom' = Written(next', info')
<1>1. From' = Chain(next')
    BY DEF From, Chain
<1>2. RecordsFrom' = Written(next', info')
    BY DEF RecordsFrom, Written
<1> QED BY <1>1, <1>2 DEF List, OnList, Reach, Records

LEMMA ChainEquation ==
    ASSUME NEW nx, Older(nx)
    PROVE  /\ Chain(nx) \in [Nodes -> Seq(Tasks)]
           /\ Chain(nx)[Nil] = <<>>
           /\ \A t \in Tasks : Chain(nx)[t] = <<t>> \o Chain(nx)[nx[t]]
<1> DEFINE piece == [t \in Tasks |-> <<t>>]
           c == Chain(nx)
<1>1. piece \in [Tasks -> Seq(Tasks)]
    OBVIOUS
<1>2. PICK f : /\ f \in [Nodes -> Seq(Tasks)] /\ f[Nil] = <<>>
               /\ \A n \in Tasks : f[n] = piece[n] \o f[nx[n]]
    <2> HIDE DEF piece
    <2>1. \E f : Collects(f, nx, Tasks, piece)
        BY <1>1, PointerRecursion
    <2> QED BY <2>1 DEF Collects
<1>3. f = [n \in Nodes |-> IF n = Nil THEN <<>> ELSE <<n>> \o f[nx[n]]]
    <2> DEFINE e == [n \in Nodes |-> IF n = Nil THEN <<>> ELSE <<n>> \o f[nx[n]]]
    <2>1. \A n \in Nodes : f[n] = e[n]
        BY <1>2 DEF Nodes
    <2>2. f = [n \in Nodes |-> f[n]] /\ e = [n \in Nodes |-> e[n]]
        BY <1>2
    <2> HIDE DEF e
    <2>3. f = e
        BY <2>1, <2>2
    <2> QED BY <2>3 DEF e
<1>4. c = [n \in Nodes |-> IF n = Nil THEN <<>> ELSE <<n>> \o c[nx[n]]]
    BY <1>3 DEF Chain
<1> HIDE DEF c
<1> DEFINE same == {n \in Nodes : c[n] = f[n]}
<1>5. Nil \in same
    BY <1>3, <1>4 DEF Nodes
<1>6. ASSUME NEW t \in Tasks, nx[t] \in same PROVE t \in same
    <2>1. t \in Nodes /\ t # Nil
        BY TaskFileAssumption DEF Nodes
    <2> QED BY <1>3, <1>4, <1>6, <2>1
<1> HIDE DEF same
<1>7. Nodes \subseteq same
    BY <1>5, <1>6, PointerInduction
<1>8. c = f
    <2>1. \A n \in Nodes : c[n] = f[n]
        BY <1>7 DEF same
    <2>2. c = [n \in Nodes |-> c[n]] /\ f = [n \in Nodes |-> f[n]]
        BY <1>3, <1>4
    <2> QED BY <2>1, <2>2
<1>9. Nil \in Nodes /\ \A t \in Tasks : t \in Nodes /\ t # Nil
    BY TaskFileAssumption DEF Nodes
<1>10. c \in [Nodes -> Seq(Tasks)] /\ c[Nil] = <<>> /\ \A t \in Tasks : c[t] = <<t>> \o c[nx[t]]
    BY <1>2, <1>3, <1>8, <1>9
<1> QED BY <1>10 DEF c

LEMMA ReachEquation ==
    ASSUME NEW nx, Older(nx)
    PROVE  /\ Reach(nx, Nil) = {}
           /\ \A t \in Tasks : Reach(nx, t) = {t} \cup Reach(nx, nx[t])
           /\ \A n \in Nodes : Reach(nx, n) \subseteq Tasks
<1> DEFINE c == Chain(nx)
<1>1. /\ c \in [Nodes -> Seq(Tasks)] /\ c[Nil] = <<>>
      /\ \A t \in Tasks : c[t] = <<t>> \o c[nx[t]]
    BY ChainEquation
<1> HIDE DEF c
<1>2. Reach(nx, Nil) = {}
    BY <1>1 DEF Reach, c
<1>3. ASSUME NEW t \in Tasks PROVE Reach(nx, t) = {t} \cup Reach(nx, nx[t])
    <2>1. nx[t] \in Nodes
        BY DEF Older
    <2>2. c[nx[t]] \in Seq(Tasks) /\ Len(c[nx[t]]) \in Nat
        BY <1>1, <2>1
    <2> DEFINE tail == c[nx[t]]
               all == c[t]
    <2>3. all = <<t>> \o tail
        BY <1>1
    <2>4. tail \in Seq(Tasks) /\ Len(tail) \in Nat
        BY <2>2
    <2> HIDE DEF tail, all
    <2>5. /\ Len(all) = Len(tail) + 1 /\ all[1] = t
          /\ \A i \in 1..Len(tail) : all[i + 1] = tail[i]
        BY <2>3, <2>4
    <2>6. \A i \in 1..Len(all) : i = 1 \/ (i - 1 \in 1..Len(tail) /\ all[i] = tail[i - 1])
        <3> TAKE i \in 1..Len(all)
        <3>1. i = 1 \/ (i - 1 \in 1..Len(tail) /\ i - 1 + 1 = i)
            BY <2>5, <2>4
        <3> QED BY <2>5, <3>1
    <2>7. 1 \in 1..Len(all) /\ \A i \in 1..Len(tail) : i + 1 \in 1..Len(all)
        BY <2>5, <2>4
    <2>8. {all[i] : i \in 1..Len(all)} = {t} \cup {tail[i] : i \in 1..Len(tail)}
        <3>1. \A i \in 1..Len(all) : all[i] \in {t} \cup {tail[k] : k \in 1..Len(tail)}
            BY <2>5, <2>6
        <3>2. t \in {all[i] : i \in 1..Len(all)}
            BY <2>5, <2>7
        <3>3. \A k \in 1..Len(tail) : tail[k] \in {all[i] : i \in 1..Len(all)}
            BY <2>5, <2>7
        <3> QED BY <3>1, <3>2, <3>3
    <2> QED BY <2>8 DEF all, tail, c, Reach
<1>4. ASSUME NEW n \in Nodes PROVE Reach(nx, n) \subseteq Tasks
    BY <1>1 DEF Reach, c
<1> QED BY <1>2, <1>3, <1>4

\* The nodes from a node on are no newer than it.
LEMMA ReachOlder ==
    ASSUME NEW nx, Older(nx), NEW t \in Tasks, NEW u \in Reach(nx, t)
    PROVE  u \in Tasks /\ u \in Nat /\ u <= t
<1> USE TaskFileAssumption
<1> DEFINE S == {n \in Nodes : \A v \in Reach(nx, n) : v \in Tasks /\ (n # Nil => v <= n)}
<1>1. Nil \in S
    BY ReachEquation DEF Nodes
<1>2. ASSUME NEW n \in Tasks, nx[n] \in S PROVE n \in S
    <2>1. Reach(nx, n) = {n} \cup Reach(nx, nx[n])
        BY ReachEquation
    <2>2. nx[n] = Nil \/ (nx[n] \in Tasks /\ nx[n] < n /\ nx[n] # Nil)
        BY DEF Older, Nodes
    <2>3. \A v \in Reach(nx, nx[n]) : v \in Tasks /\ v <= n
        <3>1. CASE nx[n] = Nil
            BY <3>1, ReachEquation
        <3>2. CASE nx[n] \in Tasks /\ nx[n] < n /\ nx[n] # Nil
            <4>1. \A v \in Reach(nx, nx[n]) : v \in Tasks /\ v <= nx[n]
                BY <1>2, <3>2
            <4>2. \A v \in Tasks : v <= nx[n] => v <= n
                <5>1. nx[n] \in Nat /\ n \in Nat /\ \A v \in Tasks : v \in Nat
                    BY <3>2
                <5> QED BY <3>2, <5>1
            <4> QED BY <4>1, <4>2
        <3> QED BY <2>2, <3>1, <3>2
    <2> QED BY <2>1, <2>3 DEF Nodes
<1> HIDE DEF S
<1>3. Nodes \subseteq S
    BY <1>1, <1>2, PointerInduction
<1>4. t \in S /\ t # Nil
    BY <1>3 DEF Nodes
<1> QED BY <1>4 DEF S

\* The list is in the order of age, the newest node first.
LEMMA ChainSorted ==
    ASSUME NEW nx, Older(nx), NEW n \in Nodes, NEW i \in 1..Len(Chain(nx)[n]), NEW j \in 1..Len(Chain(nx)[n]),
           i < j
    PROVE  Chain(nx)[n][i] > Chain(nx)[n][j]
<1> USE TaskFileAssumption
<1> DEFINE c == Chain(nx)
           S == {m \in Nodes : \A k, l \in 1..Len(c[m]) : k < l => c[m][k] > c[m][l]}
<1>1. c \in [Nodes -> Seq(Tasks)] /\ c[Nil] = <<>> /\ \A t \in Tasks : c[t] = <<t>> \o c[nx[t]]
    BY ChainEquation
<1> HIDE DEF c
<1>2. Nil \in S
    BY <1>1 DEF Nodes
<1>3. ASSUME NEW t \in Tasks, nx[t] \in S PROVE t \in S
    <2> DEFINE tail == c[nx[t]]
               all == c[t]
    <2>1. nx[t] \in Nodes /\ (nx[t] = Nil \/ (nx[t] \in Tasks /\ nx[t] < t))
        BY DEF Older, Nodes
    <2>2. tail \in Seq(Tasks) /\ Len(tail) \in Nat /\ all = <<t>> \o tail
        BY <1>1, <2>1
    <2>3. \A k, l \in 1..Len(tail) : k < l => tail[k] > tail[l]
        BY <1>3
    <2>4. \A k \in 1..Len(tail) : tail[k] < t
        <3> TAKE k \in 1..Len(tail)
        <3>1. tail[k] \in Reach(nx, nx[t])
            BY DEF Reach, c
        <3>2. nx[t] \in Tasks /\ nx[t] < t
            BY <2>1, <3>1, ReachEquation
        <3> HIDE DEF tail
        <3>3. tail[k] \in Nat /\ tail[k] <= nx[t]
            BY <3>1, <3>2, ReachOlder
        <3>4. nx[t] \in Nat /\ t \in Nat
            BY <3>2
        <3> QED BY <3>2, <3>3, <3>4
    <2> HIDE DEF tail, all
    <2>5. /\ Len(all) = Len(tail) + 1 /\ all[1] = t
          /\ \A k \in 1..Len(tail) : all[k + 1] = tail[k]
        BY <2>2
    <2>6. ASSUME NEW k \in 1..Len(all), NEW l \in 1..Len(all), k < l PROVE all[k] > all[l]
        <3>1. l - 1 \in 1..Len(tail) /\ all[l] = tail[l - 1]
            <4>1. l - 1 \in 1..Len(tail) /\ l - 1 + 1 = l
                BY <2>2, <2>5, <2>6
            <4> QED BY <2>5, <4>1
        <3>2. CASE k = 1
            BY <2>4, <2>5, <3>1, <3>2
        <3>3. CASE k # 1
            <4>1. k - 1 \in 1..Len(tail) /\ k - 1 + 1 = k /\ k - 1 < l - 1
                BY <2>2, <2>5, <2>6, <3>3
            <4>2. all[k] = tail[k - 1]
                BY <2>5, <4>1
            <4> QED BY <2>3, <3>1, <4>1, <4>2
        <3> QED BY <3>2, <3>3
    <2> QED BY <2>6 DEF all, Nodes
<1> HIDE DEF S
<1>4. Nodes \subseteq S
    BY <1>2, <1>3, PointerInduction
<1> QED BY <1>4 DEF S, c

\* write_tasks writes one record for each user task of the list, as it is in
\* memory, the newest first.
StoredInfo == [id : UserTasks, info : Infos \cup {Nil}]
Piece(inf, t) == IF t \in UserTasks THEN <<[id |-> t, info |-> inf[t]]>> ELSE <<>>

LEMMA WrittenEquation ==
    ASSUME NEW nx, Older(nx), NEW inf \in [Tasks -> Infos \cup {Nil}]
    PROVE  /\ Written(nx, inf) \in [Nodes -> Seq(StoredInfo)]
           /\ Written(nx, inf)[Nil] = <<>>
           /\ \A t \in Tasks : Written(nx, inf)[t] = Piece(inf, t) \o Written(nx, inf)[nx[t]]
<1> DEFINE piece == [t \in Tasks |-> Piece(inf, t)]
           w == Written(nx, inf)
<1>1. piece \in [Tasks -> Seq(StoredInfo)]
    <2>1. ASSUME NEW t \in Tasks PROVE Piece(inf, t) \in Seq(StoredInfo)
        <3> DEFINE rec == [id |-> t, info |-> inf[t]]
        <3>1. CASE t \in UserTasks
            <4>1. rec \in StoredInfo
                BY <3>1 DEF StoredInfo
            <4>2. Piece(inf, t) = <<rec>>
                BY <3>1 DEF Piece
            <4> HIDE DEF rec
            <4> QED BY <4>1, <4>2
        <3>2. CASE t \notin UserTasks
            BY <3>2 DEF Piece
        <3> QED BY <3>1, <3>2
    <2> QED BY <2>1
<1>2. PICK f : /\ f \in [Nodes -> Seq(StoredInfo)] /\ f[Nil] = <<>>
               /\ \A n \in Tasks : f[n] = piece[n] \o f[nx[n]]
    <2> HIDE DEF piece
    <2>1. \E f : Collects(f, nx, StoredInfo, piece)
        BY <1>1, PointerRecursion
    <2> QED BY <2>1 DEF Collects
<1>3. f = [n \in Nodes |-> IF n = Nil THEN <<>> ELSE Piece(inf, n) \o f[nx[n]]]
    <2> DEFINE e == [n \in Nodes |-> IF n = Nil THEN <<>> ELSE Piece(inf, n) \o f[nx[n]]]
    <2>1. \A n \in Nodes : f[n] = e[n]
        BY <1>2 DEF Nodes
    <2>2. f = [n \in Nodes |-> f[n]] /\ e = [n \in Nodes |-> e[n]]
        BY <1>2
    <2> HIDE DEF e
    <2>3. f = e
        BY <2>1, <2>2
    <2> QED BY <2>3 DEF e
<1>4. w = [n \in Nodes |-> IF n = Nil THEN <<>> ELSE Piece(inf, n) \o w[nx[n]]]
    BY <1>3 DEF Written, Piece
<1> HIDE DEF w
<1> DEFINE same == {n \in Nodes : w[n] = f[n]}
<1>5. Nil \in same
    BY <1>3, <1>4 DEF Nodes
<1>6. ASSUME NEW t \in Tasks, nx[t] \in same PROVE t \in same
    <2>1. t \in Nodes /\ t # Nil
        BY TaskFileAssumption DEF Nodes
    <2> QED BY <1>3, <1>4, <1>6, <2>1
<1> HIDE DEF same
<1>7. Nodes \subseteq same
    BY <1>5, <1>6, PointerInduction
<1>8. w = f
    <2>1. \A n \in Nodes : w[n] = f[n]
        BY <1>7 DEF same
    <2>2. w = [n \in Nodes |-> w[n]] /\ f = [n \in Nodes |-> f[n]]
        BY <1>3, <1>4
    <2> QED BY <2>1, <2>2
<1>9. \A t \in Tasks : f[t] = Piece(inf, t) \o f[nx[t]]
    BY <1>2
<1> QED BY <1>2, <1>8, <1>9 DEF w

\* Newest first.
Sorted(records) == \A i, j \in 1..Len(records) : i < j => records[i].id > records[j].id

Matches(records, inf, T) ==
    /\ records \in Seq(StoredInfo)
    /\ \A i \in 1..Len(records) : records[i].id \in T /\ records[i].info = inf[records[i].id]
    /\ \A t \in T \cap UserTasks : \E i \in 1..Len(records) : records[i].id = t
    /\ Sorted(records)

LEMMA WrittenMatches ==
    ASSUME NEW nx, Older(nx), NEW inf \in [Tasks -> Infos \cup {Nil}], NEW n \in Nodes
    PROVE  Matches(Written(nx, inf)[n], inf, Reach(nx, n))
<1> USE TaskFileAssumption
<1> DEFINE w == Written(nx, inf)
           S == {m \in Nodes : Matches(w[m], inf, Reach(nx, m))}
<1>1. /\ w \in [Nodes -> Seq(StoredInfo)] /\ w[Nil] = <<>>
      /\ \A t \in Tasks : w[t] = Piece(inf, t) \o w[nx[t]]
    BY WrittenEquation
<1> HIDE DEF w
<1>2. Nil \in S
    <2>1. Reach(nx, Nil) = {}
        BY ReachEquation
    <2>2. Matches(<<>>, inf, {})
        BY DEF Matches, Sorted
    <2> QED BY <1>1, <2>1, <2>2 DEF Nodes
<1>3. ASSUME NEW t \in Tasks, nx[t] \in S PROVE t \in S
    <2> DEFINE tail == w[nx[t]]
               all == w[t]
               T == Reach(nx, nx[t])
    <2>1. nx[t] = Nil \/ (nx[t] \in Tasks /\ nx[t] < t)
        BY DEF Older, Nodes
    <2>2. /\ Matches(tail, inf, T) /\ all = Piece(inf, t) \o tail /\ Reach(nx, t) = {t} \cup T
        BY <1>1, <1>3, ReachEquation
    <2>3. \A u \in T : u \in Tasks /\ u < t
        <3> TAKE u \in T
        <3>1. nx[t] \in Tasks /\ nx[t] < t
            BY <2>1, ReachEquation
        <3>2. u \in Tasks /\ u \in Nat /\ u <= nx[t]
            BY <3>1, ReachOlder
        <3>3. nx[t] \in Nat /\ t \in Nat
            BY <3>1
        <3> QED BY <3>1, <3>2, <3>3
    <2> HIDE DEF tail, all, T
    <2>4. CASE t \notin UserTasks
        <3>1. tail \in Seq(StoredInfo) /\ all = <<>> \o tail
            BY <2>2, <2>4 DEF Piece, Matches
        <3>2. all = tail
            BY <3>1
        <3>3. ({t} \cup T) \cap UserTasks = T \cap UserTasks
            BY <2>4
        <3>4. Matches(all, inf, {t} \cup T)
            BY <2>2, <3>2, <3>3 DEF Matches
        <3> QED BY <2>2, <3>4 DEF all, Nodes
    <2>5. CASE t \in UserTasks
        <3> DEFINE rec == [id |-> t, info |-> inf[t]]
        <3>1. rec \in StoredInfo /\ rec.id = t /\ rec.info = inf[t]
            BY <2>5 DEF StoredInfo
        <3>2. all = <<rec>> \o tail
            BY <2>2, <2>5 DEF Piece
        <3> HIDE DEF rec
        <3>3. tail \in Seq(StoredInfo) /\ Len(tail) \in Nat
            BY <2>2 DEF Matches
        <3>4. /\ all \in Seq(StoredInfo) /\ Len(all) = Len(tail) + 1 /\ all[1] = rec
              /\ \A k \in 1..Len(tail) : all[k + 1] = tail[k]
            BY <3>1, <3>2, <3>3
        <3>5. \A k \in 1..Len(all) : k # 1 => k - 1 \in 1..Len(tail) /\ all[k] = tail[k - 1]
            <4> TAKE k \in 1..Len(all)
            <4> HAVE k # 1
            <4>1. k - 1 \in 1..Len(tail) /\ k - 1 + 1 = k
                BY <3>3, <3>4
            <4> QED BY <3>4, <4>1
        <3>6. ASSUME NEW k \in 1..Len(all) PROVE all[k].id \in {t} \cup T /\ all[k].info = inf[all[k].id]
            <4>1. CASE k = 1
                BY <3>1, <3>4, <4>1
            <4>2. CASE k # 1
                BY <2>2, <3>5, <4>2 DEF Matches
            <4> QED BY <4>1, <4>2
        <3>7. ASSUME NEW u \in ({t} \cup T) \cap UserTasks PROVE \E k \in 1..Len(all) : all[k].id = u
            <4>1. CASE u = t
                <5>1. 1 \in 1..Len(all)
                    BY <3>3, <3>4
                <5> QED BY <3>1, <3>4, <4>1, <5>1
            <4>2. CASE u \in T
                <5>1. PICK k \in 1..Len(tail) : tail[k].id = u
                    BY <2>2, <4>2 DEF Matches
                <5>2. k + 1 \in 1..Len(all)
                    BY <3>3, <3>4
                <5> QED BY <3>4, <5>1, <5>2
            <4> QED BY <4>1, <4>2
        <3>8. ASSUME NEW k \in 1..Len(all), NEW l \in 1..Len(all), k < l PROVE all[k].id > all[l].id
            <4>1. l # 1
                BY <3>8
            <4>2. l - 1 \in 1..Len(tail) /\ all[l] = tail[l - 1]
                BY <3>5, <4>1
            <4>3. CASE k = 1
                <5>1. all[l].id \in T
                    BY <2>2, <4>2 DEF Matches
                <5>2. all[l].id < t
                    BY <2>3, <5>1
                <5> QED BY <3>1, <3>4, <4>3, <5>2
            <4>4. CASE k # 1
                <5>1. k - 1 \in 1..Len(tail) /\ all[k] = tail[k - 1]
                    BY <3>5, <4>4
                <5>2. k - 1 < l - 1
                    BY <3>8
                <5> QED BY <2>2, <4>2, <5>1, <5>2 DEF Matches, Sorted
            <4> QED BY <4>3, <4>4
        <3>9. Matches(all, inf, {t} \cup T)
            BY <3>4, <3>6, <3>7, <3>8 DEF Matches, Sorted
        <3> QED BY <2>2, <3>9 DEF all, Nodes
    <2> QED BY <2>4, <2>5
<1> HIDE DEF S
<1>4. Nodes \subseteq S
    BY <1>2, <1>3, PointerInduction
<1> QED BY <1>4 DEF S, w

\* What is written from a node on goes on, behind the first k records, as what
\* is written from the node of the next record on.
LEMMA WrittenGoesOn ==
    ASSUME NEW nx, Older(nx), NEW inf \in [Tasks -> Infos \cup {Nil}], NEW n \in Nodes,
           NEW k \in Nat, k < Len(Written(nx, inf)[n])
    PROVE  LET w == Written(nx, inf)
           IN  w[n][k + 1].id \in Tasks /\ w[n] = SubSeq(w[n], 1, k) \o w[w[n][k + 1].id]
<1> USE TaskFileAssumption
<1> DEFINE w == Written(nx, inf)
           S == {m \in Nodes : \A i \in 1..Len(w[m]) : SubSeq(w[m], i, Len(w[m])) = w[w[m][i].id]}
<1>1. /\ w \in [Nodes -> Seq(StoredInfo)] /\ w[Nil] = <<>>
      /\ \A t \in Tasks : w[t] = Piece(inf, t) \o w[nx[t]]
    BY WrittenEquation
<1>2. w[n][k + 1].id \in Tasks
    <2>1. Matches(w[n], inf, Reach(nx, n)) /\ Reach(nx, n) \subseteq Tasks
        BY WrittenMatches, ReachEquation
    <2> HIDE DEF w
    <2>2. Len(w[n]) \in Nat
        BY <1>1
    <2> QED BY <2>1, <2>2 DEF Matches, w
<1> HIDE DEF w
<1>3. Nil \in S
    BY <1>1 DEF Nodes
<1>4. ASSUME NEW t \in Tasks, nx[t] \in S PROVE t \in S
    <2> DEFINE tail == w[nx[t]]
               all == w[t]
    <2>1. tail \in Seq(StoredInfo) /\ Len(tail) \in Nat /\ all = Piece(inf, t) \o tail
        BY <1>1 DEF Older
    <2>2. \A i \in 1..Len(tail) : SubSeq(tail, i, Len(tail)) = w[tail[i].id]
        BY <1>4
    <2>3. ASSUME NEW i \in 1..Len(all) PROVE SubSeq(all, i, Len(all)) = w[all[i].id]
        <3> HIDE DEF tail
        <3>1. CASE t \notin UserTasks
            <4>1. all = <<>> \o tail
                BY <2>1, <3>1 DEF Piece
            <4>2. all = tail
                BY <2>1, <4>1
            <4> QED BY <2>2, <2>3, <4>2
        <3>2. CASE t \in UserTasks
            <4> DEFINE rec == [id |-> t, info |-> inf[t]]
            <4>1. rec \in StoredInfo /\ rec.id = t /\ all = <<rec>> \o tail
                BY <2>1, <3>2 DEF StoredInfo, Piece
            <4> HIDE DEF rec
            <4>2. /\ all \in Seq(StoredInfo) /\ Len(all) = Len(tail) + 1 /\ all[1] = rec
                  /\ <<rec>> \in Seq(StoredInfo) /\ Len(<<rec>>) = 1
                  /\ \A j \in 1..Len(tail) : all[j + 1] = tail[j]
                <5> HIDE DEF all
                <5> QED BY <2>1, <4>1
            <4>3. CASE i = 1
                <5>1. SubSeq(all, 1, Len(all)) = all
                    <6> HIDE DEF all
                    <6> QED BY <4>2
                <5> QED BY <4>1, <4>2, <4>3, <5>1
            <4>4. CASE i # 1
                <5>1. i - 1 \in 1..Len(tail) /\ i \in (Len(<<rec>>) + 1)..(Len(<<rec>>) + Len(tail))
                      /\ Len(all) \in (Len(<<rec>>) + 1)..(Len(<<rec>>) + Len(tail))
                    <6> HIDE DEF all
                    <6> QED BY <2>1, <2>3, <4>2, <4>4
                <5>2. SubSeq(all, i, Len(all)) = SubSeq(tail, i - 1, Len(tail))
                    <6> HIDE DEF all
                    <6>1. SubSeq(<<rec>> \o tail, i, Len(all)) = SubSeq(tail, i - Len(<<rec>>), Len(all) - Len(<<rec>>))
                        BY <2>1, <4>2, <5>1, SubSeqOfConcat2
                    <6> QED BY <2>1, <4>1, <4>2, <6>1
                <5>3. all[i] = tail[i - 1]
                    <6> HIDE DEF all
                    <6>1. i - 1 + 1 = i
                        OBVIOUS
                    <6> QED BY <4>2, <5>1, <6>1
                <5> QED BY <2>2, <5>1, <5>2, <5>3
            <4> QED BY <4>3, <4>4
        <3> QED BY <3>1, <3>2
    <2> QED BY <2>3 DEF Nodes
<1> HIDE DEF S
<1>5. Nodes \subseteq S
    BY <1>3, <1>4, PointerInduction
<1>6. w[n] \in Seq(StoredInfo) /\ Len(w[n]) \in Nat /\ k + 1 \in 1..Len(w[n])
    <2>1. w[n] \in Seq(StoredInfo) /\ Len(w[n]) \in Nat
        BY <1>1
    <2> QED BY <2>1 DEF w
<1>7. SubSeq(w[n], k + 1, Len(w[n])) = w[w[n][k + 1].id]
    BY <1>5, <1>6 DEF S
<1>8. SubSeq(w[n], 1, k) \o SubSeq(w[n], k + 1, Len(w[n])) = SubSeq(w[n], 1, Len(w[n]))
    <2> DEFINE all == w[n]
    <2>1. all \in Seq(StoredInfo) /\ Len(all) \in Nat /\ k + 1 \in 1..Len(all)
        BY <1>6
    <2> HIDE DEF all
    <2>2. 1 \in 1..Len(all) + 1 /\ k \in (1 - 1)..Len(all) /\ Len(all) \in k..Len(all)
        BY <2>1
    <2>3. SubSeq(all, 1, k) \o SubSeq(all, k + 1, Len(all)) = SubSeq(all, 1, Len(all))
        BY <2>1, <2>2, ConcatAdjacentSubSeq
    <2> QED BY <2>3 DEF all
<1>9. SubSeq(w[n], 1, Len(w[n])) = w[n]
    BY <1>6
<1> QED BY <1>2, <1>7, <1>8, <1>9 DEF w

-----------------------------------------------------------------------------
(* How changes of the pointers change the list *)

LEMMA ReachInside ==
    ASSUME NEW nx, Older(nx), NEW D, D \subseteq Tasks, \A t \in D : nx[t] \in D \cup {Nil},
           NEW n \in D \cup {Nil}
    PROVE  Reach(nx, n) \subseteq D
<1> DEFINE S == {m \in Nodes : m \in D \cup {Nil} => Reach(nx, m) \subseteq D}
<1>1. Nil \in S
    BY ReachEquation DEF Nodes
<1>2. ASSUME NEW t \in Tasks, nx[t] \in S PROVE t \in S
    <2>1. Reach(nx, t) = {t} \cup Reach(nx, nx[t])
        BY ReachEquation
    <2> QED BY <1>2, <2>1, TaskFileAssumption DEF Nodes
<1> HIDE DEF S
<1>3. Nodes \subseteq S
    BY <1>1, <1>2, PointerInduction
<1> QED BY <1>3 DEF S, Nodes

\* Pointers that no walk from the list reaches do not matter.
LEMMA ReachSame ==
    ASSUME NEW nx, Older(nx), NEW ny, Older(ny), NEW D, D \subseteq Tasks,
           \A t \in D : ny[t] = nx[t] /\ nx[t] \in D \cup {Nil},
           NEW n \in D \cup {Nil}
    PROVE  Reach(ny, n) = Reach(nx, n)
<1> DEFINE S == {m \in Nodes : m \in D \cup {Nil} => Reach(ny, m) = Reach(nx, m)}
<1>1. Nil \in S
    BY ReachEquation DEF Nodes
<1>2. ASSUME NEW t \in Tasks, nx[t] \in S PROVE t \in S
    <2>1. Reach(nx, t) = {t} \cup Reach(nx, nx[t]) /\ Reach(ny, t) = {t} \cup Reach(ny, ny[t])
        BY ReachEquation
    <2> QED BY <1>2, <2>1, TaskFileAssumption DEF Nodes
<1> HIDE DEF S
<1>3. Nodes \subseteq S
    BY <1>1, <1>2, PointerInduction
<1> QED BY <1>3 DEF S, Nodes

\* Every node of the list but the first has a parent on the list.
LEMMA ParentExists ==
    ASSUME NEW nx, Older(nx), NEW n \in Nodes, NEW t \in Reach(nx, n), t # n
    PROVE  \E p \in Reach(nx, n) : nx[p] = t
<1> DEFINE S == {m \in Nodes : \A u \in Reach(nx, m) : u # m => \E p \in Reach(nx, m) : nx[p] = u}
<1>1. Nil \in S
    BY ReachEquation DEF Nodes
<1>2. ASSUME NEW m \in Tasks, nx[m] \in S PROVE m \in S
    <2>1. Reach(nx, m) = {m} \cup Reach(nx, nx[m])
        BY ReachEquation
    <2>2. ASSUME NEW u \in Reach(nx, m), u # m PROVE \E p \in Reach(nx, m) : nx[p] = u
        <3>1. u \in Reach(nx, nx[m])
            BY <2>1, <2>2
        <3>2. CASE u = nx[m]
            BY <2>1, <3>2
        <3>3. CASE u # nx[m]
            BY <1>2, <2>1, <3>1, <3>3
        <3> QED BY <3>2, <3>3
    <2> QED BY <2>2 DEF Nodes
<1> HIDE DEF S
<1>3. Nodes \subseteq S
    BY <1>1, <1>2, PointerInduction
<1> QED BY <1>3 DEF S

\* Unlinking a node adds none.
LEMMA UnlinkShortens ==
    ASSUME NEW nx, Older(nx), NEW p \in Tasks, NEW t \in Tasks, nx[p] = t,
           NEW ny, ny = [nx EXCEPT ![p] = nx[t]], NEW n \in Nodes
    PROVE  Older(ny) /\ Reach(ny, n) \subseteq Reach(nx, n)
<1> USE TaskFileAssumption
<1>1. Older(ny)
    <2>1. nx \in [Tasks -> Nodes] /\ ny \in [Tasks -> Nodes]
        BY DEF Older
    <2>2. ASSUME NEW u \in Tasks PROVE ny[u] = Nil \/ ny[u] < u
        <3>1. CASE u # p
            BY <3>1 DEF Older
        <3>2. CASE u = p /\ nx[t] # Nil
            <4>1. nx[t] < t /\ t < p /\ nx[t] \in Tasks
                BY <2>1, <3>2 DEF Older, Nodes
            <4>2. nx[t] \in Nat /\ t \in Nat /\ p \in Nat
                BY <4>1
            <4>3. ny[u] = nx[t] /\ nx[t] < p
                BY <2>1, <3>2, <4>1, <4>2
            <4> QED BY <3>2, <4>3
        <3>3. CASE u = p /\ nx[t] = Nil
            BY <2>1, <3>3
        <3> QED BY <3>1, <3>2, <3>3
    <2> QED BY <2>1, <2>2 DEF Older
<1> DEFINE S == {m \in Nodes : Reach(ny, m) \subseteq Reach(nx, m)}
<1>2. Nil \in S
    BY <1>1, ReachEquation DEF Nodes
<1>3. ASSUME NEW u \in Tasks, ny[u] \in S PROVE u \in S
    <2>1. Reach(nx, u) = {u} \cup Reach(nx, nx[u]) /\ Reach(ny, u) = {u} \cup Reach(ny, ny[u])
        BY <1>1, ReachEquation
    <2>2. Reach(ny, ny[u]) \subseteq Reach(nx, ny[u])
        BY <1>3
    <2>3. Reach(nx, ny[u]) \subseteq Reach(nx, nx[u])
        <3>1. CASE u = p
            <4>1. ny[u] = nx[t] /\ nx[u] = t
                BY <3>1 DEF Older
            <4>2. Reach(nx, t) = {t} \cup Reach(nx, nx[t])
                BY ReachEquation
            <4> QED BY <4>1, <4>2
        <3>2. CASE u # p
            <4>1. ny[u] = nx[u]
                BY <3>2 DEF Older
            <4> QED BY <4>1
        <3> QED BY <3>1, <3>2
    <2> QED BY <2>1, <2>2, <2>3 DEF Nodes
<1> HIDE DEF S
<1>4. Nodes \subseteq S
    BY <1>1, <1>2, <1>3, PointerInduction
<1> QED BY <1>1, <1>4 DEF S

-----------------------------------------------------------------------------
(* The invariant *)

AddedOldestFirst == \A t \in added : \A u \in Tasks : u < t => u \in added

\* Tasks whose TaskInfo is in memory: a crash may lose a task that is added but
\* not yet written.
Known == {t \in added : info[t] \in Infos}
ListKnown == head \in Known \cup {Nil} /\ \A t \in Known : next[t] \in Known \cup {Nil}
NodesKnown ==
    \A th \in Threads :
        /\ thread[th].pc \in {"PUBLISH", "STORE"} => thread[th].node \in Known
        /\ thread[th].pc = "STORE" => thread[th].info \in Infos
        /\ thread[th].walk \in Known \cup {Nil}

\* What holds however the operations of the threads overlap.
AnyThreadsInv ==
    /\ TypeOK
    /\ Older(next)
    /\ AddedOldestFirst
    /\ ListKnown
    /\ NodesKnown

\* A restart that reads these records would find every user task of the list T
\* but x, as it is in memory.
Kept(T, records, inf, x) ==
    /\ \A t \in T \cap UserTasks : t # x => \E i \in 1..Len(records) : records[i].id = t
    /\ \A i \in 1..Len(records) :
          records[i].id \in T /\ records[i].id # x => records[i].info = inf[records[i].id]

\* The others are between operations.
Alone(th) == \A other \in Threads \ {th} : thread[other].pc = "IDLE"

\* The file while it is written: what was flushed, what is in the buffer and what
\* is to come make up the records of the list.
Halfway(th) ==
    /\ thread[th].offset = Len(disk)
    /\ Records = (disk \o thread[th].buffer) \o RecordsFrom[thread[th].walk]
    /\ thread[th].pc = "COLLECT" => thread[th].buffer = <<>>
    /\ thread[th].pc = "FLUSH" => Len(thread[th].buffer) = Capacity
    /\ thread[th].pc = "CLOSE" => thread[th].walk = Nil

\* The file is made of whole records of user tasks, the newest first.
Ordered == Sorted(disk) /\ disk \in Seq(Record) /\ \A i \in 1..Len(disk) : disk[i].id \in added

\* What holds of the file and the list when the others are between operations.
AloneInv(th) ==
    /\ Ordered
    /\ thread[th].pc \in {"IDLE", "PUBLISH", "STORE"} => Kept(OnList, disk, info, Nil)
    /\ thread[th].pc = "PUBLISH" => next[thread[th].node] = head
    /\ thread[th].pc = "OPEN" => Kept(OnList, disk, info, thread[th].node)
    /\ thread[th].pc = "FIRST" => /\ disk = <<>> /\ thread[th].buffer = <<>>
                                  /\ thread[th].offset = 0
    /\ thread[th].pc \in {"COLLECT", "FLUSH", "CLOSE"} => Halfway(th)

UnracedInv == \A th \in Threads :
    /\ thread[th].pc # "IDLE" => Alone(th)
    /\ Alone(th) => AloneInv(th)

TaskFileInv ==
    /\ AnyThreadsInv
    /\ ~raced => UnracedInv

-----------------------------------------------------------------------------
(* What the steps have in common *)

ThreadType == [pc : Points, node : Nodes, info : Infos \cup {Nil}, walk : Nodes,
               buffer : Seq(Record), offset : Nat]

\* A thread can go on to this with what is known and added.
Fit(r, K) ==
    /\ r \in ThreadType
    /\ r.pc \in {"PUBLISH", "STORE"} => r.node \in K
    /\ r.pc = "STORE" => r.info \in Infos
    /\ r.walk \in K \cup {Nil}

LEMMA ThreadsFit ==
    ASSUME AnyThreadsInv
    PROVE  thread \in [Threads -> ThreadType] /\ \A th \in Threads : Fit(thread[th], Known)
BY DEF AnyThreadsInv, TypeOK, NodesKnown, Fit, ThreadType

\* The invariant, regrouped: what the threads share, and each thread's part.
SharedInv ==
    /\ head \in Known \cup {Nil}
    /\ next \in [Tasks -> Nodes]
    /\ info \in [Tasks -> Infos \cup {Nil}]
    /\ disk \in Seq(Record \cup {Hole})
    /\ added \subseteq Tasks
    /\ raced \in BOOLEAN
    /\ crashes \in 0..MaxCrashes
    /\ Older(next)
    /\ AddedOldestFirst
    /\ \A t \in Known : next[t] \in Known \cup {Nil}

LEMMA AnyShared == AnyThreadsInv => SharedInv
BY DEF AnyThreadsInv, SharedInv, TypeOK, ListKnown

LEMMA Regrouped ==
    ASSUME SharedInv', thread' \in [Threads -> ThreadType],
           \A th \in Threads : Fit(thread'[th], Known')
    PROVE  AnyThreadsInv'
<1>1. head' \in Nodes
    BY DEF SharedInv, Known, Nodes
<1>2. TypeOK'
    BY <1>1 DEF SharedInv, TypeOK, ThreadType
<1> QED BY <1>2 DEF AnyThreadsInv, SharedInv, ListKnown, NodesKnown, Fit

\* A step that keeps what the threads share and moves one thread to r.
LEMMA ThreadStep ==
    ASSUME AnyThreadsInv, NEW th \in Threads, NEW r, thread' = [thread EXCEPT ![th] = r],
           SharedInv', Known \subseteq Known', Fit(r, Known')
    PROVE  AnyThreadsInv'
<1>1. thread \in [Threads -> ThreadType] /\ \A x \in Threads : Fit(thread[x], Known)
    BY ThreadsFit
<1>2. \A x \in Threads : Fit(thread[x], Known')
    BY <1>1 DEF Fit
<1>3. thread' \in [Threads -> ThreadType]
    BY <1>1 DEF Fit
<1>4. \A x \in Threads : Fit(thread'[x], Known')
    BY <1>1, <1>2
<1> QED BY <1>3, <1>4, Regrouped

LEMMA OnListKnown == SharedInv => OnList \subseteq Known
<1> SUFFICES ASSUME SharedInv PROVE OnList \subseteq Known
    OBVIOUS
<1>1. Known \subseteq Tasks /\ Older(next) /\ head \in Known \cup {Nil}
    BY DEF SharedInv, Known
<1>2. \A t \in Known : next[t] \in Known \cup {Nil}
    BY DEF SharedInv
<1> QED BY <1>1, <1>2, ReachInside, ListIsChain

\* A thread that has just set out on an operation.
At(p, n, i) == [pc |-> p, node |-> n, info |-> i, walk |-> Nil, buffer |-> <<>>, offset |-> 0]

LEMMA IdleAt ==
    ASSUME NEW p, NEW n
    PROVE  /\ Idle = At("IDLE", Nil, Nil)
           /\ [Idle EXCEPT !.pc = p] = At(p, Nil, Nil)
           /\ [Idle EXCEPT !.pc = p, !.node = n] = At(p, n, Nil)
<1>1. Idle = At("IDLE", Nil, Nil)
    BY DEF Idle, At
<1>2. [At("IDLE", Nil, Nil) EXCEPT !.pc = p] = At(p, Nil, Nil)
    BY DEF At
<1>3. [At(p, Nil, Nil) EXCEPT !.node = n] = At(p, n, Nil)
    BY DEF At
<1>4. [Idle EXCEPT !.pc = p, !.node = n] = [[Idle EXCEPT !.pc = p] EXCEPT !.node = n]
    OBVIOUS
<1> QED BY <1>1, <1>2, <1>3, <1>4

LEMMA AtFit ==
    ASSUME NEW K, NEW p \in Points, NEW n \in Nodes, NEW i \in Infos \cup {Nil},
           p \in {"PUBLISH", "STORE"} => n \in K, p = "STORE" => i \in Infos
    PROVE  Fit(At(p, n, i), K)
<1>1. <<>> \in Seq(Record) /\ Len(<<>>) = 0
    OBVIOUS
<1>2. At(p, n, i) \in ThreadType
    BY <1>1 DEF ThreadType, At, Nodes
<1> QED BY <1>1, <1>2 DEF Fit, At

LEMMA IdleFit ==
    ASSUME NEW K, NEW t \in Nodes
    PROVE  /\ Fit(Idle, K)
           /\ Fit([Idle EXCEPT !.pc = "OPEN", !.node = t], K)
           /\ Fit([Idle EXCEPT !.pc = "OPEN"], K)
<1>1. Nil \in Nodes /\ "IDLE" \in Points /\ "OPEN" \in Points
    BY DEF Nodes, Points
<1>2. /\ Fit(At("IDLE", Nil, Nil), K) /\ Fit(At("OPEN", t, Nil), K)
      /\ Fit(At("OPEN", Nil, Nil), K)
    BY <1>1, AtFit
<1> QED BY <1>2, IdleAt

-----------------------------------------------------------------------------
(* Any threads: write_tasks *)

LEMMA SharedStays ==
    ASSUME SharedInv, UNCHANGED <<head, next, info, disk, added, crashes>>, raced' \in BOOLEAN
    PROVE  SharedInv' /\ Known' = Known
<1>1. Known' = Known
    BY DEF Known
<1> QED BY <1>1 DEF SharedInv, AddedOldestFirst, Older

\* What write_tasks collects from a node on are whole records of known tasks.
LEMMA RecordsKnown ==
    ASSUME SharedInv, NEW n \in Known \cup {Nil}
    PROVE  /\ RecordsFrom[n] \in Seq(Record) /\ Len(RecordsFrom[n]) \in Nat
           /\ \A i \in 1..Len(RecordsFrom[n]) : RecordsFrom[n][i].id \in Known
           /\ Matches(RecordsFrom[n], info, Reach(next, n))
<1>1. Older(next) /\ info \in [Tasks -> Infos \cup {Nil}] /\ n \in Nodes /\ Known \subseteq Tasks
    BY DEF SharedInv, Known, Nodes
<1>2. Matches(RecordsFrom[n], info, Reach(next, n))
    BY <1>1, WrittenMatches, ListIsChain
<1>3. Reach(next, n) \subseteq Known
    BY <1>1, ReachInside DEF SharedInv
<1> DEFINE r == RecordsFrom[n]
<1>4. r \in Seq(StoredInfo) /\ \A i \in 1..Len(r) : r[i].id \in Known /\ r[i].info = info[r[i].id]
    BY <1>2, <1>3 DEF Matches
<1> HIDE DEF r
<1>5. ASSUME NEW i \in 1..Len(r) PROVE r[i] \in Record
    <2>1. r[i].info \in Infos
        BY <1>4 DEF Known
    <2>2. r[i] \in StoredInfo
        BY <1>4
    <2> QED BY <2>1, <2>2 DEF Record, StoredInfo
<1>6. r \in Seq(Record) /\ Len(r) \in Nat
    BY <1>4, <1>5
<1> QED BY <1>2, <1>4, <1>6 DEF r

\* A write makes a file of records, with zeros where nobody wrote; at the end of
\* the file it appends.
LEMMA OverwriteType ==
    ASSUME NEW file \in Seq(Record \cup {Hole}), NEW at \in Nat, NEW records \in Seq(Record)
    PROVE  Overwrite(file, at, records) \in Seq(Record \cup {Hole})
<1> DEFINE n == IF at + Len(records) > Len(file) THEN at + Len(records) ELSE Len(file)
           f == [i \in 1..n |->
                    IF i \in (at + 1)..(at + Len(records)) THEN records[i - at]
                    ELSE IF i <= Len(file) THEN file[i] ELSE Hole]
<1>1. n \in Nat
    OBVIOUS
<1>2. ASSUME NEW i \in 1..n PROVE f[i] \in Record \cup {Hole}
    <2>1. CASE i \in (at + 1)..(at + Len(records))
        <3>1. i - at \in 1..Len(records)
            BY <1>1, <2>1
        <3>2. records[i - at] \in Record
            BY <3>1
        <3> QED BY <2>1, <3>2
    <2>2. CASE i \notin (at + 1)..(at + Len(records)) /\ i <= Len(file)
        <3>1. file[i] \in Record \cup {Hole}
            BY <1>1, <2>2
        <3> QED BY <2>2, <3>1
    <2>3. CASE i \notin (at + 1)..(at + Len(records)) /\ ~(i <= Len(file))
        BY <2>3
    <2> QED BY <2>1, <2>2, <2>3
<1> HIDE DEF n
<1>3. f \in Seq(Record \cup {Hole})
    BY <1>1, <1>2
<1> QED BY <1>3 DEF Overwrite, n

LEMMA OverwriteEnd ==
    ASSUME NEW file \in Seq(Record), NEW records \in Seq(Record)
    PROVE  Overwrite(file, Len(file), records) = file \o records
<1> DEFINE at == Len(file)
           n == at + Len(records)
           f == [i \in 1..n |->
                    IF i \in (at + 1)..(at + Len(records)) THEN records[i - at]
                    ELSE IF i <= Len(file) THEN file[i] ELSE Hole]
<1>1. at \in Nat /\ Len(records) \in Nat
    OBVIOUS
<1>2. (IF at + Len(records) > Len(file) THEN at + Len(records) ELSE Len(file)) = n
    BY <1>1
<1>3. Overwrite(file, Len(file), records) = f
    BY <1>2 DEF Overwrite
<1>4. \A i \in 1..n : f[i] = IF i <= at THEN file[i] ELSE records[i - at]
    BY <1>1
<1>5. file \o records = [i \in 1..n |-> IF i <= at THEN file[i] ELSE records[i - at]]
    <2> DEFINE all == file \o records
    <2>1. all \in Seq(Record) /\ Len(all) = n /\ \A i \in 1..n : all[i] = IF i <= at THEN file[i] ELSE records[i - at]
        BY ConcatProperties
    <2> HIDE DEF all
    <2>2. all \in [1..n -> Record]
        BY <2>1
    <2>3. all = [i \in 1..n |-> all[i]]
        BY <2>2
    <2> HIDE DEF n, at
    <2>4. all = [i \in 1..n |-> IF i <= at THEN file[i] ELSE records[i - at]]
        BY <2>1, <2>3
    <2> QED BY <2>4 DEF all
<1> HIDE DEF f
<1>6. f = [i \in 1..n |-> f[i]]
    BY DEF f
<1>7. f = [i \in 1..n |-> IF i <= at THEN file[i] ELSE records[i - at]]
    BY <1>4, <1>6
<1> QED BY <1>3, <1>5, <1>7

LEMMA OpenAny ==
    ASSUME AnyThreadsInv, NEW th \in Threads, Open(th)
    PROVE  AnyThreadsInv'
<1>1. SharedInv
    BY AnyShared
<1>2. Known' = Known
    BY DEF Open, Known
<1>3. SharedInv'
    <2>1. disk' = <<>> /\ disk' \in Seq(Record \cup {Hole})
        BY DEF Open
    <2> QED BY <1>1, <1>2, <2>1 DEF Open, SharedInv, AddedOldestFirst, Older
<1>4. thread' = [thread EXCEPT ![th] = At("FIRST", Nil, Nil)]
    BY IdleAt DEF Open
<1>5. Fit(At("FIRST", Nil, Nil), Known)
    BY AtFit DEF Points, Writing, Nodes
<1> QED BY <1>2, <1>3, <1>4, <1>5, ThreadStep

\* Where the loop of write_tasks starts or goes on.
WalkFrom(th) == IF thread[th].pc = "FIRST" THEN head ELSE thread[th].walk

LEMMA CollectedFit ==
    ASSUME AnyThreadsInv, NEW th \in Threads, Collect(th)
    PROVE  LET records == RecordsFrom[WalkFrom(th)]
               full == Len(records) > Capacity
           IN  \E q :
                 /\ Fit(q, Known) /\ thread' = [thread EXCEPT ![th] = q]
                 /\ q.pc = IF full THEN "FLUSH" ELSE "CLOSE"
                 /\ q.walk = IF full THEN records[Capacity + 1].id ELSE Nil
                 /\ q.buffer = IF full THEN SubSeq(records, 1, Capacity) ELSE records
                 /\ q.offset = thread[th].offset
<1> DEFINE records == RecordsFrom[WalkFrom(th)]
           full == Len(records) > Capacity
           old == thread[th]
           p == IF full THEN "FLUSH" ELSE "CLOSE"
           w == IF full THEN records[Capacity + 1].id ELSE Nil
           b == IF full THEN SubSeq(records, 1, Capacity) ELSE records
           q == [old EXCEPT !.pc = p, !.walk = w, !.buffer = b]
<1>1. SharedInv /\ Fit(old, Known)
    BY AnyShared, ThreadsFit
<1>2. WalkFrom(th) \in Known \cup {Nil}
    BY <1>1 DEF WalkFrom, Fit, SharedInv
<1>3. /\ records \in Seq(Record) /\ Len(records) \in Nat
      /\ \A i \in 1..Len(records) : records[i].id \in Known
    BY <1>1, <1>2, RecordsKnown
<1>4. thread' = [thread EXCEPT ![th] = q]
    BY DEF Collect, Gather, WalkFrom
<1> HIDE DEF records
<1>5. w \in Known \cup {Nil} /\ b \in Seq(Record) /\ p \in {"FLUSH", "CLOSE"}
    <2>1. CASE full
        <3>1. Capacity + 1 \in 1..Len(records) /\ Capacity \in Nat
            BY <1>3, <2>1, TaskFileAssumption
        <3>2. records[Capacity + 1].id \in Known
            BY <1>3, <3>1
        <3>3. \A i \in 1..Capacity : records[i] \in Record
            BY <1>3, <3>1
        <3>4. SubSeq(records, 1, Capacity) \in Seq(Record)
            BY <3>1, <3>3, SubSeqProperties
        <3> QED BY <2>1, <3>2, <3>4
    <2>2. CASE ~full
        BY <1>3, <2>2
    <2> QED BY <2>1, <2>2
<1> HIDE DEF p, w, b, old
<1>6. old \in ThreadType /\ Known \subseteq Tasks
    BY <1>1 DEF Fit, SharedInv, Known
<1>7. /\ q \in ThreadType /\ q.pc = p /\ q.walk = w /\ q.buffer = b /\ q.offset = old.offset
    BY <1>5, <1>6 DEF ThreadType, Points, Writing, Nodes
<1>8. Fit(q, Known)
    BY <1>5, <1>7 DEF Fit
<1> HIDE DEF q
<1> QED BY <1>4, <1>7, <1>8 DEF p, w, b, old, records

LEMMA CollectAny ==
    ASSUME AnyThreadsInv, NEW th \in Threads, Collect(th)
    PROVE  AnyThreadsInv'
<1>1. SharedInv' /\ Known' = Known
    BY AnyShared, SharedStays DEF Collect, SharedInv
<1>2. PICK q : Fit(q, Known) /\ thread' = [thread EXCEPT ![th] = q]
    BY CollectedFit
<1> QED BY <1>1, <1>2, ThreadStep

\* A change of the file alone.
LEMMA DiskStep ==
    ASSUME AnyThreadsInv, disk' \in Seq(Record \cup {Hole}),
           UNCHANGED <<head, next, info, added, raced, crashes>>
    PROVE  SharedInv' /\ Known' = Known
<1>1. SharedInv /\ Known' = Known
    BY AnyShared DEF Known
<1> QED BY <1>1 DEF SharedInv, AddedOldestFirst, Older

LEMMA FlushAny ==
    ASSUME AnyThreadsInv, NEW th \in Threads, Flush(th)
    PROVE  AnyThreadsInv'
<1> DEFINE old == thread[th]
           n == old.offset + Capacity
           q == [old EXCEPT !.pc = "COLLECT", !.buffer = <<>>, !.offset = n]
<1>1. Fit(old, Known) /\ disk \in Seq(Record \cup {Hole})
    BY ThreadsFit DEF AnyThreadsInv, TypeOK
<1>2. old \in ThreadType /\ old.buffer \in Seq(Record) /\ old.offset \in Nat
    BY <1>1 DEF Fit, ThreadType
<1>3. disk' \in Seq(Record \cup {Hole})
    BY <1>1, <1>2, OverwriteType DEF Flush
<1>4. SharedInv' /\ Known' = Known
    BY <1>3, DiskStep DEF Flush
<1>5. thread' = [thread EXCEPT ![th] = q]
    BY DEF Flush
<1> HIDE DEF old
<1>6. n \in Nat
    BY <1>2, TaskFileAssumption
<1> HIDE DEF n
<1>7. q \in ThreadType /\ q.pc = "COLLECT" /\ q.walk = old.walk
    <2>1. <<>> \in Seq(Record)
        OBVIOUS
    <2> QED BY <1>2, <1>6, <2>1 DEF ThreadType, Points, Writing
<1>8. Fit(q, Known)
    BY <1>1, <1>7 DEF Fit
<1> QED BY <1>4, <1>5, <1>8, ThreadStep

LEMMA CloseAny ==
    ASSUME AnyThreadsInv, NEW th \in Threads, Close(th)
    PROVE  AnyThreadsInv'
<1>1. Fit(thread[th], Known) /\ disk \in Seq(Record \cup {Hole})
    BY ThreadsFit DEF AnyThreadsInv, TypeOK
<1>2. thread[th].buffer \in Seq(Record) /\ thread[th].offset \in Nat
    BY <1>1 DEF Fit, ThreadType
<1>3. disk' \in Seq(Record \cup {Hole})
    <2>1. Overwrite(disk, thread[th].offset, thread[th].buffer) \in Seq(Record \cup {Hole})
        BY <1>1, <1>2, OverwriteType
    <2> QED BY <1>1, <2>1 DEF Close
<1>4. SharedInv' /\ Known' = Known
    BY <1>3, DiskStep DEF Close
<1>5. thread' = [thread EXCEPT ![th] = Idle] /\ Fit(Idle, Known)
    BY IdleFit DEF Close, Nodes
<1> QED BY <1>4, <1>5, ThreadStep

-----------------------------------------------------------------------------
(* Any threads: add_task, update_task, del_task, del_all_tasks *)

\* The next step of a change: write_tasks for a user task, none for the others.
LEMMA WriteIfFit ==
    ASSUME NEW th \in Threads, NEW t \in Nodes, WriteIf(th, t), NEW K
    PROVE  \E r : Fit(r, K) /\ thread' = [thread EXCEPT ![th] = r]
<1>1. CASE t \in UserTasks
    BY <1>1, IdleFit DEF WriteIf
<1>2. CASE t \notin UserTasks
    BY <1>2, IdleFit DEF WriteIf
<1> QED BY <1>1, <1>2

\* A new node points to an older one, and to one that is known.
LEMMA AddTaskShared ==
    ASSUME SharedInv, NEW th \in Threads, NEW t \in Tasks, NEW i \in Infos, AddTask(th, t, i)
    PROVE  SharedInv' /\ Known' = Known \cup {t}
<1>1. /\ t \notin added /\ added' = added \cup {t} /\ next' = [next EXCEPT ![t] = head]
      /\ info' = [info EXCEPT ![t] = i] /\ UNCHANGED <<head, disk, crashes>> /\ raced' \in BOOLEAN
      /\ \A u \in Tasks : u < t => u \in added
    BY DEF AddTask, Begin, SharedInv
<1>2. /\ next \in [Tasks -> Nodes] /\ info \in [Tasks -> Infos \cup {Nil}] /\ added \subseteq Tasks
      /\ head \in Known \cup {Nil} /\ Known \subseteq added
    BY DEF SharedInv, Known
<1>3. Known' = Known \cup {t}
    <2>1. info'[t] = i /\ \A u \in added : info'[u] = info[u]
        BY <1>1, <1>2
    <2> QED BY <1>1, <2>1 DEF Known
<1>4. next' \in [Tasks -> Nodes] /\ info' \in [Tasks -> Infos \cup {Nil}] /\ added' \subseteq Tasks
    BY <1>1, <1>2 DEF Nodes
<1>5. AddedOldestFirst'
    <2>1. AddedOldestFirst
        BY DEF SharedInv
    <2> QED BY <1>1, <2>1 DEF AddedOldestFirst
<1>6. head = Nil \/ head < t
    <2>1. CASE head \in Known
        <3>1. head \in added /\ head \in Nat /\ t \in Nat /\ head # t
            BY <1>1, <1>2, <2>1, TaskFileAssumption
        <3>2. ~(t < head)
            BY <1>1, <3>1 DEF SharedInv, AddedOldestFirst
        <3> QED BY <3>1, <3>2
    <2> QED BY <1>2, <2>1
<1>7. Older(next')
    <2>1. ASSUME NEW u \in Tasks PROVE next'[u] = Nil \/ next'[u] < u
        <3>1. CASE u = t
            BY <1>1, <1>2, <1>6, <3>1
        <3>2. CASE u # t
            <4>1. next'[u] = next[u]
                BY <1>1, <1>2, <3>2
            <4> QED BY <4>1 DEF SharedInv, Older
        <3> QED BY <3>1, <3>2
    <2> QED BY <1>4, <2>1 DEF Older
<1>8. \A u \in Known' : next'[u] \in Known' \cup {Nil}
    <2>1. next'[t] = head /\ \A u \in added : next'[u] = next[u]
        BY <1>1, <1>2
    <2> QED BY <1>2, <1>3, <2>1 DEF SharedInv
<1> QED BY <1>1, <1>2, <1>3, <1>4, <1>5, <1>7, <1>8 DEF SharedInv

LEMMA AddTaskAny ==
    ASSUME AnyThreadsInv, NEW th \in Threads, NEW t \in Tasks, NEW i \in Infos, AddTask(th, t, i)
    PROVE  AnyThreadsInv'
<1> DEFINE r == [Idle EXCEPT !.pc = "PUBLISH", !.node = t]
<1>1. SharedInv /\ SharedInv' /\ Known' = Known \cup {t}
    BY AnyShared, AddTaskShared DEF AddTask
<1>2. thread' = [thread EXCEPT ![th] = r]
    BY DEF AddTask
<1>3. Fit(r, Known')
    <2>1. r = At("PUBLISH", t, Nil)
        BY IdleAt
    <2> HIDE DEF r
    <2>2. t \in Known' /\ t \in Nodes /\ "PUBLISH" \in Points
        BY <1>1 DEF Nodes, Points
    <2> QED BY <2>1, <2>2, AtFit
<1> HIDE DEF r
<1> QED BY <1>1, <1>2, <1>3, ThreadStep

LEMMA PublishAny ==
    ASSUME AnyThreadsInv, NEW th \in Threads, Publish(th)
    PROVE  AnyThreadsInv'
<1>1. SharedInv /\ Fit(thread[th], Known)
    BY AnyShared, ThreadsFit
<1>2. thread[th].node \in Known /\ Known \subseteq Tasks
    BY <1>1 DEF Publish, Fit, SharedInv, Known
<1>3. Known' = Known
    BY DEF Publish, Known
<1>4. SharedInv'
    BY <1>1, <1>2, <1>3 DEF Publish, SharedInv, AddedOldestFirst, Older
<1>5. PICK r : Fit(r, Known) /\ thread' = [thread EXCEPT ![th] = r]
    BY <1>2, WriteIfFit DEF Publish, Nodes
<1> QED BY <1>3, <1>4, <1>5, ThreadStep

LEMMA UpdateTaskAny ==
    ASSUME AnyThreadsInv, NEW th \in Threads, NEW t \in Tasks, NEW i \in Infos, UpdateTask(th, t, i)
    PROVE  AnyThreadsInv'
<1> DEFINE r == [Idle EXCEPT !.pc = "STORE", !.node = t, !.info = i]
<1>1. SharedInv /\ SharedInv' /\ Known' = Known
    BY AnyShared, SharedStays DEF UpdateTask, Begin, SharedInv
<1>2. t \in Known
    BY <1>1, OnListKnown DEF UpdateTask
<1>3. thread' = [thread EXCEPT ![th] = r]
    BY DEF UpdateTask
<1>4. Fit(r, Known)
    <2>1. r = At("STORE", t, i)
        <3>1. [Idle EXCEPT !.pc = "STORE", !.node = t] = At("STORE", t, Nil)
            BY IdleAt
        <3>2. [At("STORE", t, Nil) EXCEPT !.info = i] = At("STORE", t, i)
            BY DEF At
        <3>3. r = [[Idle EXCEPT !.pc = "STORE", !.node = t] EXCEPT !.info = i]
            OBVIOUS
        <3> HIDE DEF r
        <3> QED BY <3>1, <3>2, <3>3
    <2> HIDE DEF r
    <2>2. t \in Nodes /\ "STORE" \in Points
        BY DEF Nodes, Points
    <2> QED BY <1>2, <2>1, <2>2, AtFit
<1> HIDE DEF r
<1> QED BY <1>1, <1>3, <1>4, ThreadStep

LEMMA StoreAny ==
    ASSUME AnyThreadsInv, NEW th \in Threads, Store(th)
    PROVE  AnyThreadsInv'
<1> DEFINE t == thread[th].node
           i == thread[th].info
<1>1. SharedInv /\ t \in Known /\ t \in Tasks /\ i \in Infos
    BY AnyShared, ThreadsFit DEF Fit, Store, Known, SharedInv
<1>2. info' = [info EXCEPT ![t] = i] /\ WriteIf(th, t) /\ UNCHANGED <<head, next, disk, added, raced, crashes>>
    BY DEF Store
<1> HIDE DEF t, i
<1>3. Known' = Known /\ info' \in [Tasks -> Infos \cup {Nil}]
    <2>1. info \in [Tasks -> Infos \cup {Nil}] /\ added \subseteq Tasks
        BY <1>1 DEF SharedInv
    <2>2. info' \in [Tasks -> Infos \cup {Nil}] /\ info'[t] = i /\ \A u \in Tasks : u # t => info'[u] = info[u]
        BY <1>1, <1>2, <2>1
    <2> QED BY <1>1, <1>2, <2>1, <2>2 DEF Known
<1>4. SharedInv'
    BY <1>1, <1>2, <1>3 DEF SharedInv, AddedOldestFirst, Older
<1>5. PICK r : Fit(r, Known) /\ thread' = [thread EXCEPT ![th] = r]
    BY <1>1, <1>2, WriteIfFit DEF Nodes
<1> QED BY <1>2, <1>3, <1>4, <1>5, ThreadStep

LEMMA DeleteHeadAny ==
    ASSUME AnyThreadsInv, NEW th \in Threads, DeleteHead(th)
    PROVE  AnyThreadsInv'
<1>1. SharedInv /\ head \in Tasks /\ head \in Known
    BY AnyShared, TaskFileAssumption DEF SharedInv, DeleteHead
<1>2. Known' = Known
    BY DEF DeleteHead, Known
<1>3. SharedInv'
    BY <1>1, <1>2 DEF DeleteHead, Begin, SharedInv, AddedOldestFirst, Older
<1>4. PICK r : Fit(r, Known) /\ thread' = [thread EXCEPT ![th] = r]
    BY <1>1, WriteIfFit DEF DeleteHead, Nodes
<1> QED BY <1>2, <1>3, <1>4, ThreadStep

\* del_task finds the node before the one it unlinks.
LEMMA ParentFound ==
    ASSUME SharedInv, NEW t \in OnList, t # head
    PROVE  LET parent == CHOOSE n \in OnList : next[n] = t
           IN  parent \in Known /\ parent \in Tasks /\ next[parent] = t
<1>1. Older(next) /\ head \in Nodes /\ OnList = Reach(next, head)
    BY ListIsChain DEF SharedInv, Known, Nodes
<1>2. \E p \in OnList : next[p] = t
    BY <1>1, ParentExists
<1>3. OnList \subseteq Known /\ Known \subseteq Tasks
    BY OnListKnown DEF SharedInv, Known
<1> HIDE DEF OnList
<1> QED BY <1>2, <1>3

LEMMA DeleteInsideShared ==
    ASSUME SharedInv, NEW th \in Threads, NEW t \in Tasks, DeleteInside(th, t)
    PROVE  SharedInv' /\ Known' = Known /\ OnList' \subseteq OnList
<1> DEFINE parent == CHOOSE n \in OnList : next[n] = t
<1>1. /\ t \in OnList /\ t # head /\ next' = [next EXCEPT ![parent] = next[t]]
      /\ UNCHANGED <<head, info, disk, thread, added, crashes>> /\ raced' \in BOOLEAN
    BY DEF DeleteInside, Begin, SharedInv
<1>2. parent \in Known /\ parent \in Tasks /\ next[parent] = t /\ t \in Known
    BY <1>1, ParentFound, OnListKnown
<1> HIDE DEF parent
<1>3. Known' = Known
    BY <1>1 DEF Known
<1>4. Older(next) /\ next \in [Tasks -> Nodes] /\ head \in Nodes
    BY DEF SharedInv, Known, Nodes
<1>5. Older(next') /\ Reach(next', head) \subseteq Reach(next, head)
    BY <1>1, <1>2, <1>4, UnlinkShortens
<1>6. \A u \in Known' : next'[u] \in Known' \cup {Nil}
    BY <1>1, <1>2, <1>3, <1>4 DEF SharedInv
<1>7. SharedInv'
    BY <1>1, <1>3, <1>5, <1>6 DEF SharedInv, AddedOldestFirst, Older
<1>8. OnList' \subseteq OnList
    BY <1>1, <1>5, ListIsChain, ListIsChainNext
<1> QED BY <1>3, <1>7, <1>8

LEMMA DeleteInsideAny ==
    ASSUME AnyThreadsInv, NEW th \in Threads, NEW t \in Tasks, DeleteInside(th, t)
    PROVE  AnyThreadsInv'
<1>1. SharedInv' /\ Known' = Known
    BY AnyShared, DeleteInsideShared DEF DeleteInside
<1>2. Fit(thread[th], Known) /\ thread' = [thread EXCEPT ![th] = thread[th]]
    BY ThreadsFit DEF DeleteInside
<1> QED BY <1>1, <1>2, ThreadStep

LEMMA DeleteAllAny ==
    ASSUME AnyThreadsInv, NEW th \in Threads, DeleteAll(th)
    PROVE  AnyThreadsInv'
<1>1. SharedInv /\ Known' = Known
    BY AnyShared DEF DeleteAll, Known
<1>2. SharedInv'
    BY <1>1 DEF DeleteAll, Begin, SharedInv, AddedOldestFirst, Older
<1>3. Fit([Idle EXCEPT !.pc = "OPEN"], Known)
    BY IdleFit DEF Nodes
<1>4. thread' = [thread EXCEPT ![th] = [Idle EXCEPT !.pc = "OPEN"]]
    BY DEF DeleteAll
<1> QED BY <1>1, <1>2, <1>3, <1>4, ThreadStep

-----------------------------------------------------------------------------
(* A crash, and read_tasks *)

OnDisk == {disk[i].id : i \in 1..Len(disk)}

\* What read_tasks makes of a file without two records of one task, the newest
\* first: the list is made of what is on disk, each task as it is there.
LEMMA CrashReads ==
    ASSUME SharedInv, Ordered, Crash
    PROVE  /\ head' \in OnDisk \cup {Nil}
           /\ next' \in [Tasks -> Nodes] /\ info' \in [Tasks -> Infos \cup {Nil}]
           /\ \A t \in Tasks : next'[t] \in OnDisk \cup {Nil} /\ (next'[t] = Nil \/ next'[t] < t)
           /\ \A i \in 1..Len(disk) : info'[disk[i].id] = disk[i].info
<1> DEFINE n == Len(disk)
           id(i) == disk[i].id
<1>1. disk \in Seq(Record) /\ n \in Nat /\ Sorted(disk)
    BY DEF Ordered
<1>2. \A i \in 1..n : id(i) \in UserTasks /\ id(i) \in Tasks /\ id(i) \in Nat /\ disk[i].info \in Infos
    <2>1. \A i \in 1..n : disk[i] \in Record
        BY <1>1
    <2>2. \A rec \in Record : rec.id \in UserTasks /\ rec.info \in Infos
        BY DEF Record
    <2> QED BY <2>1, <2>2, TaskFileAssumption
<1>3. \A i, j \in 1..n : id(i) = id(j) => i = j
    <2> SUFFICES ASSUME NEW i \in 1..n, NEW j \in 1..n, id(i) = id(j) PROVE i = j
        OBVIOUS
    <2>1. ~(i < j)
        BY <1>1, <1>2 DEF Sorted
    <2>2. ~(j < i)
        BY <1>1, <1>2 DEF Sorted
    <2> QED BY <1>1, <2>1, <2>2
<1>4. \A i \in 1..n - 1 : i \in 1..n /\ i + 1 \in 1..n
    BY <1>1
<1>5. OnDisk \subseteq Tasks
    BY <1>2 DEF OnDisk
<1>6. head' \in OnDisk \cup {Nil}
    <2>1. disk # <<>> => 1 \in 1..n
        BY <1>1
    <2> QED BY <2>1 DEF Crash, ReadTasks, OnDisk
<1>7. ASSUME NEW t \in Tasks
      PROVE  next'[t] \in OnDisk \cup {Nil} /\ (next'[t] = Nil \/ next'[t] < t)
    <2>1. CASE \E i \in 1..n - 1 : id(i) = t
        <3> DEFINE i == CHOOSE k \in 1..n - 1 : id(k) = t
        <3>1. i \in 1..n - 1 /\ id(i) = t
            BY <2>1
        <3>2. next'[t] = id(i + 1)
            BY <2>1 DEF Crash, ReadTasks
        <3> HIDE DEF i
        <3>3. i \in 1..n /\ i + 1 \in 1..n /\ i < i + 1
            BY <1>1, <3>1
        <3>4. id(i) > id(i + 1)
            BY <1>1, <3>3 DEF Sorted
        <3>5. id(i + 1) < t
            BY <1>2, <3>1, <3>3, <3>4
        <3> QED BY <3>2, <3>3, <3>5 DEF OnDisk
    <2>2. CASE ~ \E i \in 1..n - 1 : id(i) = t
        <3>1. next'[t] = Nil
            BY <2>2 DEF Crash, ReadTasks
        <3> QED BY <3>1
    <2> QED BY <2>1, <2>2
<1>8. ASSUME NEW i \in 1..n PROVE info'[id(i)] = disk[i].info
    <2> DEFINE k == CHOOSE m \in 1..n : id(m) = id(i)
    <2>1. k \in 1..n /\ id(k) = id(i)
        OBVIOUS
    <2>2. info'[id(i)] = disk[k].info
        BY <1>2 DEF Crash, ReadTasks
    <2> HIDE DEF k
    <2>3. k = i
        BY <1>3, <2>1
    <2> QED BY <2>2, <2>3
<1>9. next' \in [Tasks -> Nodes]
    <2>1. next' = [t \in Tasks |-> next'[t]]
        BY DEF Crash, ReadTasks
    <2>2. \A t \in Tasks : next'[t] \in Nodes
        BY <1>5, <1>7 DEF Nodes
    <2> QED BY <2>1, <2>2
<1>10. info' \in [Tasks -> Infos \cup {Nil}]
    <2>1. info' = [t \in Tasks |-> info'[t]]
        BY DEF Crash, ReadTasks
    <2>2. ASSUME NEW t \in Tasks PROVE info'[t] \in Infos \cup {Nil}
        <3>1. CASE \E i \in 1..n : id(i) = t
            BY <1>2, <1>8, <3>1
        <3>2. CASE ~ \E i \in 1..n : id(i) = t
            BY <3>2 DEF Crash, ReadTasks
        <3> QED BY <3>1, <3>2
    <2> QED BY <2>1, <2>2
<1> QED BY <1>6, <1>7, <1>8, <1>9, <1>10

LEMMA CrashAny ==
    ASSUME AnyThreadsInv, Ordered, Crash
    PROVE  AnyThreadsInv' /\ OnList' \subseteq OnDisk
<1>1. SharedInv
    BY AnyShared
<1>2. /\ head' \in OnDisk \cup {Nil}
      /\ next' \in [Tasks -> Nodes] /\ info' \in [Tasks -> Infos \cup {Nil}]
      /\ \A t \in Tasks : next'[t] \in OnDisk \cup {Nil} /\ (next'[t] = Nil \/ next'[t] < t)
      /\ \A i \in 1..Len(disk) : info'[disk[i].id] = disk[i].info
    BY <1>1, CrashReads
<1>3. crashes' = crashes + 1 /\ crashes < MaxCrashes /\ UNCHANGED <<disk, added, raced>>
      /\ thread' = [th \in Threads |-> Idle]
    BY DEF Crash
<1>4. OnDisk \subseteq Known'
    <2>1. \A i \in 1..Len(disk) : disk[i].id \in added /\ disk[i] \in Record
        BY DEF Ordered
    <2>2. \A rec \in Record : rec.info \in Infos
        BY DEF Record
    <2> QED BY <1>2, <1>3, <2>1, <2>2 DEF OnDisk, Known
<1>5. OnDisk \subseteq Tasks
    BY <1>1, <1>3, <1>4 DEF SharedInv, Known
<1>6. Older(next')
    BY <1>2 DEF Older
<1>7. SharedInv'
    <2>1. crashes' \in 0..MaxCrashes
        BY <1>1, <1>3, TaskFileAssumption DEF SharedInv
    <2>2. head' \in Known' \cup {Nil} /\ \A t \in Known' : next'[t] \in Known' \cup {Nil}
        BY <1>1, <1>2, <1>3, <1>4 DEF Known, SharedInv
    <2>3. AddedOldestFirst'
        BY <1>1, <1>3 DEF SharedInv, AddedOldestFirst
    <2> QED BY <1>1, <1>2, <1>3, <1>6, <2>1, <2>2, <2>3 DEF SharedInv
<1>8. AnyThreadsInv'
    <2>1. Fit(Idle, Known')
        BY IdleFit DEF Nodes
    <2>2. Idle \in ThreadType
        BY <2>1 DEF Fit
    <2>3. thread' \in [Threads -> ThreadType] /\ \A th \in Threads : Fit(thread'[th], Known')
        BY <1>3, <2>1, <2>2
    <2> QED BY <1>7, <2>3, Regrouped
<1>9. Reach(next', head') \subseteq OnDisk
    <2>1. \A t \in OnDisk : next'[t] \in OnDisk \cup {Nil}
        BY <1>2, <1>5
    <2> QED BY <1>2, <1>5, <1>6, <2>1, ReachInside
<1> QED BY <1>8, <1>9, ListIsChainNext

-----------------------------------------------------------------------------
(* One operation at a time: the file and the list *)

\* Fewer tasks on the list, a new one at y or another TaskInfo of y: the
\* records still hold the rest.
LEMMA KeptLess ==
    ASSUME NEW records \in Seq(Record), NEW T, NEW S, NEW inf, NEW new, NEW y,
           Kept(T, records, inf, Nil), S \subseteq T \cup {y}, \A u \in T : u # y => new[u] = inf[u]
    PROVE  Kept(S, records, new, y)
<1>1. \A i \in 1..Len(records) : records[i].id \in UserTasks /\ records[i].id # Nil
    <2>1. \A i \in 1..Len(records) : records[i] \in Record
        OBVIOUS
    <2>2. \A rec \in Record : rec.id \in UserTasks
        BY DEF Record
    <2> QED BY <2>1, <2>2, TaskFileAssumption
<1>2. ASSUME NEW t \in S \cap UserTasks, t # y PROVE \E i \in 1..Len(records) : records[i].id = t
    <2>1. t \in T \cap UserTasks /\ t # Nil
        BY <1>2, TaskFileAssumption
    <2> QED BY <2>1 DEF Kept
<1>3. ASSUME NEW i \in 1..Len(records), records[i].id \in S, records[i].id # y
      PROVE  records[i].info = new[records[i].id]
    <2>1. records[i].id \in T /\ records[i].id # Nil
        BY <1>1, <1>3
    <2>2. records[i].info = inf[records[i].id]
        BY <2>1 DEF Kept
    <2> QED BY <1>3, <2>1, <2>2
<1> QED BY <1>2, <1>3 DEF Kept

LEMMA MatchesKept ==
    ASSUME NEW T, NEW records, NEW inf, Matches(records, inf, T)
    PROVE  Sorted(records) /\ Kept(T, records, inf, Nil)
BY DEF Matches, Kept

\* After a change of t the file is written, or t is a control task.
LEMMA ChangeAlone ==
    ASSUME AnyThreadsInv, NEW th \in Threads, NEW t \in Nodes, WriteIf(th, t),
           disk' = disk, added' = added, Ordered, Kept(OnList', disk, info', t)
    PROVE  AloneInv(th)'
<1>1. thread \in [Threads -> ThreadType] /\ disk \in Seq(Record) /\ Ordered'
    BY ThreadsFit DEF Ordered
<1>2. CASE t \in UserTasks
    <2>1. thread' = [thread EXCEPT ![th] = At("OPEN", t, Nil)]
        BY <1>2, IdleAt DEF WriteIf
    <2>2. thread'[th].pc = "OPEN" /\ thread'[th].node = t
        BY <1>1, <2>1 DEF At
    <2> QED BY <1>1, <2>2 DEF AloneInv
<1>3. CASE t \notin UserTasks
    <2>1. thread' = [thread EXCEPT ![th] = At("IDLE", Nil, Nil)]
        BY <1>3, IdleAt DEF WriteIf
    <2>2. thread'[th].pc = "IDLE"
        BY <1>1, <2>1 DEF At
    <2>3. \A i \in 1..Len(disk) : disk[i].id # t
        <3>1. \A i \in 1..Len(disk) : disk[i] \in Record
            BY <1>1
        <3>2. \A rec \in Record : rec.id \in UserTasks
            BY DEF Record
        <3> QED BY <1>3, <3>1, <3>2
    <2>4. Kept(OnList', disk, info', Nil)
        BY <1>3, <2>3 DEF Kept
    <2> QED BY <1>1, <2>2, <2>4 DEF AloneInv
<1> QED BY <1>2, <1>3

\* The records of the list, and what a file that holds the first of them is.
LEMMA Prefix ==
    ASSUME SharedInv, NEW a \in Seq(Record), NEW b \in Seq(Record), Records = a \o b
    PROVE  /\ Sorted(a) /\ \A i \in 1..Len(a) : a[i].id \in added /\ a[i] = Records[i] /\ i \in 1..Len(Records)
           /\ \A k \in 1..Len(Records) : k \in 1..Len(a) \/ (k > Len(a) /\ Len(a) \in Nat /\ k \in Nat)
<1>1. Matches(Records, info, OnList) /\ \A i \in 1..Len(Records) : Records[i].id \in added
    <2>1. head \in Known \cup {Nil} /\ Records = RecordsFrom[head] /\ OnList = Reach(next, head)
        BY ListIsChain DEF SharedInv
    <2>2. Known \subseteq added
        BY DEF Known
    <2> QED BY <2>1, <2>2, RecordsKnown
<1>2. Sorted(Records)
    BY <1>1 DEF Matches
<1> HIDE DEF Records
<1>3. /\ Len(Records) = Len(a) + Len(b) /\ Len(a) \in Nat /\ Len(b) \in Nat
      /\ \A i \in 1..Len(a) : Records[i] = a[i] /\ i \in 1..Len(Records)
    OBVIOUS
<1>4. Sorted(a)
    BY <1>2, <1>3 DEF Sorted
<1> QED BY <1>1, <1>3, <1>4

LEMMA WriteAlone ==
    ASSUME AnyThreadsInv, NEW th \in Threads, AloneInv(th), Write(th)
    PROVE  AloneInv(th)'
<1>1. thread \in [Threads -> ThreadType] /\ SharedInv /\ Fit(thread[th], Known)
    BY ThreadsFit, AnyShared
<1>2. /\ Older(next) /\ info \in [Tasks -> Infos \cup {Nil}] /\ head \in Known \cup {Nil}
      /\ Known \subseteq Tasks
    BY <1>1 DEF SharedInv, Known
<1>3. CASE Open(th)
    <2>1. thread' = [thread EXCEPT ![th] = At("FIRST", Nil, Nil)] /\ disk' = <<>>
        BY <1>3, IdleAt DEF Open
    <2>2. thread'[th].pc = "FIRST" /\ thread'[th].buffer = <<>> /\ thread'[th].offset = 0
        BY <1>1, <2>1 DEF At
    <2>3. Ordered'
        BY <2>1 DEF Ordered, Sorted
    <2> QED BY <2>1, <2>2, <2>3 DEF AloneInv
<1>4. CASE Collect(th)
    <2> DEFINE from == WalkFrom(th)
               records == RecordsFrom[from]
               full == Len(records) > Capacity
    <2>1. PICK q : /\ Fit(q, Known) /\ thread' = [thread EXCEPT ![th] = q]
                   /\ q.pc = IF full THEN "FLUSH" ELSE "CLOSE"
                   /\ q.walk = IF full THEN records[Capacity + 1].id ELSE Nil
                   /\ q.buffer = IF full THEN SubSeq(records, 1, Capacity) ELSE records
                   /\ q.offset = thread[th].offset
        BY <1>4, CollectedFit
    <2>2. from \in Known \cup {Nil}
        BY <1>1, <1>2 DEF WalkFrom, Fit
    <2>3. records \in Seq(Record) /\ Len(records) \in Nat
        BY <1>1, <2>2, RecordsKnown
    <2>4. disk \in Seq(Record) /\ thread[th].offset = Len(disk) /\ Records = disk \o records
        <3>1. CASE thread[th].pc = "FIRST"
            <4>1. disk = <<>> /\ thread[th].offset = 0 /\ records = Records
                BY <3>1, ListIsChain DEF AloneInv, WalkFrom
            <4>2. disk \in Seq(Record) /\ Len(disk) = 0 /\ disk \o records = records
                BY <2>3, <4>1, ConcatEmptySeq
            <4> QED BY <4>1, <4>2
        <3>2. CASE thread[th].pc = "COLLECT"
            <4>1. Halfway(th) /\ disk \in Seq(Record) /\ from = thread[th].walk
                BY <3>2 DEF AloneInv, WalkFrom, Ordered
            <4>2. disk \o <<>> = disk
                BY <4>1, ConcatEmptySeq
            <4> QED BY <3>2, <4>1, <4>2 DEF Halfway
        <3> QED BY <1>4, <3>1, <3>2 DEF Collect
    <2>5. q.buffer \in Seq(Record) /\ RecordsFrom[q.walk] \in Seq(Record)
        BY <1>1, <2>1, RecordsKnown DEF Fit, ThreadType
    <2>6. records = q.buffer \o RecordsFrom[q.walk]
        <3>1. CASE full
            <4>1. from \in Nodes /\ Capacity \in Nat /\ Capacity < Len(Written(next, info)[from])
                BY <1>2, <2>2, <2>3, <3>1, ListIsChain, TaskFileAssumption DEF Nodes
            <4>2. records = SubSeq(records, 1, Capacity) \o RecordsFrom[records[Capacity + 1].id]
                BY <1>2, <4>1, WrittenGoesOn, ListIsChain
            <4> HIDE DEF records
            <4> QED BY <2>1, <3>1, <4>2
        <3>2. CASE ~full
            <4>1. RecordsFrom[Nil] = <<>>
                BY <1>2, WrittenEquation, ListIsChain
            <4> HIDE DEF records
            <4>2. records \o <<>> = records
                BY <2>3, ConcatEmptySeq
            <4> QED BY <2>1, <3>2, <4>1, <4>2
        <3> QED BY <3>1, <3>2
    <2>7. Records = (disk \o q.buffer) \o RecordsFrom[q.walk]
        <3> DEFINE rest == RecordsFrom[q.walk]
        <3>1. (disk \o q.buffer) \o rest = disk \o (q.buffer \o rest)
            <4>1. \A a, b, c \in Seq(Record) : (a \o b) \o c = a \o (b \o c)
                BY ConcatAssociative
            <4>2. q.buffer \in Seq(Record) /\ rest \in Seq(Record)
                BY <2>5
            <4> HIDE DEF rest, records
            <4> QED BY <2>4, <4>1, <4>2
        <3> HIDE DEF records
        <3> QED BY <2>4, <2>6, <3>1
    <2>8. q.pc \in {"FLUSH", "CLOSE"} /\ (q.pc = "CLOSE" => q.walk = Nil)
          /\ (q.pc = "FLUSH" => Len(q.buffer) = Capacity)
        <3> HIDE DEF records
        <3>1. full => Len(SubSeq(records, 1, Capacity)) = Capacity
            BY <2>3, TaskFileAssumption
        <3> QED BY <2>1, <3>1
    <2>9. thread'[th] = q /\ disk' = disk /\ Ordered'
        BY <1>1, <1>4, <2>1 DEF Collect, AloneInv, Ordered
    <2>10. Records' = Records /\ RecordsFrom' = RecordsFrom
        BY <1>4, ListIsChain, ListIsChainNext DEF Collect
    <2> HIDE DEF records
    <2>11. Halfway(th)'
        BY <2>1, <2>4, <2>7, <2>8, <2>9, <2>10 DEF Halfway
    <2> QED BY <2>8, <2>9, <2>11 DEF AloneInv
<1>5. CASE Flush(th)
    <2> DEFINE buffer == thread[th].buffer
               rest == RecordsFrom[thread[th].walk]
    <2>1. /\ Halfway(th) /\ disk \in Seq(Record) /\ buffer \in Seq(Record) /\ Len(buffer) = Capacity
          /\ thread[th].walk \in Known \cup {Nil}
        BY <1>1, <1>5 DEF AloneInv, Flush, Ordered, Fit, ThreadType, Halfway
    <2>2. disk' = disk \o buffer
        BY <1>5, <2>1, OverwriteEnd DEF Flush, Halfway
    <2>3. rest \in Seq(Record)
        BY <1>1, <2>1, RecordsKnown
    <2>4. Records = disk' \o rest
        BY <2>1, <2>2 DEF Halfway
    <2>5. thread'[th] = [thread[th] EXCEPT !.pc = "COLLECT", !.buffer = <<>>, !.offset = thread[th].offset + Capacity]
        BY <1>1, <1>5 DEF Flush
    <2>6. /\ thread'[th].pc = "COLLECT" /\ thread'[th].buffer = <<>> /\ thread'[th].walk = thread[th].walk
          /\ thread'[th].offset = Len(disk) + Capacity
        BY <1>1, <2>1, <2>5 DEF ThreadType, Halfway
    <2>7. Records' = Records /\ RecordsFrom' = RecordsFrom
        BY <1>5, ListIsChain, ListIsChainNext DEF Flush
    <2> HIDE DEF buffer, rest
    <2>8. disk' \in Seq(Record) /\ Len(disk') = Len(disk) + Capacity
        BY <2>1, <2>2, ConcatProperties
    <2>9. disk' \o <<>> = disk'
        BY <2>8, ConcatEmptySeq
    <2>10. Halfway(th)'
        BY <2>4, <2>6, <2>7, <2>8, <2>9 DEF Halfway, rest
    <2>11. Ordered'
        BY <1>1, <1>5, <2>3, <2>4, <2>8, Prefix DEF Ordered, Flush
    <2> QED BY <2>6, <2>10, <2>11 DEF AloneInv
<1>6. CASE Close(th)
    <2> DEFINE buffer == thread[th].buffer
    <2>1. Halfway(th) /\ disk \in Seq(Record) /\ buffer \in Seq(Record) /\ thread[th].walk = Nil
        BY <1>1, <1>6 DEF AloneInv, Close, Ordered, Fit, ThreadType, Halfway
    <2>2. disk' = disk \o buffer
        <3>1. CASE buffer = <<>>
            BY <1>6, <2>1, <3>1, ConcatEmptySeq DEF Close
        <3>2. CASE buffer # <<>>
            BY <1>6, <2>1, <3>2, OverwriteEnd DEF Close, Halfway
        <3> QED BY <3>1, <3>2
    <2>3. RecordsFrom[Nil] = <<>>
        BY <1>2, WrittenEquation, ListIsChain
    <2>4. Records = disk' \o <<>>
        BY <2>1, <2>2, <2>3 DEF Halfway
    <2>5. disk' \in Seq(Record)
        <3> HIDE DEF buffer
        <3> QED BY <2>1, <2>2
    <2>6. Records = disk'
        BY <2>4, <2>5, ConcatEmptySeq
    <2>7. Records' = Records /\ OnList' = OnList /\ info' = info /\ added' = added
        BY <1>6, ListIsChain, ListIsChainNext DEF Close
    <2>8. Matches(Records, info, OnList)
        BY <1>1, <1>2, RecordsKnown, ListIsChain
    <2>9. Kept(OnList', disk', info', Nil)
        BY <2>6, <2>7, <2>8, MatchesKept
    <2>10. Ordered'
        <3>1. <<>> \in Seq(Record)
            OBVIOUS
        <3> QED BY <1>1, <2>4, <2>5, <2>7, <3>1, Prefix DEF Ordered
    <2>11. thread'[th].pc = "IDLE"
        BY <1>1, <1>6 DEF Close, Idle
    <2> QED BY <2>9, <2>10, <2>11 DEF AloneInv
<1> QED BY <1>3, <1>4, <1>5, <1>6 DEF Write

LEMMA OrderedStays ==
    ASSUME Ordered, disk' = disk, added \subseteq added'
    PROVE  Ordered'
BY DEF Ordered

LEMMA AddAlone ==
    ASSUME AnyThreadsInv, NEW th \in Threads, AloneInv(th), Add(th)
    PROVE  AloneInv(th)'
<1>1. /\ thread \in [Threads -> ThreadType] /\ SharedInv /\ disk \in Seq(Record) /\ Ordered
      /\ Fit(thread[th], Known) /\ next \in [Tasks -> Nodes] /\ info \in [Tasks -> Infos \cup {Nil}]
    BY ThreadsFit, AnyShared DEF SharedInv, AloneInv, Ordered
<1>2. CASE Publish(th)
    <2> DEFINE t == thread[th].node
    <2>1. /\ t \in Known /\ t \in Tasks /\ t \in Nodes /\ next[t] = head
          /\ Kept(OnList, disk, info, Nil)
        BY <1>1, <1>2 DEF Publish, AloneInv, Fit, SharedInv, Known, Nodes
    <2>2. head' = t /\ WriteIf(th, t) /\ UNCHANGED <<next, info, disk, added, crashes>>
        BY <1>2 DEF Publish
    <2> HIDE DEF t
    <2>3. OnList' = {t} \cup OnList
        <3>1. Older(next)
            BY <1>1 DEF SharedInv
        <3>2. Reach(next, t) = {t} \cup Reach(next, head)
            BY <2>1, <3>1, ReachEquation
        <3> QED BY <2>2, <3>2, ListIsChain, ListIsChainNext
    <2>4. Kept(OnList', disk, info', t)
        BY <1>1, <2>1, <2>2, <2>3, KeptLess
    <2> QED BY <1>1, <2>1, <2>2, <2>4, ChangeAlone
<1>3. ASSUME NEW t \in Tasks, NEW i \in Infos, AddTask(th, t, i) PROVE AloneInv(th)'
    <2>1. /\ t \notin added /\ next' = [next EXCEPT ![t] = head] /\ info' = [info EXCEPT ![t] = i]
          /\ head' = head /\ disk' = disk /\ Ordered'
        BY <1>1, <1>3, OrderedStays DEF AddTask
    <2>2. thread' = [thread EXCEPT ![th] = At("PUBLISH", t, Nil)]
        BY <1>3, IdleAt DEF AddTask
    <2>3. thread'[th].pc = "PUBLISH" /\ thread'[th].node = t
        BY <1>1, <2>2 DEF At
    <2>4. SharedInv'
        BY <1>1, <1>3, AddTaskShared
    <2>5. OnList' = OnList
        <3>1. Older(next) /\ Older(next') /\ head \in Known \cup {Nil} /\ Known \subseteq Tasks /\ t \notin Known
            BY <1>1, <2>1, <2>4 DEF SharedInv, Known
        <3>2. \A u \in Known : next'[u] = next[u] /\ next[u] \in Known \cup {Nil}
            BY <1>1, <2>1, <3>1 DEF SharedInv
        <3>3. Reach(next', head) = Reach(next, head)
            BY <3>1, <3>2, ReachSame
        <3> QED BY <2>1, <3>3, ListIsChain, ListIsChainNext
    <2>6. \A u \in OnList : info'[u] = info[u]
        <3>1. OnList \subseteq Known
            BY <1>1, OnListKnown
        <3> QED BY <1>1, <2>1, <3>1 DEF Known
    <2>7. Kept(OnList, disk, info, Nil)
        BY <1>3 DEF AddTask, Begin, AloneInv
    <2>8. Kept(OnList', disk', info', Nil)
        <3>1. OnList \subseteq OnList \cup {Nil}
            OBVIOUS
        <3> HIDE DEF OnList
        <3>2. Kept(OnList, disk, info', Nil)
            BY <1>1, <2>6, <2>7, <3>1, KeptLess
        <3> QED BY <2>1, <2>5, <3>2
    <2>9. next'[t] = head'
        BY <1>1, <2>1
    <2> QED BY <1>1, <2>1, <2>3, <2>8, <2>9 DEF AloneInv
<1> QED BY <1>2, <1>3 DEF Add

LEMMA UpdateAlone ==
    ASSUME AnyThreadsInv, NEW th \in Threads, AloneInv(th), Update(th)
    PROVE  AloneInv(th)'
<1>1. /\ thread \in [Threads -> ThreadType] /\ SharedInv /\ disk \in Seq(Record) /\ Ordered
      /\ Fit(thread[th], Known) /\ info \in [Tasks -> Infos \cup {Nil}]
    BY ThreadsFit, AnyShared DEF SharedInv, AloneInv, Ordered
<1>2. CASE Store(th)
    <2> DEFINE t == thread[th].node
               i == thread[th].info
    <2>1. t \in Tasks /\ t \in Nodes /\ Kept(OnList, disk, info, Nil)
        BY <1>1, <1>2 DEF Store, AloneInv, Fit, SharedInv, Known, Nodes
    <2>2. info' = [info EXCEPT ![t] = i] /\ WriteIf(th, t) /\ UNCHANGED <<head, next, disk, added, crashes>>
        BY <1>2 DEF Store
    <2> HIDE DEF t, i
    <2>3. OnList' = OnList /\ OnList \subseteq Tasks
        BY <1>1, <2>2, ListIsChain, ListIsChainNext, OnListKnown DEF SharedInv, Known
    <2>4. \A u \in OnList : u # t => info'[u] = info[u]
        BY <1>1, <2>2, <2>3
    <2>5. Kept(OnList', disk, info', t)
        BY <1>1, <2>1, <2>3, <2>4, KeptLess
    <2> QED BY <1>1, <2>1, <2>2, <2>5, ChangeAlone
<1>3. ASSUME NEW t \in Tasks, NEW i \in Infos, UpdateTask(th, t, i) PROVE AloneInv(th)'
    <2>1. thread'[th].pc = "STORE"
        <3>1. thread' = [thread EXCEPT ![th] = [Idle EXCEPT !.pc = "STORE", !.node = t, !.info = i]]
            BY <1>3 DEF UpdateTask
        <3>2. [Idle EXCEPT !.pc = "STORE", !.node = t, !.info = i].pc = "STORE"
            BY DEF Idle
        <3> QED BY <1>1, <3>1, <3>2
    <2>2. UNCHANGED <<head, next, info, disk>> /\ Kept(OnList, disk, info, Nil) /\ Ordered'
        BY <1>1, <1>3, OrderedStays DEF UpdateTask, Begin, AloneInv
    <2>3. OnList' = OnList
        BY <2>2, ListIsChain, ListIsChainNext
    <2> QED BY <1>1, <2>1, <2>2, <2>3 DEF AloneInv
<1> QED BY <1>2, <1>3 DEF Update

LEMMA DeleteAlone ==
    ASSUME AnyThreadsInv, NEW th \in Threads, AloneInv(th), Delete(th)
    PROVE  AloneInv(th)'
<1>1. /\ thread \in [Threads -> ThreadType] /\ SharedInv /\ disk \in Seq(Record) /\ Ordered
      /\ Older(next) /\ OnList = Reach(next, head)
    BY ThreadsFit, AnyShared, ListIsChain DEF SharedInv, AloneInv, Ordered
<1>2. CASE DeleteHead(th)
    <2>1. /\ head \in Tasks /\ head \in Nodes /\ Kept(OnList, disk, info, Nil)
          /\ head' = next[head] /\ WriteIf(th, head) /\ UNCHANGED <<next, info, disk, added>>
        BY <1>2, TaskFileAssumption DEF DeleteHead, Begin, AloneInv, Nodes
    <2>2. OnList' \subseteq OnList
        <3>1. Reach(next, head) = {head} \cup Reach(next, next[head])
            BY <1>1, <2>1, ReachEquation
        <3> QED BY <1>1, <2>1, <3>1, ListIsChainNext
    <2>3. Kept(OnList', disk, info', head)
        BY <1>1, <2>1, <2>2, KeptLess
    <2> QED BY <1>1, <2>1, <2>3, ChangeAlone
<1>3. ASSUME NEW t \in Tasks, DeleteInside(th, t) PROVE AloneInv(th)'
    <2>1. UNCHANGED <<head, info, disk, thread>> /\ thread[th].pc = "IDLE" /\ Kept(OnList, disk, info, Nil) /\ Ordered'
        BY <1>1, <1>3, OrderedStays DEF DeleteInside, Begin, AloneInv
    <2>2. OnList' \subseteq OnList
        BY <1>1, <1>3, DeleteInsideShared
    <2>3. Kept(OnList', disk', info', Nil)
        BY <1>1, <2>1, <2>2, KeptLess
    <2> QED BY <1>1, <2>1, <2>3 DEF AloneInv
<1>4. CASE DeleteAll(th)
    <2>1. head' = Nil /\ UNCHANGED <<next, info, disk>> /\ Ordered'
        BY <1>1, <1>4, OrderedStays DEF DeleteAll
    <2>2. thread' = [thread EXCEPT ![th] = At("OPEN", Nil, Nil)]
        BY <1>4, IdleAt DEF DeleteAll
    <2>3. thread'[th].pc = "OPEN" /\ thread'[th].node = Nil
        BY <1>1, <2>2 DEF At
    <2>4. OnList' = {}
        BY <1>1, <2>1, ReachEquation, ListIsChainNext
    <2>5. Kept(OnList', disk', info', Nil)
        BY <2>4 DEF Kept
    <2> QED BY <1>1, <2>1, <2>3, <2>5 DEF AloneInv
<1> QED BY <1>2, <1>3, <1>4 DEF Delete

LEMMA CrashAlone ==
    ASSUME AnyThreadsInv, NEW th \in Threads, Ordered, Crash
    PROVE  AloneInv(th)'
<1>1. SharedInv
    BY AnyShared
<1>2. disk' = disk /\ thread'[th].pc = "IDLE" /\ Ordered'
    BY OrderedStays DEF Crash, Idle
<1>3. OnList' \subseteq OnDisk /\ \A i \in 1..Len(disk) : info'[disk[i].id] = disk[i].info
    BY <1>1, CrashAny, CrashReads
<1>4. Kept(OnList', disk', info', Nil)
    BY <1>2, <1>3 DEF Kept, OnDisk
<1> QED BY <1>1, <1>2, <1>4 DEF AloneInv

-----------------------------------------------------------------------------
(* The theorems *)

LEMMA InitInv == Init => TaskFileInv
<1> SUFFICES ASSUME Init PROVE TaskFileInv
    OBVIOUS
<1>1. /\ head = Nil /\ next = [t \in Tasks |-> Nil] /\ info = [t \in Tasks |-> Nil] /\ disk = <<>>
      /\ thread = [th \in Threads |-> Idle] /\ added = {} /\ raced = FALSE /\ crashes = 0
    BY DEF Init
<1>2. /\ next \in [Tasks -> Nodes] /\ info \in [Tasks -> Infos \cup {Nil}] /\ Older(next)
      /\ disk \in Seq(Record) /\ disk \in Seq(Record \cup {Hole}) /\ Len(disk) = 0
      /\ Known = {} /\ crashes \in 0..MaxCrashes
    BY <1>1, TaskFileAssumption DEF Older, Nodes, Known
<1>3. Idle \in ThreadType
    BY IdleFit DEF Fit, Nodes
<1>4. /\ thread \in [Threads -> ThreadType]
      /\ \A th \in Threads : thread[th].pc = "IDLE" /\ thread[th].walk = Nil
    BY <1>1, <1>3 DEF Idle
<1>5. TypeOK
    BY <1>1, <1>2, <1>4 DEF TypeOK, ThreadType, Nodes
<1>6. AnyThreadsInv
    BY <1>1, <1>2, <1>4, <1>5 DEF AnyThreadsInv, AddedOldestFirst, ListKnown, NodesKnown
<1>7. OnList = {}
    BY <1>1, <1>2, ListIsChain, ReachEquation
<1>8. ASSUME NEW th \in Threads PROVE AloneInv(th)
    <2>1. Ordered
        BY <1>2 DEF Ordered, Sorted
    <2>2. Kept(OnList, disk, info, Nil)
        BY <1>2, <1>7 DEF Kept
    <2> QED BY <1>4, <2>1, <2>2 DEF AloneInv
<1> QED BY <1>4, <1>6, <1>8 DEF TaskFileInv, UnracedInv

LEMMA UnchangedInv == TaskFileInv /\ UNCHANGED vars => TaskFileInv'
<1> SUFFICES ASSUME TaskFileInv, UNCHANGED vars PROVE TaskFileInv'
    OBVIOUS
<1>1. AnyThreadsInv /\ Known' = Known /\ thread' = thread
    BY DEF TaskFileInv, vars, Known
<1>2. AnyThreadsInv'
    <2>1. SharedInv'
        BY <1>1, AnyShared, SharedStays DEF vars, SharedInv
    <2>2. thread' \in [Threads -> ThreadType] /\ \A th \in Threads : Fit(thread'[th], Known')
        BY <1>1, ThreadsFit DEF vars
    <2> QED BY <2>1, <2>2, Regrouped
<1>3. OnList' = OnList /\ Records' = Records /\ RecordsFrom' = RecordsFrom
    BY ListIsChain, ListIsChainNext DEF vars
<1>4. ASSUME NEW th \in Threads, AloneInv(th) PROVE AloneInv(th)'
    BY <1>3, <1>4 DEF AloneInv, Halfway, Ordered, vars
<1>5. ~raced' => UnracedInv'
    BY <1>1, <1>4 DEF TaskFileInv, UnracedInv, Alone, vars
<1> QED BY <1>2, <1>5 DEF TaskFileInv

\* An operation that begins or goes on before two have overlapped is the only one.
LEMMA OnlyOne ==
    ASSUME TaskFileInv, NEW th \in Threads, Write(th) \/ Add(th) \/ Update(th) \/ Delete(th), ~raced'
    PROVE  Alone(th) /\ AloneInv(th) /\ ~raced
<1>1. CASE Begin(th)
    <2>1. ~raced /\ \A other \in Threads : thread[other].pc = "IDLE"
        BY <1>1 DEF Begin
    <2> QED BY <2>1 DEF Alone, TaskFileInv, UnracedInv
<1>2. CASE thread[th].pc # "IDLE" /\ raced' = raced
    BY <1>2 DEF TaskFileInv, UnracedInv
<1>3. CASE Write(th)
    BY <1>2, <1>3 DEF Write, Open, Collect, Flush, Close
<1>4. CASE Add(th)
    BY <1>1, <1>2, <1>4 DEF Add, Publish, AddTask
<1>5. CASE Update(th)
    BY <1>1, <1>2, <1>5 DEF Update, Store, UpdateTask
<1>6. CASE Delete(th)
    BY <1>1, <1>6 DEF Delete, DeleteHead, DeleteInside, DeleteAll
<1> QED BY <1>3, <1>4, <1>5, <1>6

LEMMA OneThreadMoves ==
    ASSUME NEW th \in Threads, thread \in [Threads -> ThreadType],
           Write(th) \/ Add(th) \/ Update(th) \/ Delete(th)
    PROVE  \E q : thread' = [thread EXCEPT ![th] = q]
<1>1. CASE Write(th)
    BY <1>1 DEF Write, Open, Collect, Gather, Flush, Close
<1>2. CASE Add(th)
    BY <1>2 DEF Add, Publish, AddTask, WriteIf
<1>3. CASE Update(th)
    BY <1>3 DEF Update, Store, UpdateTask, WriteIf
<1>4. CASE Delete(th)
    <2>1. thread = [thread EXCEPT ![th] = thread[th]]
        OBVIOUS
    <2> QED BY <1>4, <2>1 DEF Delete, DeleteHead, DeleteInside, DeleteAll, WriteIf
<1> QED BY <1>1, <1>2, <1>3, <1>4

LEMMA NextInv == TaskFileInv /\ [Next]_vars => TaskFileInv'
<1> SUFFICES ASSUME TaskFileInv, Next PROVE TaskFileInv'
    BY UnchangedInv
<1>1. AnyThreadsInv
    BY DEF TaskFileInv
<1>2. CASE Crash
    <2>1. Ordered
        <3>1. ~raced /\ UnracedInv
            BY <1>2 DEF Crash, TaskFileInv
        <3>2. PICK one \in Threads : Alone(one)
            <4>1. CASE \A th \in Threads : thread[th].pc = "IDLE"
                BY <4>1, TaskFileAssumption DEF Alone
            <4>2. CASE \E th \in Threads : thread[th].pc # "IDLE"
                BY <3>1, <4>2 DEF UnracedInv
            <4> QED BY <4>1, <4>2
        <3> QED BY <3>1, <3>2 DEF UnracedInv, AloneInv
    <2>2. AnyThreadsInv'
        BY <1>1, <1>2, <2>1, CrashAny
    <2>3. \A th \in Threads : AloneInv(th)'
        BY <1>1, <1>2, <2>1, CrashAlone
    <2>4. \A th \in Threads : thread'[th].pc = "IDLE"
        BY <1>2 DEF Crash, Idle
    <2> QED BY <2>2, <2>3, <2>4 DEF TaskFileInv, UnracedInv
<1>3. ASSUME NEW th \in Threads, Write(th) \/ Add(th) \/ Update(th) \/ Delete(th)
      PROVE  TaskFileInv'
    <2>1. AnyThreadsInv'
        <3>1. CASE Write(th)
            BY <1>1, <3>1, OpenAny, CollectAny, FlushAny, CloseAny DEF Write
        <3>2. CASE Add(th)
            BY <1>1, <3>2, PublishAny, AddTaskAny DEF Add
        <3>3. CASE Update(th)
            BY <1>1, <3>3, StoreAny, UpdateTaskAny DEF Update
        <3>4. CASE Delete(th)
            BY <1>1, <3>4, DeleteHeadAny, DeleteInsideAny, DeleteAllAny DEF Delete
        <3> QED BY <1>3, <3>1, <3>2, <3>3, <3>4
    <2>2. ASSUME ~raced' PROVE UnracedInv'
        <3>1. Alone(th) /\ AloneInv(th)
            BY <1>3, <2>2, OnlyOne
        <3>2. AloneInv(th)'
            BY <1>1, <1>3, <3>1, WriteAlone, AddAlone, UpdateAlone, DeleteAlone
        <3>3. \A other \in Threads \ {th} : thread'[other].pc = "IDLE"
            <4>1. thread \in [Threads -> ThreadType] /\ \E q : thread' = [thread EXCEPT ![th] = q]
                BY <1>1, <1>3, ThreadsFit, OneThreadMoves
            <4> QED BY <3>1, <4>1 DEF Alone
        <3>4. ASSUME NEW x \in Threads, x # th, Alone(x)' PROVE AloneInv(x)'
            <4>1. thread'[th].pc = "IDLE" /\ thread'[x].pc = "IDLE"
                BY <3>3, <3>4 DEF Alone
            <4> QED BY <3>2, <4>1 DEF AloneInv
        <3> QED BY <3>2, <3>3, <3>4 DEF UnracedInv, Alone
    <2> QED BY <2>1, <2>2 DEF TaskFileInv
<1> QED BY <1>2, <1>3 DEF Next

\* The invariant, for any threads, any size of the buffer and any number of
\* crashes before two operations overlap.
THEOREM TaskFileInductive == Spec => []TaskFileInv
<1> QED BY InitInv, NextInv, PTL DEF Spec

\* Every variable has its type, whatever the threads do: a file is only ever
\* made of whole records of user tasks (write_tasks).
THEOREM TaskFileTypeOK == Spec => []TypeOK
<1>1. TaskFileInv => TypeOK
    BY DEF TaskFileInv, AnyThreadsInv
<1> QED BY <1>1, TaskFileInductive, PTL

\* The list is in the order of age, whatever the threads add and delete at once,
\* and after crashes before two operations have overlapped (add_task, del_task,
\* read_tasks).
THEOREM ListNewestFirst == Spec => []NewestFirst
<1>1. TaskFileInv => NewestFirst
    <2> SUFFICES ASSUME TaskFileInv PROVE NewestFirst
        OBVIOUS
    <2>1. Older(next) /\ head \in Nodes
        BY DEF TaskFileInv, AnyThreadsInv, TypeOK
    <2>2. Chain(next)[head] \in Seq(Tasks) /\ Len(Chain(next)[head]) \in Nat
        BY <2>1, ChainEquation
    <2>3. ASSUME NEW i \in 1..Len(Chain(next)[head]) - 1
          PROVE  Chain(next)[head][i] > Chain(next)[head][i + 1]
        <3>1. i \in 1..Len(Chain(next)[head]) /\ i + 1 \in 1..Len(Chain(next)[head]) /\ i < i + 1
            BY <2>2
        <3> QED BY <2>1, <3>1, ChainSorted
    <2> QED BY <2>3, ListIsChain DEF NewestFirst
<1> QED BY <1>1, TaskFileInductive, PTL

\* On a list in the order of age the newer of two tasks comes first.
LEMMA NewerBefore ==
    ASSUME TaskFileInv, NEW t \in OnList, NEW u \in OnList, t > u
    PROVE  Before(t, u)
<1>1. Older(next) /\ head \in Nodes
    BY DEF TaskFileInv, AnyThreadsInv, TypeOK
<1>2. List \in Seq(Tasks) /\ Len(List) \in Nat
    BY <1>1, ChainEquation, ListIsChain
<1>3. \A k, l \in 1..Len(List) : k < l => List[k] > List[l]
    BY <1>1, ChainSorted, ListIsChain
<1>4. PICK k \in 1..Len(List) : List[k] = t
    BY DEF OnList
<1>5. PICK l \in 1..Len(List) : List[l] = u
    BY DEF OnList
<1>6. t \in Nat /\ u \in Nat
    <2> HIDE DEF List
    <2>1. t \in Tasks /\ u \in Tasks
        BY <1>2, <1>4, <1>5
    <2> QED BY <2>1, TaskFileAssumption
<1>7. k < l
    <2> HIDE DEF List
    <2>1. k # l /\ ~(l < k)
        BY <1>3, <1>4, <1>5, <1>6
    <2> QED BY <1>2, <2>1
<1> QED BY <1>4, <1>5, <1>7 DEF Before

\* Until two operations of the threads overlap, whatever they add, update and
\* delete and whenever the daemon crashes: between operations a restart reads
\* every user task of the list as it is in memory and in its order (write_tasks,
\* read_tasks).  Once two have overlapped it is not so: each may write what the
\* other has changed meanwhile.
THEOREM ListStaysOnDisk == Spec => []ListOnDisk
<1>1. TaskFileInv => ListOnDisk
    <2> SUFFICES ASSUME TaskFileInv, ~raced, Quiet PROVE ListOnDisk
        BY DEF ListOnDisk
    <2>1. PICK th \in Threads : Alone(th) /\ thread[th].pc = "IDLE"
        BY TaskFileAssumption DEF Quiet, Alone
    <2>2. Ordered /\ Kept(OnList, disk, info, Nil)
        BY <2>1 DEF TaskFileInv, UnracedInv, AloneInv
    <2>3. \A i \in 1..Len(disk) : disk[i].id \in UserTasks /\ disk[i].id # Nil
        <3>1. \A i \in 1..Len(disk) : disk[i] \in Record
            BY <2>2 DEF Ordered
        <3>2. \A rec \in Record : rec.id \in UserTasks
            BY DEF Record
        <3> QED BY <3>1, <3>2, TaskFileAssumption
    <2>4. \A t \in OnList \cap UserTasks : \E i \in 1..Len(disk) : disk[i].id = t
        BY <2>2, TaskFileAssumption DEF Kept
    <2>5. \A i \in 1..Len(disk) : disk[i].id \in OnList => disk[i].info = info[disk[i].id]
        BY <2>2, <2>3 DEF Kept
    <2>6. ASSUME NEW i \in 1..Len(disk), NEW j \in 1..Len(disk), i < j,
                 disk[i].id \in OnList, disk[j].id \in OnList
          PROVE  Before(disk[i].id, disk[j].id)
        <3>1. disk[i].id > disk[j].id
            BY <2>2, <2>6 DEF Ordered, Sorted
        <3> QED BY <2>6, <3>1, NewerBefore
    <2> HIDE DEF Before, OnList
    <2> QED BY <2>4, <2>5, <2>6 DEF ListOnDisk
<1> QED BY <1>1, TaskFileInductive, PTL

\* Until two operations of the threads overlap, a crash at any point finds every
\* user task but the one at hand, or, between the truncation of open and fclose,
\* the newest ones as they are in memory: the loop of write_tasks flushes its
\* buffer in the order of the list, whatever its size.
THEOREM CrashLosesOnlyTheEnd == Spec => []OnlyTheEndIsLost
<1>1. TaskFileInv => OnlyTheEndIsLost
    <2> SUFFICES ASSUME TaskFileInv, ~raced, NEW t \in OnList \cap UserTasks,
                        \A th \in Threads : thread[th].node # t
                 PROVE  \/ \E i \in 1..Len(disk) : disk[i] = [id |-> t, info |-> info[t]]
                        \/ /\ \E th \in Threads : thread[th].pc \in Writing
                           /\ \A i \in 1..Len(disk) : Before(disk[i].id, t)
        BY DEF OnlyTheEndIsLost
    <2>1. PICK th \in Threads : Alone(th)
        <3>1. CASE \A th \in Threads : thread[th].pc = "IDLE"
            BY <3>1, TaskFileAssumption DEF Alone
        <3>2. CASE \E th \in Threads : thread[th].pc # "IDLE"
            BY <3>2 DEF TaskFileInv, UnracedInv
        <3> QED BY <3>1, <3>2
    <2>2. AloneInv(th) /\ thread[th].pc \in Points /\ thread[th].node # t /\ t # Nil /\ disk \in Seq(Record)
        BY <2>1, TaskFileAssumption DEF TaskFileInv, UnracedInv, AnyThreadsInv, TypeOK, AloneInv, Ordered
    <2>3. CASE thread[th].pc \notin Writing
        <3>1. PICK x : x # t /\ Kept(OnList, disk, info, x)
            <4>1. CASE thread[th].pc = "OPEN"
                BY <2>2, <4>1 DEF AloneInv
            <4>2. CASE thread[th].pc # "OPEN"
                BY <2>2, <2>3, <4>2 DEF AloneInv, Points
            <4> QED BY <4>1, <4>2
        <3>2. PICK i \in 1..Len(disk) : disk[i].id = t
            BY <3>1 DEF Kept
        <3>3. disk[i].info = info[t]
            BY <3>1, <3>2 DEF Kept
        <3>4. disk[i] \in Record
            BY <2>2
        <3>5. disk[i] = [id |-> disk[i].id, info |-> disk[i].info]
            BY <3>4 DEF Record
        <3> QED BY <3>2, <3>3, <3>5
    <2>4. CASE thread[th].pc = "FIRST"
        <3>1. Len(disk) = 0 /\ thread[th].pc \in Writing
            BY <2>2, <2>4 DEF AloneInv, Writing
        <3>2. \A i \in 1..Len(disk) : Before(disk[i].id, t)
            BY <3>1
        <3> QED BY <3>1, <3>2
    <2>5. CASE thread[th].pc \in {"COLLECT", "FLUSH", "CLOSE"}
        <3> DEFINE buffer == thread[th].buffer
                   rest == RecordsFrom[thread[th].walk]
        <3>1. SharedInv /\ Fit(thread[th], Known)
            BY AnyShared, ThreadsFit DEF TaskFileInv
        <3>2. buffer \in Seq(Record) /\ rest \in Seq(Record)
            BY <3>1, RecordsKnown DEF Fit, ThreadType
        <3>3. Records = (disk \o buffer) \o rest
            BY <2>2, <2>5 DEF AloneInv, Halfway
        <3> HIDE DEF buffer, rest
        <3>4. Records = disk \o (buffer \o rest) /\ buffer \o rest \in Seq(Record)
            BY <2>2, <3>2, <3>3, ConcatAssociative
        <3>5. Matches(Records, info, OnList)
            BY <3>1, RecordsKnown, ListIsChain DEF SharedInv
        <3>6. PICK k \in 1..Len(Records) : Records[k].id = t
            BY <3>5 DEF Matches
        <3>7. /\ k \in 1..Len(disk) \/ (k > Len(disk) /\ Len(disk) \in Nat /\ k \in Nat)
              /\ \A i \in 1..Len(disk) : disk[i] = Records[i] /\ i \in 1..Len(Records)
            BY <2>2, <3>1, <3>4, Prefix
        <3>8. CASE k \in 1..Len(disk)
            <4>1. disk[k].id = t /\ disk[k].info = info[t]
                BY <3>5, <3>6, <3>7, <3>8 DEF Matches
            <4>2. disk[k] \in Record
                BY <2>2, <3>8
            <4>3. disk[k] = [id |-> disk[k].id, info |-> disk[k].info]
                BY <4>2 DEF Record
            <4> QED BY <3>8, <4>1, <4>3
        <3>9. CASE k > Len(disk) /\ Len(disk) \in Nat /\ k \in Nat
            <4>1. ASSUME NEW i \in 1..Len(disk) PROVE Before(disk[i].id, t)
                <5>1. i < k /\ i \in 1..Len(Records) /\ disk[i] = Records[i]
                    BY <3>7, <3>9
                <5>2. disk[i].id > t /\ disk[i].id \in OnList
                    BY <3>5, <3>6, <5>1 DEF Matches, Sorted
                <5> HIDE DEF OnList, Before
                <5> QED BY <5>2, NewerBefore
            <4>2. thread[th].pc \in Writing
                BY <2>5 DEF Writing
            <4> QED BY <4>1, <4>2
        <3> QED BY <3>7, <3>8, <3>9
    <2> QED BY <2>3, <2>4, <2>5 DEF Writing
<1> QED BY <1>1, TaskFileInductive, PTL

=============================================================================
