------------------------- MODULE HostRegistryProofs -------------------------
(***************************************************************************)
(* Theorems about the collapse of the names of one machine                 *)
(* (host_equivalent.go), for every set of hosts and every configuration:   *)
(* the preference orders the names, so that the order in which Go ranges   *)
(* over its maps does not matter, and no machine is lost.                  *)
(***************************************************************************)
EXTENDS HostRegistry, Sequences, TLAPS, WellFoundedInduction

(***************************************************************************)
(* The preference is a strict total order.                                 *)
(***************************************************************************)

LEMMA PreferAsymmetric ==
    ASSUME NEW conf, NEW hosts, NEW fresh,
           NEW n \in Name, NEW m \in Name, n # m,
           Prefer(n, m, conf, hosts, fresh), Prefer(m, n, conf, hosts, fresh)
    PROVE  FALSE
<1>1. n \in Nat /\ m \in Nat /\ ~(n < m /\ m < n)
    BY NamesAssumption
<1> QED BY <1>1 DEF Prefer, PreferHost, Decides

LEMMA PreferTotal ==
    ASSUME NEW conf, NEW hosts, NEW fresh,
           NEW n \in Name, NEW m \in Name, n # m
    PROVE  Prefer(n, m, conf, hosts, fresh) \/ Prefer(m, n, conf, hosts, fresh)
<1>1. n \in Nat /\ m \in Nat /\ (n < m \/ m < n)
    BY NamesAssumption
<1> QED BY <1>1 DEF Prefer, PreferHost, Decides

LEMMA PreferTransitive ==
    ASSUME NEW conf, NEW hosts, NEW fresh,
           NEW n \in Name, NEW m \in Name, NEW k \in Name,
           Prefer(n, m, conf, hosts, fresh), Prefer(m, k, conf, hosts, fresh)
    PROVE  Prefer(n, k, conf, hosts, fresh)
<1>1. n \in Nat /\ m \in Nat /\ k \in Nat /\ (n < m /\ m < k => n < k)
    BY NamesAssumption
<1> QED BY <1>1 DEF Prefer, PreferHost, Decides

\* Go compares a name with the winner so far, never with itself.
Beats(n, m, conf, hosts, fresh) == n = m \/ Prefer(n, m, conf, hosts, fresh)

(***************************************************************************)
(* The loop over the names of one group.                                   *)
(***************************************************************************)

\* The winner after each name of a group, in the order in which they are there.
LoopOver(names, winner, conf, hosts, fresh) ==
    /\ winner[1] = names[1]
    /\ \A i \in 2 .. Len(names) :
          winner[i] = IF Prefer(names[i], winner[i - 1], conf, hosts, fresh)
                      THEN names[i] ELSE winner[i - 1]

Group(key, conf, hosts, fresh) == {n \in DOMAIN hosts : KeyOf(n, conf, hosts, fresh) = key}

Lists(names, group) == names \in Seq(group) /\ group = {names[i] : i \in DOMAIN names}

Less == OpToRel(<, Nat)

LEMMA LeastNatural ==
    ASSUME NEW T \in SUBSET Nat, T # {}
    PROVE  \E m \in T : \A x \in T : m <= x
<1>1. IsWellFoundedOn(Less, Nat)
    BY NatLessThanWellFounded, Zenon DEF Less
<1>2. PICK m \in T : \A x \in T : ~(<<x, m>> \in Less)
    BY <1>1, WFMin
<1>3. \A x \in T : ~(x < m)
    <2>1. \A x, y \in Nat : x < y => <<x, y>> \in Less
        BY DEF Less, OpToRel
    <2> QED BY <1>2, <2>1
<1> QED BY <1>3

\* The names that are left when all others of the group are beaten.
LEMMA BestWins ==
    ASSUME NEW conf, NEW hosts, NEW fresh, NEW key,
           NEW n \in Group(key, conf, hosts, fresh),
           \A m \in Group(key, conf, hosts, fresh) : Beats(n, m, conf, hosts, fresh)
    PROVE  n \in Winners(conf, hosts, fresh)
BY DEF Group, Beats, Winners

LEMMA WinnerIsUnique ==
    ASSUME NEW conf, NEW hosts, NEW fresh, DOMAIN hosts \subseteq Name,
           NEW n \in Winners(conf, hosts, fresh), NEW m \in Winners(conf, hosts, fresh),
           KeyOf(n, conf, hosts, fresh) = KeyOf(m, conf, hosts, fresh)
    PROVE  n = m
<1> SUFFICES ASSUME n # m PROVE FALSE
    OBVIOUS
<1>1. n \in Name /\ m \in Name
    BY DEF Winners
<1>2. Prefer(n, m, conf, hosts, fresh) /\ Prefer(m, n, conf, hosts, fresh)
    BY DEF Winners
<1> QED BY <1>1, <1>2, PreferAsymmetric

LEMMA LoopKeepsBest ==
    ASSUME NEW conf, NEW hosts, NEW fresh, NEW group \in SUBSET Name,
           NEW names, Lists(names, group), names # << >>,
           NEW winner, LoopOver(names, winner, conf, hosts, fresh)
    PROVE  /\ winner[Len(names)] \in group
           /\ \A m \in group : Beats(winner[Len(names)], m, conf, hosts, fresh)
<1> DEFINE B(n, m) == Beats(n, m, conf, hosts, fresh)
           Good(k) == winner[k] \in group /\ \A i \in 1 .. k : B(winner[k], names[i])
           bad == {k \in 1 .. Len(names) : ~Good(k)}
<1>1. /\ Len(names) \in Nat \ {0} /\ DOMAIN names = 1 .. Len(names)
      /\ \A i \in 1 .. Len(names) : names[i] \in group
    BY DEF Lists
<1>2. Good(1)
    <2>1. winner[1] = names[1] /\ 1 \in 1 .. Len(names) /\ \A i \in 1 .. 1 : i = 1
        BY <1>1 DEF LoopOver
    <2> QED BY <1>1, <2>1 DEF Beats
<1>3. ASSUME NEW k \in 2 .. Len(names), Good(k - 1) PROVE Good(k)
    <2>1. winner[k] = IF Prefer(names[k], winner[k - 1], conf, hosts, fresh)
                      THEN names[k] ELSE winner[k - 1]
        BY DEF LoopOver
    <2>2. k \in 1 .. Len(names) /\ names[k] \in group /\ winner[k - 1] \in group
        BY <1>1, <1>3
    <2>3. \A i \in 1 .. k : i = k \/ (i \in 1 .. (k - 1) /\ i \in 1 .. Len(names))
        BY <1>1
    <2>4. CASE Prefer(names[k], winner[k - 1], conf, hosts, fresh)
        <3>1. winner[k] = names[k]
            BY <2>1, <2>4
        <3>2. ASSUME NEW i \in 1 .. (k - 1), i \in 1 .. Len(names) PROVE B(names[k], names[i])
            <4>1. winner[k - 1] = names[i] \/ Prefer(winner[k - 1], names[i], conf, hosts, fresh)
                BY <1>3 DEF Beats
            <4>2. names[i] \in Name /\ names[k] \in Name /\ winner[k - 1] \in Name
                BY <1>1, <2>2, <3>2
            <4> QED BY <2>4, <4>1, <4>2, PreferTransitive DEF Beats
        <3>3. B(names[k], names[k])
            BY DEF Beats
        <3> QED BY <2>2, <2>3, <3>1, <3>2, <3>3
    <2>5. CASE ~Prefer(names[k], winner[k - 1], conf, hosts, fresh)
        <3>1. winner[k] = winner[k - 1]
            BY <2>1, <2>5
        <3>2. B(winner[k - 1], names[k])
            <4>1. names[k] \in Name /\ winner[k - 1] \in Name
                BY <2>2
            <4> QED BY <2>5, <4>1, PreferTotal DEF Beats
        <3> QED BY <1>3, <2>2, <2>3, <3>1, <3>2
    <2> QED BY <2>4, <2>5
<1>4. bad = {}
    <2> SUFFICES ASSUME bad # {} PROVE FALSE
        OBVIOUS
    <2>1. PICK k \in bad : \A j \in bad : k <= j
        <3>1. bad \in SUBSET Nat
            OBVIOUS
        <3> HIDE DEF bad
        <3> QED BY <3>1, LeastNatural
    <2> HIDE DEF Good
    <2>2. k # 1
        BY <1>2, <2>1
    <2>3. k \in 2 .. Len(names) /\ k - 1 \in 1 .. Len(names) /\ k - 1 \notin bad
        BY <1>1, <2>1, <2>2
    <2> QED BY <1>3, <2>1, <2>3
<1>5. Good(Len(names))
    <2> HIDE DEF Good
    <2> QED BY <1>1, <1>4
<1> QED BY <1>1, <1>5 DEF Lists

\* Every list of names has a loop over it: the hypothesis of what follows.
LEMMA LoopExists ==
    ASSUME NEW conf, NEW hosts, NEW fresh, NEW group \in SUBSET Name,
           NEW names \in Seq(group), names # << >>
    PROVE  \E winner : LoopOver(names, winner, conf, hosts, fresh)
<1> DEFINE P(n, m) == Prefer(n, m, conf, hosts, fresh)
           Upto(w, k) == /\ w[1] = names[1]
                         /\ \A i \in 2 .. k : w[i] = IF P(names[i], w[i - 1]) THEN names[i] ELSE w[i - 1]
           bad == {k \in 1 .. Len(names) : ~\E w : Upto(w, k)}
<1>1. Len(names) \in Nat \ {0}
    OBVIOUS
<1>2. \E w : Upto(w, 1)
    <2>1. Upto([i \in 1 .. 1 |-> names[1]], 1)
        OBVIOUS
    <2> QED BY <2>1
<1>3. ASSUME NEW k \in 2 .. Len(names), NEW w, Upto(w, k - 1) PROVE \E v : Upto(v, k)
    <2> DEFINE v == [i \in 1 .. k |-> IF i < k THEN w[i]
                                      ELSE IF P(names[k], w[k - 1]) THEN names[k] ELSE w[k - 1]]
    <2>1. v[1] = names[1]
        BY <1>1, <1>3
    <2>2. ASSUME NEW i \in 2 .. k PROVE v[i] = IF P(names[i], v[i - 1]) THEN names[i] ELSE v[i - 1]
        <3>1. i - 1 \in 1 .. k /\ i - 1 < k /\ i \in 1 .. k
            BY <1>1
        <3>2. v[i - 1] = w[i - 1]
            BY <3>1
        <3>3. CASE i = k
            BY <3>1, <3>2, <3>3
        <3>4. CASE i < k
            <4>1. i \in 2 .. (k - 1) /\ v[i] = w[i]
                BY <1>1, <3>1, <3>4
            <4> QED BY <1>3, <3>2, <4>1
        <3> QED BY <1>1, <3>3, <3>4
    <2> HIDE DEF v
    <2>3. Upto(v, k)
        BY <2>1, <2>2
    <2> QED BY <2>3
<1>4. bad = {}
    <2> SUFFICES ASSUME bad # {} PROVE FALSE
        OBVIOUS
    <2>1. PICK k \in bad : \A j \in bad : k <= j
        <3>1. bad \in SUBSET Nat
            OBVIOUS
        <3> HIDE DEF bad
        <3> QED BY <3>1, LeastNatural
    <2> HIDE DEF Upto
    <2>2. k # 1
        BY <1>2, <2>1
    <2>3. k \in 2 .. Len(names) /\ k - 1 \in 1 .. Len(names) /\ k - 1 \notin bad
        BY <1>1, <2>1, <2>2
    <2> QED BY <1>3, <2>1, <2>3
<1>5. \E w : Upto(w, Len(names))
    <2> HIDE DEF Upto
    <2>1. \A k \in 1 .. Len(names) : \E w : Upto(w, k)
        BY <1>4
    <2> QED BY <1>1, <2>1
<1> QED BY <1>5 DEF LoopOver

\* host_equivalent.go:42-54: Go ranges over the map of targets in any order, so that
\* the names of a group are listed in any order; whichever it is, the loop ends
\* with the one name that the rule says, the one no other name of the machine is
\* preferred to.
THEOREM MapOrderIrrelevant ==
    ASSUME NEW conf, NEW hosts, NEW fresh, NEW key, DOMAIN hosts \subseteq Name,
           NEW names, names # << >>, Lists(names, Group(key, conf, hosts, fresh)),
           NEW winner, LoopOver(names, winner, conf, hosts, fresh)
    PROVE  Winners(conf, hosts, fresh) \cap Group(key, conf, hosts, fresh) = {winner[Len(names)]}
<1> DEFINE group == Group(key, conf, hosts, fresh)
           last == winner[Len(names)]
<1>1. group \in SUBSET Name
    BY DEF Group
<1>2. last \in group /\ \A m \in group : Beats(last, m, conf, hosts, fresh)
    <2>1. Lists(names, group)
        OBVIOUS
    <2> HIDE DEF group
    <2> QED BY <1>1, <2>1, LoopKeepsBest
<1>3. last \in Winners(conf, hosts, fresh)
    BY <1>2, BestWins
<1>4. ASSUME NEW n \in Winners(conf, hosts, fresh), n \in group PROVE n = last
    <2>1. KeyOf(n, conf, hosts, fresh) = KeyOf(last, conf, hosts, fresh)
        BY <1>2, <1>4 DEF Group
    <2> QED BY <1>3, <2>1, WinnerIsUnique
<1> QED BY <1>2, <1>3, <1>4

(***************************************************************************)
(* Every group has a winner.                                               *)
(***************************************************************************)

\* Of any names there is one that beats the others: the best by the first criterion
\* that tells them apart, and of these the first in the order of names.
LEMMA BestExists ==
    ASSUME NEW conf, NEW hosts, NEW fresh, NEW group \in SUBSET Name, group # {}
    PROVE  \E n \in group : \A m \in group : Beats(n, m, conf, hosts, fresh)
<1> DEFINE A(n) == n \in fresh
           B(n) == hosts[n].target \in Alias \/ n \in Alias
           C(n) == n \in DOMAIN conf.hosts
           D(n) == hosts[n].target \in Bare
           first == IF \E n \in group : A(n) THEN {n \in group : A(n)} ELSE group
           second == IF \E n \in first : B(n) THEN {n \in first : B(n)} ELSE first
           third == IF \E n \in second : C(n) THEN {n \in second : C(n)} ELSE second
           fourth == IF \E n \in third : D(n) THEN {n \in third : D(n)} ELSE third
<1>1. first # {} /\ first \subseteq group
    OBVIOUS
<1>2. second # {} /\ second \subseteq first
    BY <1>1
<1>3. third # {} /\ third \subseteq second
    BY <1>2
<1>4. fourth # {} /\ fourth \subseteq third
    BY <1>3
<1>5. fourth \in SUBSET Nat
    BY <1>1, <1>2, <1>3, <1>4, NamesAssumption
<1>6. PICK n \in fourth : \A m \in fourth : n <= m
    <2> HIDE DEF fourth
    <2> QED BY <1>4, <1>5, LeastNatural
<1>7. ASSUME NEW m \in group, m # n PROVE Prefer(n, m, conf, hosts, fresh)
    <2>1. A(n) # A(m) => A(n)
        BY <1>1, <1>2, <1>3, <1>4, <1>6
    <2>2. A(n) = A(m) => m \in first
        BY <1>1, <1>2, <1>3, <1>4, <1>6
    <2>3. m \in first /\ B(n) # B(m) => B(n)
        BY <1>2, <1>3, <1>4, <1>6
    <2>4. m \in first /\ B(n) = B(m) => m \in second
        BY <1>2, <1>3, <1>4, <1>6
    <2>5. m \in second /\ C(n) # C(m) => C(n)
        BY <1>3, <1>4, <1>6
    <2>6. m \in second /\ C(n) = C(m) => m \in third
        BY <1>3, <1>4, <1>6
    <2>7. m \in third /\ D(n) # D(m) => D(n)
        BY <1>4, <1>6
    <2>8. m \in third /\ D(n) = D(m) => m \in fourth
        BY <1>4, <1>6
    <2>9. m \in fourth => n < m
        BY <1>5, <1>6, <1>7
    <2> HIDE DEF first, second, third, fourth
    <2> QED BY <2>1, <2>2, <2>3, <2>4, <2>5, <2>6, <2>7, <2>8, <2>9 DEF Prefer, PreferHost, Decides
<1>8. n \in group
    BY <1>1, <1>2, <1>3, <1>4, <1>6
<1> QED BY <1>7, <1>8 DEF Beats

\* host_equivalent.go:16-18: of the names of one machine exactly one is kept.
THEOREM OneWinnerPerMachine ==
    ASSUME NEW conf, NEW hosts, NEW fresh, DOMAIN hosts \subseteq Name, NEW n \in DOMAIN hosts
    PROVE  \E w \in Winners(conf, hosts, fresh) :
               /\ KeyOf(w, conf, hosts, fresh) = KeyOf(n, conf, hosts, fresh)
               /\ \A v \in Winners(conf, hosts, fresh) :
                     KeyOf(v, conf, hosts, fresh) = KeyOf(n, conf, hosts, fresh) => v = w
<1> DEFINE key == KeyOf(n, conf, hosts, fresh)
           group == Group(key, conf, hosts, fresh)
<1>1. group \in SUBSET Name /\ n \in group
    BY DEF Group
<1>2. PICK w \in group : \A m \in group : Beats(w, m, conf, hosts, fresh)
    <2> HIDE DEF group
    <2> QED BY <1>1, BestExists
<1>3. w \in Winners(conf, hosts, fresh)
    BY <1>2, BestWins
<1>4. KeyOf(w, conf, hosts, fresh) = key
    BY <1>2 DEF Group
<1> QED BY <1>3, <1>4, WinnerIsUnique

=============================================================================
