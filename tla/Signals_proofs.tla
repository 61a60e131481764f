--------------------------- MODULE Signals_proofs ---------------------------
(***************************************************************************)
(* From a signal to a fill: what was approved is executed once, a cycle    *)
(* tries each market once for a candle and finishes what it took, and what *)
(* a PAPER fill cost or earned is in the balance once.                     *)
(***************************************************************************)
EXTENDS ExecutionAuthorization, DiscoveryCycle, PaperTrading, Sequences, TLAPS,
        FiniteSetTheorems, WellFoundedInduction

-----------------------------------------------------------------------------
(***************************************************************************)
(* ExecutionAuthorization                                                  *)
(***************************************************************************)

Authorization == [id : 1 .. prepared, candidate : Candidates,
                  status : {"pending", "expired", "approved", "rejected"}, until : Nat]

(* What is kept was prepared and is told apart by its identity.            *)
KeptInv ==
    /\ AuthorizationTypeOK /\ kept \in Seq(Authorization)
    /\ \A i, j \in DOMAIN kept : kept[i].id = kept[j].id => i = j

(* Of the chances to execute an authorization one is left: it is pending,  *)
(* or it is due, or it was executed.                                       *)
OneChance ==
    /\ executed \in [Authorizations -> {0, 1}]
    /\ \A a \in Authorizations : a \in due \/ a > prepared => executed[a] = 0
    /\ \A i \in DOMAIN kept : kept[i].status = "pending" =>
          kept[i].id \notin due /\ executed[kept[i].id] = 0

AuthorizationInv == KeptInv /\ OneChance

(* ys are authorizations of xs, some of them expired or gone, and none of  *)
(* those that can still be approved is gone.                               *)
Thinned(xs, ys) ==
    /\ ys \in Seq(Authorization) /\ Len(ys) <= Len(xs)
    /\ \A i, j \in DOMAIN ys : ys[i].id = ys[j].id => i = j
    /\ \A j \in DOMAIN ys : \E i \in DOMAIN xs :
          xs[i].id = ys[j].id /\ (ys[j].status = "pending" => xs[i].status = "pending")
    /\ \A i \in DOMAIN xs : Approvable(xs[i]) => \E j \in DOMAIN ys : ys[j] = xs[i]

-----------------------------------------------------------------------------
LEMMA LeastIn ==
    ASSUME NEW S \in SUBSET Nat, S # {}
    PROVE  \E x \in S : \A y \in S : x =< y
<1> DEFINE Below == {p \in Nat \X Nat : p[1] < p[2]}
<1>1. Below = OpToRel(<, Nat)
  BY DEF OpToRel
<1>2. IsWellFoundedOn(Below, Nat)
  BY <1>1, NatLessThanWellFounded
<1>3. \E x \in S : \A y \in S : ~(<<y, x>> \in Below)
  <2> HIDE DEF Below
  <2> QED
    BY <1>2, WFMin, Zenon
<1>4. PICK x \in S : \A y \in S : ~(<<y, x>> \in Below)
  BY <1>3
<1>5. ASSUME NEW y \in S PROVE x =< y
  <2>1. ~(<<y, x>> \in Below) /\ x \in Nat /\ y \in Nat
    BY <1>4
  <2> QED
    BY <2>1
<1> QED
  BY <1>5

LEMMA LeastOf ==
    ASSUME NEW S \in SUBSET Nat, S # {}
    PROVE  Min(S) \in S
BY LeastIn DEF Min

LEMMA ExpireThins ==
    ASSUME KeptInv PROVE Thinned(kept, Expire(kept))
<1> DEFINE ys == Expire(kept)
<1>1. ASSUME NEW i \in 1 .. Len(kept)
      PROVE  /\ ys[i] \in Authorization /\ ys[i].id = kept[i].id
             /\ ys[i].status = "pending" => kept[i].status = "pending"
             /\ Approvable(kept[i]) => ys[i] = kept[i]
  <2>1. kept[i] \in Authorization /\ i \in DOMAIN kept
    BY DEF KeptInv
  <2>2. ys[i] = IF kept[i].status = "pending" /\ tick >= kept[i].until
                THEN [kept[i] EXCEPT !.status = "expired"] ELSE kept[i]
    BY <2>1 DEF Expire
  <2>3. tick \in Nat
    BY KeptAssumption DEF KeptInv, AuthorizationTypeOK
  <2> HIDE DEF ys
  <2> QED
    BY <2>1, <2>2, <2>3 DEF Approvable, Authorization
<1>2. ys \in Seq(Authorization) /\ Len(ys) = Len(kept) /\ DOMAIN ys = 1 .. Len(kept)
  <2>1. DOMAIN kept = 1 .. Len(kept) /\ Len(kept) \in Nat
    BY DEF KeptInv
  <2>2. ys = [i \in 1 .. Len(kept) |-> ys[i]]
    BY <2>1 DEF Expire
  <2> HIDE DEF ys
  <2>3. ys \in [1 .. Len(kept) -> Authorization]
    BY <1>1, <2>2
  <2> QED
    BY <2>1, <2>3
<1> HIDE DEF ys
<1>3. Len(ys) <= Len(kept) /\ DOMAIN kept = 1 .. Len(kept)
  BY <1>2 DEF KeptInv
<1>4. \A i, j \in 1 .. Len(kept) : ys[i].id = ys[j].id => i = j
  BY <1>1, <1>3 DEF KeptInv
<1>5. \A j \in DOMAIN ys : j \in DOMAIN kept /\ kept[j].id = ys[j].id
                           /\ (ys[j].status = "pending" => kept[j].status = "pending")
  BY <1>1, <1>2, <1>3
<1>6. \A i \in DOMAIN kept : Approvable(kept[i]) => i \in DOMAIN ys /\ ys[i] = kept[i]
  BY <1>1, <1>2, <1>3
<1>7. \A j \in DOMAIN ys : \E i \in DOMAIN kept :
         kept[i].id = ys[j].id /\ (ys[j].status = "pending" => kept[i].status = "pending")
  BY <1>5
<1>8. \A i \in DOMAIN kept : Approvable(kept[i]) => \E j \in DOMAIN ys : ys[j] = kept[i]
  BY <1>6
<1>9. \A i, j \in DOMAIN ys : ys[i].id = ys[j].id => i = j
  BY <1>2, <1>4
<1>10. Thinned(kept, ys)
  BY <1>2, <1>3, <1>7, <1>8, <1>9 DEF Thinned
<1> QED
  BY <1>10 DEF ys

(* What is removed is decided.                                             *)
LEMMA PruneThins ==
    ASSUME KeptInv, NEW xs, Thinned(kept, xs) PROVE Thinned(kept, Prune(xs))
<1> USE KeptAssumption
<1> DEFINE decided == {i \in DOMAIN xs : xs[i].status # "pending"}
           m == Min(decided)
<1>1. CASE Len(xs) < MaxKept \/ decided = {}
  BY <1>1 DEF Prune
<1>2. CASE ~(Len(xs) < MaxKept) /\ decided # {}
  <2>1. m \in 1 .. Len(xs) /\ xs[m].status # "pending"
    <3>1. decided \in SUBSET Nat
      BY DEF Thinned
    <3>2. m \in decided
      BY <1>2, <3>1, LeastOf
    <3> QED
      BY <3>2 DEF Thinned
  <2> DEFINE ys == RemoveAt(xs, m)
  <2>2. xs \in Seq(Authorization) /\ Len(xs) <= Len(kept)
    BY DEF Thinned
  <2>3. /\ ys \in Seq(Authorization) /\ Len(ys) = Len(xs) - 1
        /\ \A j \in 1 .. Len(xs) - 1 : ys[j] = IF j < m THEN xs[j] ELSE xs[j + 1]
    <3> HIDE DEF m
    <3> DEFINE p == SubSeq(xs, 1, m - 1)
               q == SubSeq(xs, m + 1, Len(xs))
    <3>1. /\ p \in Seq(Authorization) /\ Len(p) = m - 1
          /\ \A k \in 1 .. m - 1 : p[k] = xs[k]
      BY <2>1, <2>2
    <3>2. /\ q \in Seq(Authorization) /\ Len(q) = Len(xs) - m
          /\ \A k \in 1 .. Len(xs) - m : q[k] = xs[m + k]
      BY <2>1, <2>2
    <3>3. ys = p \o q
      BY DEF RemoveAt
    <3> HIDE DEF p, q, ys
    <3>4. ys \in Seq(Authorization) /\ Len(ys) = Len(xs) - 1
      <4>1. ys \in Seq(Authorization) /\ Len(ys) = Len(p) + Len(q)
        <5>1. p \in Seq(Authorization) /\ q \in Seq(Authorization)
          BY <3>1, <3>2
        <5> QED
          BY <5>1, <3>3
      <4> QED
        BY <4>1, <2>1, <3>1, <3>2
    <3>5. ASSUME NEW j \in 1 .. Len(xs) - 1
          PROVE  ys[j] = IF j < m THEN xs[j] ELSE xs[j + 1]
      <4>1. CASE j < m
        BY <4>1, <2>1, <2>2, <3>1, <3>2, <3>3
      <4>2. CASE ~(j < m)
        <5>1. j - m + 1 \in 1 .. Len(xs) - m /\ ys[j] = q[j - m + 1]
          BY <4>2, <2>1, <2>2, <3>1, <3>2, <3>3
        <5>2. q[j - m + 1] = xs[m + (j - m + 1)] /\ m + (j - m + 1) = j + 1
          BY <5>1, <2>1, <3>2
        <5> QED
          BY <5>1, <5>2, <4>2
      <4> QED
        BY <4>1, <4>2
    <3> QED
      BY <3>4, <3>5
  <2>4. \A i \in 1 .. Len(xs) : i # m => \E j \in 1 .. Len(xs) - 1 : ys[j] = xs[i]
    <3> SUFFICES ASSUME NEW i \in 1 .. Len(xs), i # m
                 PROVE  \E j \in 1 .. Len(xs) - 1 : ys[j] = xs[i]
      OBVIOUS
    <3> HIDE DEF m, ys
    <3>1. CASE i < m
      <4>1. i \in 1 .. Len(xs) - 1 /\ ys[i] = xs[i]
        BY <3>1, <2>1, <2>2, <2>3
      <4> QED
        BY <4>1
    <3>2. CASE i > m
      <4>1. i - 1 \in 1 .. Len(xs) - 1 /\ ys[i - 1] = xs[i]
        BY <3>2, <2>1, <2>2, <2>3
      <4> QED
        BY <4>1
    <3> QED
      BY <3>1, <3>2, <2>1, <2>2
  <2>5. Prune(xs) = ys
    BY <1>2 DEF Prune
  <2> HIDE DEF m, ys
  <2>6. ASSUME NEW i \in DOMAIN kept, Approvable(kept[i])
        PROVE  \E j \in DOMAIN ys : ys[j] = kept[i]
    <3>1. PICK k \in DOMAIN xs : xs[k] = kept[i]
      BY <2>6 DEF Thinned
    <3>2. k # m /\ k \in 1 .. Len(xs)
      BY <3>1, <2>1, <2>2, <2>6 DEF Approvable
    <3> QED
      BY <3>1, <3>2, <2>2, <2>3, <2>4
  <2>7. ASSUME NEW j \in DOMAIN ys
        PROVE  \E k \in 1 .. Len(xs) : ys[j] = xs[k] /\ k = IF j < m THEN j ELSE j + 1
    BY <2>1, <2>2, <2>3
  <2>8. Len(ys) <= Len(kept)
    BY <2>2, <2>3 DEF KeptInv
  <2>9. \A i, j \in DOMAIN ys : ys[i].id = ys[j].id => i = j
    <3> SUFFICES ASSUME NEW i \in DOMAIN ys, NEW j \in DOMAIN ys, ys[i].id = ys[j].id
                 PROVE  i = j
      OBVIOUS
    <3>1. PICK k \in 1 .. Len(xs) : ys[i] = xs[k] /\ k = IF i < m THEN i ELSE i + 1
      BY <2>7
    <3>2. PICK l \in 1 .. Len(xs) : ys[j] = xs[l] /\ l = IF j < m THEN j ELSE j + 1
      BY <2>7
    <3>3. k = l
      BY <3>1, <3>2, <2>2 DEF Thinned
    <3>4. i \in 1 .. Len(xs) - 1 /\ j \in 1 .. Len(xs) - 1
      BY <2>2, <2>3
    <3> QED
      BY <3>1, <3>2, <3>3, <3>4, <2>1
  <2>10. ASSUME NEW j \in DOMAIN ys
         PROVE  \E i \in DOMAIN kept :
            kept[i].id = ys[j].id /\ (ys[j].status = "pending" => kept[i].status = "pending")
    <3>1. PICK k \in DOMAIN xs : ys[j] = xs[k]
      BY <2>7, <2>2
    <3> QED
      BY <3>1 DEF Thinned
  <2> QED
    BY <2>3, <2>5, <2>6, <2>8, <2>9, <2>10 DEF Thinned
<1> QED
  BY <1>1, <1>2

LEMMA AuthorizationInitial == AuthorizationInit => AuthorizationInv
BY KeptAssumption DEF AuthorizationInit, AuthorizationInv, KeptInv, OneChance, AuthorizationTypeOK,
    Authorization, Authorizations

LEMMA Shed ==
    ASSUME AuthorizationInv
    PROVE  Thinned(kept, Prune(Expire(kept)))
BY ExpireThins, PruneThins DEF AuthorizationInv

(* What is thinned is kept as well.                                        *)
LEMMA ThinnedKept ==
    ASSUME AuthorizationInv, NEW ys, Thinned(kept, ys)
    PROVE  /\ Len(ys) <= MaxKept
           /\ \A i \in DOMAIN ys : ys[i].status = "pending" =>
                 ys[i].id \notin due /\ executed[ys[i].id] = 0
<1>1. Len(ys) <= MaxKept
  <2>1. Len(ys) <= Len(kept) /\ Len(ys) \in Nat
    BY DEF Thinned
  <2>2. Len(kept) <= MaxKept /\ Len(kept) \in Nat
    BY DEF AuthorizationInv, KeptInv, AuthorizationTypeOK
  <2> QED
    BY <2>1, <2>2, KeptAssumption
<1>2. ASSUME NEW j \in DOMAIN ys, ys[j].status = "pending"
      PROVE  ys[j].id \notin due /\ executed[ys[j].id] = 0
  <2>1. PICK i \in DOMAIN kept : kept[i].id = ys[j].id /\ kept[i].status = "pending"
    BY <1>2 DEF Thinned
  <2> QED
    BY <2>1 DEF AuthorizationInv, OneChance
<1> QED
  BY <1>1, <1>2

LEMMA PrepareKeeps ==
    ASSUME AuthorizationInv, NEW c \in Candidates, Prepare(c) PROVE AuthorizationInv'
<1> DEFINE ys == Prune(Expire(kept))
<1>1. Thinned(kept, ys)
  BY Shed
<1>2. /\ Len(ys) <= MaxKept
      /\ \A i \in DOMAIN ys : ys[i].status = "pending" =>
            ys[i].id \notin due /\ executed[ys[i].id] = 0
  BY <1>1, ThinnedKept
<1>3. /\ prepared < MaxPrepared /\ UNCHANGED <<tick, due, executed>>
      /\ \/ kept' = ys /\ UNCHANGED prepared
         \/ /\ ~Full(ys) /\ prepared' = prepared + 1
            /\ kept' = Append(ys, [id |-> prepared + 1, candidate |-> c,
                                   status |-> "pending", until |-> tick + Lifetime])
  BY DEF Prepare
<1> HIDE DEF ys
<1>4. CASE kept' = ys /\ UNCHANGED prepared
  BY <1>1, <1>2, <1>3, <1>4
     DEF AuthorizationInv, KeptInv, OneChance, Thinned, AuthorizationTypeOK, Authorization
<1>5. CASE kept' # ys \/ prepared' # prepared
  <2> DEFINE new == [id |-> prepared + 1, candidate |-> c, status |-> "pending",
                     until |-> tick + Lifetime]
  <2>1. kept' = Append(ys, new) /\ ~Full(ys) /\ prepared' = prepared + 1
    BY <1>3, <1>5
  <2>2. /\ tick \in 0 .. LastTick /\ prepared \in 0 .. MaxPrepared /\ due \subseteq 1 .. prepared
        /\ executed \in [Authorizations -> {0, 1}]
        /\ \A a \in Authorizations : a \in due \/ a > prepared => executed[a] = 0
    BY DEF AuthorizationInv, KeptInv, OneChance, AuthorizationTypeOK
  <2>3. new \in Authorization' /\ Authorization \subseteq Authorization' /\ new.id = prepared + 1
    BY <2>1, <2>2, KeptAssumption DEF Authorization
  <2>4. ys \in Seq(Authorization') /\ \A i \in 1 .. Len(ys) : ys[i].id \in 1 .. prepared
    <3>1. ys \in Seq(Authorization)
      BY <1>1 DEF Thinned
    <3>2. ys \in Seq(Authorization') /\ \A i \in 1 .. Len(ys) : ys[i] \in Authorization
      BY <2>3, <3>1
    <3> QED
      BY <3>2 DEF Authorization
  <2> HIDE DEF new
  <2>5. /\ kept' \in Seq(Authorization') /\ Len(kept') = Len(ys) + 1
        /\ \A i \in 1 .. Len(ys) : kept'[i] = ys[i]
        /\ kept'[Len(ys) + 1] = new /\ DOMAIN kept' = 1 .. Len(ys) + 1
    BY <2>1, <2>3, <2>4
  <2>6. Len(kept') <= MaxKept
    BY <2>1, <2>4, <2>5, <1>2, KeptAssumption DEF Full
  <2>7. \A i, j \in DOMAIN kept' : kept'[i].id = kept'[j].id => i = j
    <3>1. \A i, j \in 1 .. Len(ys) : ys[i].id = ys[j].id => i = j
      BY <1>1 DEF Thinned
    <3>2. \A i \in 1 .. Len(ys) : kept'[i].id # prepared + 1
      BY <2>4, <2>5, <2>2
    <3>3. \A i \in DOMAIN kept' : i \in 1 .. Len(ys) \/ i = Len(ys) + 1
      BY <2>5, <2>4
    <3> QED
      BY <3>1, <3>2, <3>3, <2>3, <2>5
  <2>8. AuthorizationTypeOK'
    <3>1. \A i \in DOMAIN kept' : kept'[i].id \in 1 .. prepared'
      <4>1. \A i \in DOMAIN kept' : kept'[i] \in Authorization'
        BY <2>5
      <4> QED
        BY <4>1 DEF Authorization
    <3>2. prepared' \in 0 .. MaxPrepared /\ 1 .. prepared \subseteq 1 .. prepared'
      BY <1>3, <2>1, <2>2, KeptAssumption
    <3> QED
      BY <1>3, <2>2, <2>6, <3>1, <3>2 DEF AuthorizationTypeOK
  <2>9. OneChance'
    <3>1. prepared + 1 \notin due /\ prepared + 1 \in Authorizations /\ executed[prepared + 1] = 0
      BY <2>2, <1>3, KeptAssumption DEF Authorizations
    <3>2. \A i \in DOMAIN kept' : kept'[i].status = "pending" =>
            kept'[i].id \notin due /\ executed[kept'[i].id] = 0
      BY <1>2, <2>3, <2>4, <2>5, <3>1
    <3>3. \A a \in Authorizations : a \in due \/ a > prepared + 1 => executed[a] = 0
      BY <2>2 DEF Authorizations
    <3> QED
      BY <1>3, <2>1, <2>2, <3>2, <3>3 DEF OneChance
  <2> QED
    BY <2>5, <2>7, <2>8, <2>9 DEF AuthorizationInv, KeptInv
<1> QED
  BY <1>4, <1>5

LEMMA LookKeeps ==
    ASSUME AuthorizationInv, Look PROVE AuthorizationInv'
<1> DEFINE ys == Prune(Expire(kept))
<1>1. Thinned(kept, ys)
  BY Shed
<1>2. kept' = ys /\ UNCHANGED <<tick, prepared, due, executed>>
  BY DEF Look
<1> HIDE DEF ys
<1>3. /\ Len(ys) <= MaxKept
      /\ \A i \in DOMAIN ys : ys[i].status = "pending" =>
            ys[i].id \notin due /\ executed[ys[i].id] = 0
  BY <1>1, ThinnedKept
<1> QED
  BY <1>1, <1>2, <1>3
     DEF AuthorizationInv, KeptInv, OneChance, Thinned, AuthorizationTypeOK, Authorization

LEMMA DecideKeeps ==
    ASSUME AuthorizationInv, NEW k \in DOMAIN kept, NEW v \in {"approved", "rejected"},
           Decide(kept[k], v)
    PROVE  AuthorizationInv'
<1> DEFINE a == kept[k]
           b == [a EXCEPT !.status = Consumed(a, v)]
<1>1. /\ kept \in Seq(Authorization) /\ DOMAIN kept = 1 .. Len(kept) /\ a \in Authorization
      /\ \A i, j \in DOMAIN kept : kept[i].id = kept[j].id => i = j
  BY DEF AuthorizationInv, KeptInv
<1>2. b \in Authorization /\ b.id = a.id /\ b.status # "pending"
  BY <1>1 DEF Authorization, Consumed
<1>3. /\ a.status = "pending" /\ UNCHANGED <<tick, prepared, executed>>
      /\ kept' = [i \in 1 .. Len(kept) |-> IF kept[i] = a THEN b ELSE kept[i]]
      /\ due' = due \/ due' = due \cup {a.id}
  BY DEF Decide, ReplaceAll
<1>4. \A i \in 1 .. Len(kept) : kept[i] = a <=> i = k
  BY <1>1
<1> HIDE DEF a, b
<1>5. /\ kept' \in Seq(Authorization) /\ Len(kept') = Len(kept) /\ DOMAIN kept' = 1 .. Len(kept)
      /\ \A i \in 1 .. Len(kept) : kept'[i] = IF i = k THEN b ELSE kept[i]
  <2>1. kept' \in [1 .. Len(kept) -> Authorization] /\ Len(kept) \in Nat
    BY <1>1, <1>2, <1>3
  <2> QED
    BY <1>3, <1>4, <2>1
<1>6. \A i \in 1 .. Len(kept) : kept'[i].id = kept[i].id
  BY <1>2, <1>5 DEF a
<1>7. KeptInv'
  <2>1. Authorization' = Authorization
    BY <1>3 DEF Authorization
  <2>2. a.id \in 1 .. prepared
    BY <1>1 DEF Authorization
  <2>3. AuthorizationTypeOK'
    <3>1. AuthorizationTypeOK
      BY DEF AuthorizationInv, KeptInv
    <3>2. /\ tick' \in 0 .. LastTick /\ prepared' \in 0 .. MaxPrepared
          /\ due' \subseteq 1 .. prepared' /\ Len(kept') <= MaxKept
      BY <1>3, <1>5, <2>2, <3>1 DEF AuthorizationTypeOK
    <3>3. ASSUME NEW i \in DOMAIN kept' PROVE kept'[i].id \in 1 .. prepared'
      <4>1. i \in DOMAIN kept /\ kept'[i].id = kept[i].id
        BY <1>1, <1>5, <1>6
      <4> QED
        BY <1>3, <3>1, <4>1 DEF AuthorizationTypeOK
    <3> QED
      BY <3>2, <3>3 DEF AuthorizationTypeOK
  <2>4. kept' \in Seq(Authorization)'
    BY <1>5, <2>1
  <2>5. \A i, j \in DOMAIN kept' : kept'[i].id = kept'[j].id => i = j
    BY <1>1, <1>5, <1>6
  <2> QED
    BY <2>3, <2>4, <2>5 DEF KeptInv
<1>8. OneChance'
  <2>1. executed[a.id] = 0 /\ a.id \notin due
    BY <1>1, <1>3 DEF AuthorizationInv, OneChance, a
  <2>2. \A i \in 1 .. Len(kept) : i # k => kept[i].id # a.id
    BY <1>1 DEF a
  <2>3. ASSUME NEW i \in DOMAIN kept', kept'[i].status = "pending"
        PROVE  kept'[i].id \notin due' /\ executed[kept'[i].id] = 0
    <3>1. i \in 1 .. Len(kept) /\ i # k /\ kept'[i] = kept[i]
      BY <1>2, <1>5, <2>3
    <3> QED
      BY <1>1, <1>3, <2>2, <2>3, <3>1 DEF AuthorizationInv, OneChance
  <2> QED
    BY <1>3, <2>1, <2>3 DEF AuthorizationInv, OneChance
<1> QED
  BY <1>7, <1>8 DEF AuthorizationInv

LEMMA ExecuteKeeps ==
    ASSUME AuthorizationInv, NEW a \in due, ExecuteApproved(a) PROVE AuthorizationInv'
<1>1. KeptInv'
  BY DEF AuthorizationInv, KeptInv, AuthorizationTypeOK, Authorization, ExecuteApproved
<1>2. /\ a \in Authorizations /\ a <= prepared /\ prepared \in Nat /\ executed[a] = 0
      /\ due' = due \ {a} /\ executed' = [executed EXCEPT ![a] = 1]
      /\ UNCHANGED <<prepared, kept>>
  <2>1. due \subseteq 1 .. prepared /\ prepared \in 0 .. MaxPrepared
    BY DEF AuthorizationInv, KeptInv, AuthorizationTypeOK
  <2>2. a \in Authorizations /\ a <= prepared /\ prepared \in Nat
    BY <2>1, KeptAssumption DEF Authorizations
  <2>3. executed[a] = 0
    BY <2>2 DEF AuthorizationInv, OneChance
  <2> QED
    BY <2>2, <2>3 DEF ExecuteApproved
<1>3. \A i \in DOMAIN kept : kept[i].status = "pending" => kept[i].id # a
  BY DEF AuthorizationInv, OneChance
<1>4. /\ executed' \in [Authorizations -> {0, 1}]
      /\ \A b \in Authorizations : b \in due' \/ b > prepared => executed'[b] = 0
      /\ \A i \in DOMAIN kept : kept[i].status = "pending" =>
            kept[i].id \notin due' /\ executed'[kept[i].id] = 0
  <2>1. /\ executed' \in [Authorizations -> {0, 1}]
        /\ \A b \in Authorizations : b \in due' \/ b > prepared => executed'[b] = 0
    BY <1>2 DEF AuthorizationInv, OneChance, Authorizations
  <2>2. \A i \in DOMAIN kept : kept[i].id \in Authorizations
    BY <1>2, KeptAssumption DEF AuthorizationInv, KeptInv, AuthorizationTypeOK, Authorizations
  <2> QED
    BY <1>2, <1>3, <2>1, <2>2 DEF AuthorizationInv, OneChance
<1> QED
  BY <1>1, <1>2, <1>4 DEF AuthorizationInv, OneChance

LEMMA AuthorizationStep ==
    AuthorizationInv /\ [AuthorizationNext]_authorizationVars => AuthorizationInv'
<1> SUFFICES ASSUME AuthorizationInv, [AuthorizationNext]_authorizationVars
             PROVE  AuthorizationInv'
  OBVIOUS
<1> USE DEF AuthorizationInv, KeptInv, OneChance, AuthorizationTypeOK, Authorization
<1>1. CASE Forget
  BY <1>1, KeptAssumption DEF Forget
<1>2. CASE Tick
  BY <1>2, KeptAssumption DEF Tick
<1>3. CASE UNCHANGED authorizationVars
  BY <1>3 DEF authorizationVars
<1> QED
  BY <1>1, <1>2, <1>3, PrepareKeeps, DecideKeeps, ExecuteKeeps, LookKeeps DEF AuthorizationNext

(* What is kept, due and executed stays in its type: the capacity holds.   *)
THEOREM AuthorizationsTyped == AuthorizationSpec => []AuthorizationTypeOK
<1>1. AuthorizationInv => AuthorizationTypeOK
  BY DEF AuthorizationInv, KeptInv
<1> QED
  BY <1>1, AuthorizationInitial, AuthorizationStep, PTL DEF AuthorizationSpec

(* ExecutedOnce, whatever the capacity, the lifetime and the decisions.    *)
THEOREM ExecutesOnce == AuthorizationSpec => []ExecutedOnce
<1>1. AuthorizationInv => ExecutedOnce
  BY DEF AuthorizationInv, OneChance, ExecutedOnce
<1> QED
  BY <1>1, AuthorizationInitial, AuthorizationStep, PTL DEF AuthorizationSpec

(* PendingSurvives: neither the capacity nor a decision on another takes   *)
(* away what can still be approved.                                        *)
THEOREM PendingStays == AuthorizationSpec => PendingSurvives
<1> DEFINE Survives == kept' # <<>> => \A i \in DOMAIN kept : Approvable(kept[i])
                          => \E j \in DOMAIN kept' : kept'[j].id = kept[i].id
<1>1. AuthorizationInv /\ [AuthorizationNext]_authorizationVars => [Survives]_authorizationVars
  <2> SUFFICES ASSUME AuthorizationInv, AuthorizationNext, kept' # <<>>,
                      NEW i \in DOMAIN kept, Approvable(kept[i])
               PROVE  \E j \in DOMAIN kept' : kept'[j].id = kept[i].id
    BY Zenon
  <2> DEFINE ys == Prune(Expire(kept))
  <2>1. \E j \in DOMAIN ys : ys[j] = kept[i]
    BY Shed DEF Thinned
  <2>2. ys \in Seq(Authorization) /\ kept \in Seq(Authorization)
    BY Shed DEF Thinned, AuthorizationInv, KeptInv
  <2>3. ASSUME NEW c \in Candidates, Prepare(c)
        PROVE  \E j \in DOMAIN kept' : kept'[j].id = kept[i].id
    <3>1. kept' = ys \/ \E x : kept' = Append(ys, x)
      BY <2>3 DEF Prepare
    <3> HIDE DEF ys
    <3>2. ASSUME NEW x, kept' = Append(ys, x)
          PROVE  \A j \in DOMAIN ys : j \in DOMAIN kept' /\ kept'[j] = ys[j]
      BY <2>2, <3>2
    <3> QED
      BY <2>1, <3>1, <3>2
  <2>4. ASSUME NEW k \in DOMAIN kept, NEW v \in {"approved", "rejected"}, Decide(kept[k], v)
        PROVE  \E j \in DOMAIN kept' : kept'[j].id = kept[i].id
    <3>1. i \in 1 .. Len(kept)
      BY <2>2
    <3>2. DOMAIN kept' = 1 .. Len(kept) /\ kept'[i].id = kept[i].id
      BY <2>2, <2>4, <3>1 DEF Decide, ReplaceAll, Authorization
    <3> QED
      BY <3>1, <3>2
  <2>5. CASE Look
    BY <2>1, <2>5 DEF Look
  <2>6. CASE \/ Forget \/ Tick \/ \E a \in due : ExecuteApproved(a)
    BY <2>6 DEF Forget, Tick, ExecuteApproved
  <2> QED
    BY <2>3, <2>4, <2>5, <2>6 DEF AuthorizationNext
<1> QED
  BY <1>1, AuthorizationInitial, AuthorizationStep, PTL DEF AuthorizationSpec, PendingSurvives

-----------------------------------------------------------------------------
(***************************************************************************)
(* DiscoveryCycle                                                          *)
(***************************************************************************)

Setup == [status : {"stalking", "triggered", "expired", "invalidated", "consumed"},
          bar : 0 .. MaxBars, last : Candles, confirmed : BOOLEAN]

(* A setup that is observed has a bar left.                                *)
Sound(r) == r = Unset \/ (r \in Setup /\ (r.status = "stalking" => r.bar < MaxBars))

IdleCycle  == [at : {"idle"}, ended : {"completed", "failed", "unsafe"}]
ScanningCycle == [at : {"scanning"}, candle : Candles, found : SUBSET Markets,
             left : SUBSET Markets]
TakingCycle  == [at : {"taking"}, candle : Candles, signals : SUBSET Markets]
EnteringCycle == [at : {"entering"}, candle : Candles, symbol : Markets, signals : SUBSET Markets]

Shapes ==
    /\ stalked \in BOOLEAN /\ paused \in BOOLEAN /\ candle \in Candles
    /\ offset \in 0 .. Len(Universe) - 1 /\ opened \in 0 .. MaxPositions
    /\ setups \in [Markets -> Setup \cup {Unset}] /\ \A s \in Markets : Sound(setups[s])
    /\ cycle \in IdleCycle \cup ScanningCycle \cup TakingCycle \cup EnteringCycle
    /\ claims \subseteq Markets \X Candles /\ swept \subseteq Markets

(* While the stalking is paused there is no setup.                         *)
Hushed == paused => \A s \in Markets : setups[s] = Unset

(* What the scan is done with was swept.                                   *)
Sweeping == cycle.at = "scanning" => Batch \ cycle.left \subseteq swept

(* What was never claimed was never attempted.                             *)
Attempts ==
    /\ attempted \in [Markets \X Candles -> Nat]
    /\ \A o \in Markets \X Candles : attempted[o] <= 1 /\ (o \notin claims => attempted[o] = 0)

CycleInv == Shapes /\ Hushed /\ Sweeping /\ Attempts

-----------------------------------------------------------------------------
LEMMA LesserOf ==
    ASSUME NEW i \in Int, NEW j \in Int PROVE Min({i, j}) = IF i <= j THEN i ELSE j
<1> DEFINE m == IF i <= j THEN i ELSE j
<1>1. m \in {i, j} /\ \A y \in {i, j} : m =< y
  OBVIOUS
<1>2. \A x \in {i, j} : (\A y \in {i, j} : x =< y) => x = m
  OBVIOUS
<1> HIDE DEF m
<1>3. Min({i, j}) = m
  BY <1>1, <1>2 DEF Min
<1> QED
  BY <1>3 DEF m

LEMMA BatchOfMarkets == ASSUME offset \in 0 .. Len(Universe) - 1 PROVE Batch \subseteq Markets
<1>1. Len(Universe) \in Nat /\ DOMAIN Universe = 1 .. Len(Universe) /\ BatchSize \in Nat
  BY UniverseAssumption
<1>2. Min({offset + BatchSize, Len(Universe)}) <= Len(Universe)
      /\ Min({offset + BatchSize, Len(Universe)}) \in Int
  BY <1>1, LesserOf
<1> HIDE DEF Min
<1>3. (offset + 1) .. Min({offset + BatchSize, Len(Universe)}) \subseteq 1 .. Len(Universe)
  BY <1>1, <1>2
<1> QED
  BY <1>1, <1>3 DEF Batch, Markets, ToSet

LEMMA AdvancedSound ==
    ASSUME NEW r \in Setup, r.bar < MaxBars, NEW k \in Candles, NEW q \in Advanced(r, k)
    PROVE  Sound(q) /\ q # Unset /\ q.last = k /\ q.bar = r.bar + 1
<1>1. Observed(r, k) \in Setup /\ Observed(r, k).last = k /\ Observed(r, k).bar = r.bar + 1
  <2>1. r.bar + 1 \in 0 .. MaxBars
    BY UniverseAssumption DEF Setup
  <2> DEFINE b == r.bar + 1
  <2>2. Observed(r, k) = [r EXCEPT !.bar = b, !.last = k]
    BY DEF Observed
  <2>3. b \in 0 .. MaxBars
    BY <2>1
  <2> HIDE DEF b
  <2>4. [r EXCEPT !.bar = b, !.last = k] \in Setup
    BY <2>3 DEF Setup
  <2>5. [r EXCEPT !.bar = b, !.last = k].last = k /\ [r EXCEPT !.bar = b, !.last = k].bar = b
    BY DEF Setup
  <2> QED
    BY <2>2, <2>4, <2>5 DEF b
<1>2. ASSUME NEW p \in Setup, p.last = k, p.bar = r.bar + 1
      PROVE  /\ Sound(Window(p)) /\ Window(p) \in Setup /\ Window(p).last = k
             /\ Window(p).bar = r.bar + 1
             /\ \A st \in {"invalidated", "triggered"} :
                  /\ Sound([p EXCEPT !.status = st]) /\ [p EXCEPT !.status = st] \in Setup
                  /\ [p EXCEPT !.status = st].last = k
                  /\ [p EXCEPT !.status = st].bar = r.bar + 1
             /\ [p EXCEPT !.confirmed = TRUE] \in Setup
             /\ [p EXCEPT !.confirmed = TRUE].last = k
             /\ [p EXCEPT !.confirmed = TRUE].bar = r.bar + 1
  <2>1. /\ [p EXCEPT !.confirmed = TRUE] \in Setup
        /\ [p EXCEPT !.confirmed = TRUE].last = k
        /\ [p EXCEPT !.confirmed = TRUE].bar = r.bar + 1
    BY <1>2 DEF Setup
  <2>2. ASSUME NEW st \in {"invalidated", "triggered", "expired"}
        PROVE  /\ Sound([p EXCEPT !.status = st]) /\ [p EXCEPT !.status = st] \in Setup
               /\ [p EXCEPT !.status = st].last = k
               /\ [p EXCEPT !.status = st].bar = r.bar + 1
    BY <1>2, <2>2 DEF Setup, Sound
  <2>3. p.bar \in 0 .. MaxBars /\ (~(p.bar >= MaxBars) => Sound(p))
    BY UniverseAssumption DEF Setup, Sound
  <2> QED
    BY <1>2, <2>1, <2>2, <2>3 DEF Window
<1> DEFINE next == Observed(r, k)
<1>3. \/ q = [next EXCEPT !.status = "invalidated"]
      \/ q = [next EXCEPT !.status = "triggered"]
      \/ q = Window(next) \/ q = Window([next EXCEPT !.confirmed = TRUE])
  BY DEF Advanced
<1> HIDE DEF next
<1>4. Sound(q) /\ q \in Setup /\ q.last = k /\ q.bar = r.bar + 1
  BY <1>1, <1>2, <1>3 DEF next
<1>5. Unset \notin Setup
  BY DEF Unset, Setup
<1> QED
  BY <1>4, <1>5

(* What the strategy makes of a setup: an observed one goes on by a bar.   *)
LEMMA EvaluatedSound ==
    ASSUME Shapes, NEW s \in Markets, NEW k \in Candles, NEW q \in Evaluated(s, k)
    PROVE  /\ Sound(q)
           /\ setups[s].status = "stalking" /\ q # setups[s] =>
                 q.last > setups[s].last /\ q.bar = setups[s].bar + 1
<1>1. Sound(setups[s]) /\ (setups[s] # Unset => setups[s] \in Setup)
  BY DEF Shapes
<1>2. CASE q = setups[s]
  BY <1>1, <1>2
<1>3. CASE q # setups[s] /\ setups[s].status = "stalking"
  <2>1. setups[s] # Unset
    BY <1>3 DEF Unset
  <2>2. q \in Advanced(setups[s], k) /\ ~(k <= setups[s].last)
    BY <1>3, <2>1 DEF Evaluated
  <2>3. setups[s] \in Setup /\ setups[s].bar < MaxBars
    BY <1>1, <1>3, <2>1 DEF Sound
  <2>4. setups[s].last \in Nat /\ k \in Nat
    BY <2>3, UniverseAssumption DEF Setup, Candles
  <2> QED
    BY <2>2, <2>3, <2>4, AdvancedSound
<1>4. CASE q # setups[s] /\ setups[s].status # "stalking"
  <2>1. q \in [status : {"stalking"}, bar : {0}, last : {k}, confirmed : BOOLEAN]
    BY <1>4 DEF Evaluated, Registered
  <2>2. q \in Setup /\ q.bar < MaxBars
    BY <2>1, UniverseAssumption DEF Setup
  <2> QED
    BY <1>4, <2>2 DEF Sound
<1> QED
  BY <1>2, <1>3, <1>4

-----------------------------------------------------------------------------
LEMMA CycleInitial == CycleInit => CycleInv
<1> SUFFICES ASSUME CycleInit PROVE CycleInv
  OBVIOUS
<1>1. Len(Universe) \in Nat /\ Len(Universe) >= 1
  BY UniverseAssumption
<1>2. setups \in [Markets -> Setup \cup {Unset}] /\ \A s \in Markets : Sound(setups[s])
  BY DEF CycleInit, Sound
<1>3. cycle \in IdleCycle /\ cycle.at = "idle"
  BY DEF CycleInit, IdleCycle, Between
<1>4. Shapes
  <2>1. 0 \in 0 .. Len(Universe) - 1 /\ 0 \in 0 .. MaxPositions /\ 0 \in Candles
    BY <1>1, UniverseAssumption DEF Candles
  <2> QED
    BY <1>2, <1>3, <2>1 DEF CycleInit, Shapes
<1>5. Attempts
  BY DEF CycleInit, Attempts
<1> QED
  BY <1>3, <1>4, <1>5 DEF CycleInv, Sweeping, Hushed, CycleInit

(* The setups that an event of the cycle leaves are sound.                 *)
LEMMA SetupsChange ==
    ASSUME Shapes, NEW s \in Markets
    PROVE  /\ Invalidated(s) \in [Markets -> Setup \cup {Unset}]
           /\ \A m \in Markets : Sound(Invalidated(s)[m])
           /\ \A q \in Setup \cup {Unset} : Sound(q) =>
                /\ [setups EXCEPT ![s] = q] \in [Markets -> Setup \cup {Unset}]
                /\ \A m \in Markets : Sound([setups EXCEPT ![s] = q][m])
           /\ LET gone == IF setups[s] = Unset THEN Unset
                          ELSE [setups[s] EXCEPT !.status = "consumed"]
              IN  gone \in Setup \cup {Unset} /\ Sound(gone) /\ gone.status # "triggered"
           /\ Invalidated(s)[s].status # "triggered"
<1>1. setups[s] = Unset \/ setups[s] \in Setup
  BY DEF Shapes
<1>2. ASSUME NEW st \in {"invalidated", "consumed"}, setups[s] # Unset
      PROVE  /\ [setups[s] EXCEPT !.status = st] \in Setup
             /\ Sound([setups[s] EXCEPT !.status = st])
             /\ [setups[s] EXCEPT !.status = st].status = st
  BY <1>1, <1>2 DEF Setup, Sound
<1>3. ASSUME NEW q \in Setup \cup {Unset}, Sound(q)
      PROVE  /\ [setups EXCEPT ![s] = q] \in [Markets -> Setup \cup {Unset}]
             /\ \A m \in Markets : Sound([setups EXCEPT ![s] = q][m])
             /\ [setups EXCEPT ![s] = q][s] = q
  BY <1>3 DEF Shapes
<1>4. Unset \in Setup \cup {Unset} /\ Sound(Unset) /\ Unset.status = "none"
  BY DEF Sound, Unset
<1>5. PICK q \in Setup \cup {Unset} :
        /\ Sound(q) /\ q.status # "triggered" /\ Invalidated(s) = [setups EXCEPT ![s] = q]
  <2>1. Invalidated(s) = [setups EXCEPT ![s] = IF setups[s] = Unset THEN setups[s]
                                 ELSE [setups[s] EXCEPT !.status = "invalidated"]]
    BY DEF Invalidated
  <2> QED
    BY <1>2, <1>4, <2>1
<1> QED
  BY <1>2, <1>3, <1>4, <1>5

(* The setups are as Shapes says.                                          *)
SetupsSound == setups \in [Markets -> Setup \cup {Unset}] /\ \A s \in Markets : Sound(setups[s])

LEMMA PauseSound ==
    ASSUME Shapes, NEW p \in BOOLEAN, SetPaused(p) PROVE paused' \in BOOLEAN /\ SetupsSound'
<1>1. Sound(Unset) /\ [s \in Markets |-> Unset] \in [Markets -> Setup \cup {Unset}]
  BY DEF Sound
<1> QED
  BY <1>1 DEF SetPaused, Shapes, SetupsSound, Sound, Setup, Candles

LEMMA EndsIdle ==
    \A how \in {"completed", "failed", "unsafe"} :
       Between(how) \in IdleCycle /\ Between(how).at = "idle"
BY DEF Between, IdleCycle

(* The parts of the cycle, by where it is.                                 *)
LEMMA CycleParts ==
    ASSUME Shapes
    PROVE  /\ cycle.at = "scanning" => cycle \in ScanningCycle
           /\ cycle.at = "taking" => cycle \in TakingCycle
           /\ cycle.at = "entering" => cycle \in EnteringCycle
BY DEF Shapes, IdleCycle, ScanningCycle, TakingCycle, EnteringCycle

LEMMA BeginsSound ==
    ASSUME CycleInv, CycleBegins
    PROVE  /\ SetupsSound' /\ paused' \in BOOLEAN
           /\ cycle' \in IdleCycle \cup ScanningCycle
           /\ cycle'.at = "scanning" => cycle'.left = Batch \cup With("stalking")
<1>1. SetupsSound' /\ paused' \in BOOLEAN
  <2>1. SetPaused(opened >= MaxPositions)
    BY DEF CycleBegins
  <2>2. (opened >= MaxPositions) \in BOOLEAN
    OBVIOUS
  <2> QED
    BY <2>1, <2>2, PauseSound, Zenon DEF CycleInv
<1>2. CASE opened >= MaxPositions
  BY <1>1, <1>2, EndsIdle DEF CycleBegins
<1>3. CASE ~(opened >= MaxPositions)
  <2>1. Batch \subseteq Markets /\ With("stalking") \subseteq Markets /\ candle \in Candles
    BY BatchOfMarkets DEF CycleInv, Shapes, With
  <2> DEFINE stalks == With("stalking")
             batch  == Batch
  <2>2. cycle' = [at |-> "scanning", candle |-> candle, found |-> {},
                  left |-> batch \cup stalks]
    BY <1>3 DEF CycleBegins
  <2>3. batch \subseteq Markets /\ stalks \subseteq Markets
    BY <2>1
  <2> HIDE DEF batch, stalks
  <2>4. cycle' \in ScanningCycle /\ cycle'.left = batch \cup stalks
    BY <2>1, <2>2, <2>3 DEF ScanningCycle
  <2> QED
    BY <1>1, <2>4 DEF batch, stalks
<1> QED
  BY <1>2, <1>3

LEMMA EvaluateSound ==
    ASSUME CycleInv, NEW s \in Markets, Evaluate(s)
    PROVE  /\ SetupsSound' /\ cycle' \in ScanningCycle /\ cycle'.left = cycle.left \ {s}
           /\ cycle.at = "scanning" /\ swept' = swept \cup {s}
           /\ \A m \in Markets : m # s => setups'[m] = setups[m]
           /\ setups[s].status = "stalking" /\ setups'[s] # setups[s]
              /\ setups'[s].status \in {"stalking", "triggered", "expired"}
              => setups'[s].last > setups[s].last /\ setups'[s].bar = setups[s].bar + 1
<1>1. cycle \in ScanningCycle /\ cycle.candle \in Candles
  BY CycleParts DEF CycleInv, Evaluate, ScanningCycle
<1>2. PICK r \in IF stalked THEN Evaluated(s, cycle.candle) ELSE {Unset}, passes \in BOOLEAN :
         LET signal == ~stalked \/ (r.status = "triggered" /\ r # setups[s])
         IN  /\ setups' = [setups EXCEPT ![s] = IF stalked /\ signal /\ ~passes
                                                THEN [r EXCEPT !.status = "invalidated"] ELSE r]
             /\ cycle' = [cycle EXCEPT !.left = Scanned(s),
                                       !.found = IF signal /\ passes THEN @ \cup {s} ELSE @]
  BY DEF Evaluate
<1>3. /\ Sound(r)
      /\ setups[s].status = "stalking" /\ r # setups[s] /\ stalked =>
            r.last > setups[s].last /\ r.bar = setups[s].bar + 1
      /\ ~stalked => r = Unset
  <2>1. CASE stalked
    BY <1>1, <2>1, EvaluatedSound DEF CycleInv
  <2>2. CASE ~stalked
    BY <2>2 DEF Sound
  <2> QED
    BY <2>1, <2>2
<1>4. PICK q : /\ setups' = [setups EXCEPT ![s] = q] /\ Sound(q)
               /\ q = r \/ q.status = "invalidated"
  <2>1. r.status = "triggered" => r \in Setup
    BY <1>3 DEF Sound, Unset
  <2>2. r.status = "triggered" => /\ Sound([r EXCEPT !.status = "invalidated"])
                                  /\ [r EXCEPT !.status = "invalidated"].status = "invalidated"
    BY <2>1 DEF Sound, Setup
  <2> QED
    BY <1>2, <1>3, <2>2
<1>5. q \in Setup \cup {Unset}
  BY <1>4 DEF Sound
<1>6. SetupsSound' /\ setups'[s] = q /\ \A m \in Markets : m # s => setups'[m] = setups[m]
  BY <1>4, <1>5, SetupsChange DEF CycleInv, Shapes, SetupsSound
<1>7. cycle' \in ScanningCycle /\ cycle'.left = cycle.left \ {s}
  <2>1. \/ cycle' = [cycle EXCEPT !.left = cycle.left \ {s}, !.found = cycle.found \cup {s}]
        \/ cycle' = [cycle EXCEPT !.left = cycle.left \ {s}, !.found = cycle.found]
    BY <1>2 DEF Scanned
  <2>2. PICK found \in SUBSET Markets :
          cycle' = [cycle EXCEPT !.left = cycle.left \ {s}, !.found = found]
    <3>1. cycle.found \cup {s} \in SUBSET Markets /\ cycle.found \in SUBSET Markets
      BY <1>1 DEF ScanningCycle
    <3> QED
      BY <2>1, <3>1
  <2>3. cycle.left \ {s} \in SUBSET Markets
    BY <1>1 DEF ScanningCycle
  <2> QED
    BY <1>1, <2>2, <2>3 DEF ScanningCycle
<1>8. Unset.status \notin {"stalking", "triggered", "expired"}
  BY DEF Unset
<1> QED
  BY <1>3, <1>4, <1>6, <1>7, <1>8 DEF Evaluate

LEMMA ClaimSound ==
    ASSUME CycleInv, NEW s \in Markets, Claim(s)
    PROVE  /\ cycle' \in TakingCycle \cup EnteringCycle /\ claims' \subseteq Markets \X Candles
           /\ Attempts'
<1>1. cycle \in TakingCycle /\ cycle.candle \in Candles /\ s \in cycle.signals
      /\ cycle.signals \subseteq Markets
  BY CycleParts DEF CycleInv, Claim, TakingCycle
<1> DEFINE o == Opportunity(s)
<1>2. o \in Markets \X Candles
  BY <1>1 DEF Opportunity
<1>3. /\ claims' = claims \cup {o}
      /\ attempted' = IF o \notin claims THEN [attempted EXCEPT ![o] = attempted[o] + 1]
                      ELSE attempted
  BY DEF Claim, Claimed
<1> HIDE DEF o
<1>4. Attempts'
  BY <1>2, <1>3 DEF CycleInv, Attempts
<1>5. cycle' \in TakingCycle \cup EnteringCycle
  BY <1>1 DEF Claim, TakingCycle, EnteringCycle
<1>6. claims' \subseteq Markets \X Candles
  BY <1>2, <1>3 DEF CycleInv, Shapes
<1> QED
  BY <1>4, <1>5, <1>6

LEMMA RankSound ==
    ASSUME CycleInv, Rank
    PROVE  /\ cycle' \in TakingCycle /\ offset' \in 0 .. Len(Universe) - 1 /\ swept' \subseteq Markets
           /\ Batch \subseteq swept
<1>1. cycle \in ScanningCycle /\ cycle.candle \in Candles /\ cycle.found \subseteq Markets
      /\ cycle.left = {}
  BY CycleParts DEF CycleInv, Rank, MayRank, ScanningCycle
<1>2. PICK best \in kSubset(Min({TopN, Cardinality(cycle.found)}), cycle.found) :
          cycle' = [at |-> "taking", candle |-> cycle.candle, signals |-> best]
  BY DEF Rank
<1>3. best \subseteq Markets
  BY <1>1, <1>2 DEF kSubset
<1>4. cycle' \in TakingCycle
  BY <1>1, <1>2, <1>3 DEF TakingCycle
<1>5. offset' \in 0 .. Len(Universe) - 1
  <2>1. Len(Universe) \in Nat /\ Len(Universe) >= 1 /\ BatchSize \in Nat /\ offset \in Nat
    BY UniverseAssumption DEF CycleInv, Shapes
  <2> QED
    BY <2>1 DEF Rank, Completed
<1>6. swept' \subseteq Markets
  BY DEF Rank, CycleInv, Shapes
<1>7. Batch \subseteq swept
  BY <1>1 DEF Rank, MayRank, CycleInv, Sweeping
<1> QED
  BY <1>4, <1>5, <1>6, <1>7

LEMMA TakingType == ASSUME cycle \in EnteringCycle PROVE Taking \in TakingCycle
BY DEF Taking, EnteringCycle, TakingCycle

(* What the entry leaves of its setup, and where the cycle goes on.        *)
LEMMA EntrySound ==
    ASSUME CycleInv, EntryRefused \/ EntryExecuted
    PROVE  /\ SetupsSound' /\ paused' \in BOOLEAN /\ opened' \in 0 .. MaxPositions
           /\ cycle' \in IdleCycle \cup TakingCycle /\ cycle \in EnteringCycle
           /\ setups'[cycle.symbol].status # "triggered"
<1>1. cycle \in EnteringCycle /\ cycle.symbol \in Markets
  BY CycleParts DEF CycleInv, EntryRefused, EntryExecuted, EnteringCycle
<1> DEFINE s == cycle.symbol
<1>2. Shapes /\ paused \in BOOLEAN /\ opened \in 0 .. MaxPositions /\ MaxPositions \in Nat
  BY UniverseAssumption DEF CycleInv, Shapes
<1>3. CASE EntryRefused
  <2>1. setups' = Invalidated(s) /\ UNCHANGED <<paused, opened>>
        /\ cycle' \in {Taking, Between("completed"), Between("unsafe")}
    BY <1>3 DEF EntryRefused, Refused
  <2>2. SetupsSound' /\ setups'[s].status # "triggered"
    BY <1>1, <1>2, <2>1, SetupsChange DEF SetupsSound
  <2> QED
    BY <1>1, <1>2, <2>1, <2>2, EndsIdle, TakingType
<1>4. CASE EntryExecuted
  <2>1. opened' \in 0 .. MaxPositions /\ cycle' \in {Taking, Between("completed"), Between("unsafe")}
    <3>1. opened' \in 0 .. MaxPositions
      BY <1>2, <1>4 DEF EntryExecuted
    <3>2. cycle' \in {Taking, Between("completed"), Between("unsafe")}
      BY <1>4, Zenon DEF EntryExecuted
    <3> QED
      BY <3>1, <3>2
  <2>2. CASE setups' = EntryConsumed /\ UNCHANGED paused
    <3>1. PICK q \in Setup \cup {Unset} : /\ Sound(q) /\ q.status # "triggered"
                                         /\ setups' = [setups EXCEPT ![s] = q]
      BY <1>1, <1>2, <2>2, SetupsChange DEF EntryConsumed
    <3>2. SetupsSound' /\ setups'[s] = q
      BY <1>1, <1>2, <3>1, SetupsChange DEF SetupsSound, Shapes
    <3> QED
      BY <1>1, <1>2, <2>1, <2>2, <3>1, <3>2, EndsIdle, TakingType
  <2>3. CASE SetPaused(TRUE)
    <3>1. SetupsSound' /\ paused' \in BOOLEAN
      BY <1>2, <2>3, PauseSound
    <3>2. setups'[s] = Unset
      BY <1>1, <2>3 DEF SetPaused, CycleInv, Hushed
    <3> QED
      BY <1>1, <2>1, <3>1, <3>2, EndsIdle, TakingType DEF Unset
  <2> QED
    BY <1>4, <2>2, <2>3 DEF EntryExecuted
<1> QED
  BY <1>3, <1>4

-----------------------------------------------------------------------------
LEMMA HushedStep == ASSUME CycleInv, [CycleNext]_cycleVars PROVE Hushed'
<1>1. Shapes /\ Hushed
  BY DEF CycleInv
<1>2. ASSUME NEW s \in Markets, Evaluate(s) PROVE Hushed'
  <2>1. PICK r \in IF stalked THEN Evaluated(s, cycle.candle) ELSE {Unset}, passes \in BOOLEAN :
          setups' = [setups EXCEPT ![s] =
             IF stalked /\ (~stalked \/ (r.status = "triggered" /\ r # setups[s])) /\ ~passes
             THEN [r EXCEPT !.status = "invalidated"] ELSE r]
    BY <1>2 DEF Evaluate
  <2>2. paused => r = Unset /\ setups[s] = Unset
    BY <1>1, <2>1 DEF Evaluated, Hushed
  <2>3. paused => setups' = [setups EXCEPT ![s] = Unset]
    BY <2>1, <2>2
  <2>4. UNCHANGED paused
    BY <1>2 DEF Evaluate
  <2> QED
    BY <1>1, <2>3, <2>4 DEF Hushed, Shapes
<1>3. ASSUME NEW p \in BOOLEAN, SetPaused(p) PROVE Hushed'
  BY <1>1, <1>3 DEF SetPaused, Hushed
<1>4. CASE CycleBegins \/ MonitorPauses
  <2>1. (opened >= MaxPositions) \in BOOLEAN /\ (~paused) \in BOOLEAN
    OBVIOUS
  <2>2. SetPaused(opened >= MaxPositions) \/ SetPaused(~paused)
    BY <1>4 DEF CycleBegins, MonitorPauses
  <2> QED
    BY <1>3, <2>1, <2>2, Zenon
<1>5. CASE EntryRefused \/ EntryExecuted
  <2>1. CASE UNCHANGED paused /\ (setups' = EntryConsumed \/ \E s : setups' = Invalidated(s))
    BY <1>1, <2>1 DEF Hushed, Shapes, EntryConsumed, Invalidated
  <2>2. CASE SetPaused(TRUE)
    BY <1>3, <2>2
  <2> QED
    BY <1>5, <2>1, <2>2 DEF EntryRefused, EntryExecuted, Refused
<1>6. CASE CycleRestart
  BY <1>6 DEF CycleRestart, Hushed
<1>7. CASE \/ Rank \/ StopTaking \/ CycleFails \/ CandleCloses \/ PositionCloses
           \/ \E s \in Markets : Drop(s) \/ Claim(s)
           \/ UNCHANGED cycleVars
  <2>1. UNCHANGED <<paused, setups>>
    BY <1>7 DEF Rank, StopTaking, CycleFails, CandleCloses, PositionCloses, Drop, Claim, cycleVars
  <2> QED
    BY <1>1, <2>1 DEF Hushed
<1> QED
  BY <1>2, <1>4, <1>5, <1>6, <1>7 DEF CycleNext

LEMMA AttemptsStep == ASSUME CycleInv, [CycleNext]_cycleVars PROVE Attempts'
<1>1. ASSUME NEW s \in Markets, Claim(s) PROVE Attempts'
  BY <1>1, ClaimSound
<1>2. CASE UNCHANGED <<claims, attempted>>
  BY <1>2 DEF CycleInv, Attempts
<1> QED
  BY <1>1, <1>2 DEF CycleNext, cycleVars, CycleBegins, Rank, StopTaking, EntryRefused, EntryExecuted,
     Evaluate, Drop, CycleFails, CycleRestart, MonitorPauses, CandleCloses, PositionCloses

LEMMA DropSound ==
    ASSUME CycleInv, NEW s \in Markets, Drop(s)
    PROVE  /\ cycle' \in ScanningCycle /\ cycle'.left = cycle.left \ {s} /\ cycle.at = "scanning"
           /\ swept' = swept \cup {s}
<1>1. cycle \in ScanningCycle
  BY CycleParts DEF CycleInv, Drop
<1> QED
  BY <1>1 DEF Drop, Scanned, ScanningCycle

LEMMA SweepingStep == ASSUME CycleInv, [CycleNext]_cycleVars PROVE Sweeping'
<1>1. Sweeping /\ Shapes
  BY DEF CycleInv
<1>2. CASE CycleBegins
  <2>1. UNCHANGED offset /\ (cycle'.at = "scanning" => Batch \subseteq cycle'.left)
    BY <1>2, BeginsSound DEF CycleBegins
  <2>2. Batch' = Batch
    BY <2>1 DEF Batch
  <2> QED
    BY <2>1, <2>2 DEF Sweeping
<1>3. ASSUME NEW s \in Markets, Evaluate(s) \/ Drop(s) PROVE Sweeping'
  <2>1. /\ cycle'.left = cycle.left \ {s} /\ swept' = swept \cup {s} /\ cycle.at = "scanning"
    BY <1>3, EvaluateSound, DropSound
  <2>2. Batch' = Batch
    BY <1>3 DEF Batch, Evaluate, Drop
  <2> QED
    BY <1>1, <2>1, <2>2 DEF Sweeping
<1>4. CASE MonitorPauses \/ CandleCloses \/ PositionCloses \/ UNCHANGED cycleVars
  <2>1. UNCHANGED <<cycle, swept, offset>>
    BY <1>4 DEF MonitorPauses, CandleCloses, PositionCloses, cycleVars
  <2>2. Batch' = Batch
    BY <2>1 DEF Batch
  <2> QED
    BY <1>1, <2>1, <2>2 DEF Sweeping
<1>5. CASE cycle'.at # "scanning"
  BY <1>5 DEF Sweeping
<1>6. CASE Rank \/ StopTaking \/ CycleFails \/ CycleRestart
  <2>1. cycle' \in IdleCycle \cup TakingCycle
    BY <1>6, RankSound, EndsIdle DEF StopTaking, CycleFails, CycleRestart
  <2> QED
    BY <1>5, <2>1 DEF IdleCycle, TakingCycle
<1>7. CASE EntryRefused \/ EntryExecuted
  BY <1>5, <1>7, EntrySound DEF IdleCycle, TakingCycle
<1>8. ASSUME NEW s \in Markets, Claim(s) PROVE Sweeping'
  BY <1>5, <1>8, ClaimSound DEF TakingCycle, EnteringCycle
<1> QED
  BY <1>2, <1>3, <1>4, <1>6, <1>7, <1>8 DEF CycleNext

LEMMA ShapesStep == ASSUME CycleInv, [CycleNext]_cycleVars PROVE Shapes'
<1>0. Shapes /\ MaxPositions \in Nat /\ Len(Universe) \in Nat /\ Len(Universe) >= 1 /\ LastCandle \in Nat
  BY UniverseAssumption DEF CycleInv
<1>1. CASE CycleBegins
  BY <1>0, <1>1, BeginsSound DEF CycleBegins, Shapes, SetupsSound
<1>2. ASSUME NEW s \in Markets, Evaluate(s) PROVE Shapes'
  BY <1>0, <1>2, EvaluateSound DEF Evaluate, Shapes, SetupsSound
<1>3. ASSUME NEW s \in Markets, Drop(s) PROVE Shapes'
  BY <1>0, <1>3, DropSound DEF Drop, Shapes
<1>4. ASSUME NEW s \in Markets, Claim(s) PROVE Shapes'
  BY <1>0, <1>4, ClaimSound DEF Claim, Shapes
<1>5. CASE Rank
  BY <1>0, <1>5, RankSound DEF Rank, Shapes
<1>6. CASE EntryRefused \/ EntryExecuted
  <2>1. UNCHANGED <<stalked, candle, offset, claims, swept>>
    BY <1>6 DEF EntryRefused, EntryExecuted
  <2> QED
    BY <1>0, <1>6, <2>1, EntrySound DEF Shapes, SetupsSound
<1>7. CASE StopTaking \/ CycleFails
  BY <1>0, <1>7, EndsIdle DEF StopTaking, CycleFails, Shapes
<1>8. CASE CycleRestart
  <2>1. SetupsSound'
    BY <1>8 DEF CycleRestart, SetupsSound, Sound
  <2> QED
    <3>1. 0 \in 0 .. Len(Universe) - 1
      BY <1>0
    <3>2. cycle' \in IdleCycle /\ paused' = FALSE /\ offset' = 0 /\ swept' = {}
          /\ UNCHANGED <<stalked, candle, claims, opened>>
      BY <1>8, EndsIdle DEF CycleRestart
    <3> QED
      BY <1>0, <2>1, <3>1, <3>2 DEF Shapes, SetupsSound
<1>9. CASE MonitorPauses
  BY <1>0, <1>9, PauseSound DEF MonitorPauses, Shapes, SetupsSound
<1>10. CASE CandleCloses
  BY <1>0, <1>10 DEF CandleCloses, Shapes, Candles
<1>11. CASE PositionCloses
  BY <1>0, <1>11 DEF PositionCloses, Shapes
<1>12. CASE UNCHANGED cycleVars
  BY <1>0, <1>12 DEF cycleVars, Shapes
<1> QED
  BY <1>1, <1>2, <1>3, <1>4, <1>5, <1>6, <1>7, <1>8, <1>9, <1>10, <1>11, <1>12 DEF CycleNext

LEMMA CycleInvStep == CycleInv /\ [CycleNext]_cycleVars => CycleInv'
BY ShapesStep, HushedStep, SweepingStep, AttemptsStep DEF CycleInv

(* The universe, the portfolio and the bars of a setup keep their bounds.  *)
THEOREM CycleTyped == CycleSpec => []CycleTypeOK
<1>1. CycleInv => CycleTypeOK
  BY DEF CycleInv, Shapes, CycleTypeOK, Setup
<1> QED
  BY <1>1, CycleInitial, CycleInvStep, PTL DEF CycleSpec

(* OneAttemptPerCandle, for every universe and however cycles are cut.     *)
THEOREM OneAttempt == CycleSpec => []OneAttemptPerCandle
<1>1. CycleInv => OneAttemptPerCandle
  BY DEF CycleInv, Attempts, OneAttemptPerCandle
<1> QED
  BY <1>1, CycleInitial, CycleInvStep, PTL DEF CycleSpec

(* TakenIsFinished: setups advance by one bar per candle, what an entry    *)
(* took does not stay triggered, and a batch that is completed was swept.  *)
THEOREM FinishesWhatItTook == CycleSpec => TakenIsFinished
<1> DEFINE ByOneBar == \A s \in Markets : setups'[s] # setups[s] /\ setups[s].status = "stalking"
                 /\ setups'[s].status \in {"stalking", "triggered", "expired"}
                 => setups'[s].last > setups[s].last /\ setups'[s].bar = setups[s].bar + 1
           Settled == cycle.at = "entering" /\ cycle'.at # "entering" /\ cycle' # Between("failed")
                 => setups'[cycle.symbol].status # "triggered"
           Covered == cycle'.at = "taking" /\ cycle.at = "scanning" => Batch \subseteq swept
<1>1. ASSUME CycleInv, CycleNext PROVE ByOneBar
  <2>0. Unset.status = "none" /\ Shapes
    BY <1>1 DEF Unset, CycleInv
  <2>1. ASSUME NEW s \in Markets, Evaluate(s) PROVE ByOneBar
    BY <1>1, <2>1, EvaluateSound
  <2>2. CASE UNCHANGED setups
    BY <2>2
  <2>3. ASSUME NEW p, SetPaused(p) PROVE ByOneBar
    BY <2>0, <2>3 DEF SetPaused
  <2>4. ASSUME NEW t, setups' = Invalidated(t) PROVE ByOneBar
    <3>1. ASSUME NEW s \in Markets, setups'[s] # setups[s]
          PROVE  setups'[s].status = "invalidated"
      BY <2>0, <2>4, <3>1 DEF Invalidated, Shapes, Setup
    <3> QED
      BY <3>1
  <2>5. CASE setups' = EntryConsumed
    <3>1. ASSUME NEW s \in Markets, setups'[s] # setups[s]
          PROVE  setups'[s].status = "consumed"
      BY <2>0, <2>5, <3>1 DEF EntryConsumed, Shapes, Setup
    <3> QED
      BY <3>1
  <2>6. CASE CycleRestart
    BY <2>0, <2>6 DEF CycleRestart
  <2> HIDE DEF ByOneBar
  <2> QED
    BY <1>1, <2>1, <2>2, <2>3, <2>4, <2>5, <2>6
       DEF CycleNext, CycleBegins, Rank, StopTaking, EntryRefused, Refused, EntryExecuted, Drop, Claim,
           CycleFails, MonitorPauses, CandleCloses, PositionCloses
<1>2. ASSUME CycleInv, CycleNext PROVE Settled
  <2>1. CASE EntryRefused \/ EntryExecuted
    BY <1>1, <1>2, <2>1, EntrySound
  <2>2. CASE CycleFails \/ CycleRestart
    BY <2>2 DEF CycleFails, CycleRestart
  <2>3. CASE UNCHANGED cycle
    BY <2>3
  <2>4. CASE cycle.at # "entering"
    BY <2>4
  <2> HIDE DEF Settled
  <2> QED
    BY <1>2, <2>1, <2>2, <2>3, <2>4
       DEF CycleNext, CycleBegins, Rank, MayRank, StopTaking, Evaluate, Drop, Claim, MonitorPauses,
           CandleCloses, PositionCloses
<1>3. ASSUME CycleInv, CycleNext PROVE Covered
  <2>1. CASE Rank
    BY <1>3, <2>1, RankSound
  <2>2. CASE cycle.at # "scanning"
    BY <2>2
  <2>3. ASSUME NEW s \in Markets, Evaluate(s) \/ Drop(s) PROVE cycle'.at # "taking"
    BY <1>3, <2>3, EvaluateSound, DropSound DEF ScanningCycle
  <2>4. CASE CycleFails \/ CycleRestart
    BY <2>4, EndsIdle DEF CycleFails, CycleRestart
  <2>5. CASE UNCHANGED cycle
    BY <2>5
  <2> HIDE DEF Covered
  <2>6. CASE cycle'.at # "taking"
    BY <2>6 DEF Covered
  <2> QED
    BY <1>3, <2>1, <2>2, <2>3, <2>4, <2>5, <2>6
       DEF CycleNext, CycleBegins, StopTaking, EntryRefused, EntryExecuted, Claim, MonitorPauses,
           CandleCloses, PositionCloses
<1> HIDE DEF ByOneBar, Settled, Covered
<1>4. CycleInv /\ [CycleNext]_cycleVars => [ByOneBar /\ Settled /\ Covered]_cycleVars
  BY <1>1, <1>2, <1>3
<1> USE DEF ByOneBar, Settled, Covered
<1> QED
  BY <1>4, CycleInitial, CycleInvStep, PTL DEF CycleSpec, TakenIsFinished

-----------------------------------------------------------------------------
(***************************************************************************)
(* PaperTrading                                                            *)
(***************************************************************************)

Fill == [step : {"order", "trade", "row"}, fill : Fills, lot : Fills]

Filling(f) == hand # Idle /\ hand.fill = f

(* A trade, a lot held and a fill in hand are of one symbol each.          *)
PaperShapes ==
    /\ now \in Times /\ orders \subseteq Fills /\ cut \subseteq Fills
    /\ trades \subseteq [fill : Fills, lot : Fills]
    /\ held \in [PaperSymbols -> {NoLot} \cup Fills]
    /\ \A s \in PaperSymbols : held[s] # NoLot => held[s][1] = s
    /\ \A t \in trades : t.fill[1] = t.lot[1]
    /\ hand = Idle \/ (hand \in Fill /\ hand.fill[1] = hand.lot[1])

(* An order is stored before what follows from it, and traded once.        *)
Ordered ==
    /\ \A t, u \in trades : t.fill = u.fill => t = u
    /\ \A t \in trades : t.fill \in orders /\ t.lot \in orders
    /\ \A s \in PaperSymbols : held[s] # NoLot => held[s] \in orders

(* The fill in hand has saved what its step says; an entry found no lot    *)
(* held and opens one nobody closed, a close found the lot it closes.      *)
InHand == hand # Idle =>
    /\ hand.step = "order" <=> hand.fill \notin orders
    /\ hand.step # "row" => \A t \in trades : t.fill # hand.fill
    /\ hand.step = "row" => [fill |-> hand.fill, lot |-> hand.lot] \in trades
    /\ held[hand.fill[1]] = IF hand.lot = hand.fill THEN NoLot ELSE hand.lot
    /\ hand.lot = hand.fill => \A t \in Closings : t.lot # hand.fill

(* What was entered and not cut short is held or was closed; what was      *)
(* closed and not cut short is not held, and was closed once.              *)
Kept ==
    /\ \A f \in Fills : [fill |-> f, lot |-> f] \in trades /\ f \notin cut /\ ~Filling(f)
          => held[f[1]] = f \/ \E t \in Closings : t.lot = f
    /\ \A t \in Closings : t.fill \notin cut /\ ~Filling(t.fill) => held[t.lot[1]] # t.lot
    /\ \A t, u \in Closings : t.fill \notin cut /\ u.fill \notin cut /\ t.lot = u.lot => t = u

PaperInv == PaperShapes /\ Ordered /\ InHand /\ Kept
-----------------------------------------------------------------------------
LEMMA FillsAreLots == \A f \in Fills : f[1] \in PaperSymbols /\ f[2] \in Times /\ f # NoLot
<1> SUFFICES ASSUME NEW f \in Fills PROVE f[1] \in PaperSymbols /\ f[2] \in Times /\ f # NoLot
  OBVIOUS
<1>1. PICK s \in PaperSymbols, k \in Times : f = <<s, k>>
  BY DEF Fills
<1>2. Len(f) = 2 /\ Len(NoLot) = 0
  BY <1>1 DEF NoLot
<1> QED
  BY <1>1, <1>2

LEMMA IdleIsNoFill == Idle \notin Fill
<1>1. \A h \in Fill : h.step # "idle"
  BY DEF Fill
<1> QED
  BY <1>1 DEF Idle

LEMMA PaperInitial == PaperInit => PaperInv
<1> SUFFICES ASSUME PaperInit PROVE PaperInv
  OBVIOUS
<1>1. /\ trades = {} /\ orders = {} /\ cut = {} /\ hand = Idle /\ now = 1
      /\ held = [s \in PaperSymbols |-> NoLot] /\ Closings = {}
  BY DEF PaperInit, Closings
<1>2. 1 \in Times
  BY ClockAssumption DEF Times
<1> QED
  BY <1>1, <1>2 DEF PaperInv, PaperShapes, Ordered, InHand, Kept

(* A fill begins: its identity is new, and it finds the lot it closes.     *)
LEMMA BegunKeeps ==
    ASSUME PaperInv, hand = Idle, NEW f \in Fills, NEW leave, hand' = Begun(f, leave),
           UNCHANGED <<now, quote, stored, cut>>
    PROVE  PaperInv'
<1>1. /\ UNCHANGED <<now, orders, trades, held, cut>> /\ Closings' = Closings
      /\ \A g : ~Filling(g)
  BY DEF stored, Closings, Filling
<1>2. CASE hand' = Idle
  BY <1>1, <1>2 DEF PaperInv, PaperShapes, Ordered, InHand, Kept, Filling
<1>3. CASE hand' # Idle
  <2> DEFINE lot == IF held[f[1]] = NoLot THEN f ELSE held[f[1]]
  <2>1. f \notin orders /\ hand' = [step |-> "order", fill |-> f, lot |-> lot]
    BY <1>3, Zenon DEF Begun, Unfilled
  <2>2. f[1] \in PaperSymbols /\ held[f[1]] \in {NoLot} \cup Fills
    BY FillsAreLots DEF PaperInv, PaperShapes
  <2>3. /\ lot \in Fills /\ lot[1] = f[1]
        /\ lot = f => held[f[1]] = NoLot
        /\ lot # f => held[f[1]] = lot
    BY <2>1, <2>2 DEF PaperInv, PaperShapes, Ordered
  <2> HIDE DEF lot
  <2>4. hand'.step = "order" /\ hand'.fill = f /\ hand'.lot = lot /\ hand' \in Fill
    BY <2>1, <2>3 DEF Fill
  <2>5. PaperShapes'
    BY <1>1, <2>3, <2>4 DEF PaperInv, PaperShapes
  <2>6. \A t \in trades : t.fill # f /\ t.lot # f
    BY <2>1 DEF PaperInv, Ordered
  <2>7. InHand'
    BY <1>1, <2>1, <2>3, <2>4, <2>6 DEF InHand, Closings
  <2>8. Ordered' /\ Kept'
    BY <1>1 DEF PaperInv, Ordered, Kept
  <2> QED
    BY <2>5, <2>7, <2>8 DEF PaperInv
<1> QED
  BY <1>2, <1>3

(* The fill in hand goes on to its next step, or it is cut short.          *)
Goes(next) ==
    \/ hand' = next /\ UNCHANGED cut
    \/ hand' = Idle /\ cut' = cut \cup {hand.fill}

LEMMA OrderKeeps ==
    ASSUME PaperInv, hand # Idle, hand.step = "order", SaveOrder(hand),
           Goes([hand EXCEPT !.step = "trade"]), UNCHANGED <<now, quote>>
    PROVE  PaperInv'
<1>1. /\ hand \in Fill /\ hand.fill \in Fills /\ hand.lot \in Fills
      /\ hand.fill[1] = hand.lot[1]
  BY DEF PaperInv, PaperShapes, Fill
<1>2. /\ orders' = orders \cup {hand.fill} /\ UNCHANGED <<now, trades, held>>
      /\ Closings' = Closings
  BY DEF SaveOrder, Closings
<1> DEFINE h == [hand EXCEPT !.step = "trade"]
<1>3. h \in Fill /\ h.step = "trade" /\ h.fill = hand.fill /\ h.lot = hand.lot
  BY <1>1 DEF Fill
<1>4. (hand' = h /\ cut' = cut) \/ (hand' = Idle /\ cut' = cut \cup {hand.fill})
  BY DEF Goes
<1> HIDE DEF h
<1>5. PaperShapes'
  BY <1>1, <1>2, <1>3, <1>4 DEF PaperInv, PaperShapes
<1>6. Ordered'
  BY <1>2 DEF PaperInv, Ordered
<1>7. InHand'
  <2> SUFFICES ASSUME hand' # Idle PROVE InHand'
    BY DEF InHand
  <2>1. hand' = h
    BY <1>4
  <2> QED
    BY <1>2, <1>3, <2>1 DEF PaperInv, InHand
<1>8. \A f : f \notin cut' /\ ~Filling(f)' => f \notin cut /\ ~Filling(f)
  BY <1>3, <1>4, IdleIsNoFill DEF Filling
<1>9. \A f : f \notin cut' => f \notin cut
  BY <1>4
<1>10. Kept'
  BY <1>2, <1>8, <1>9 DEF PaperInv, Kept
<1> QED
  BY <1>5, <1>6, <1>7, <1>10 DEF PaperInv

LEMMA TradeSaveKeeps ==
    ASSUME PaperInv, hand # Idle, hand.step = "trade", SaveTrade(hand),
           Goes([hand EXCEPT !.step = "row"]), UNCHANGED <<now, quote>>
    PROVE  PaperInv'
<1> DEFINE h == [hand EXCEPT !.step = "row"]
           new == [fill |-> hand.fill, lot |-> hand.lot]
<1>1. /\ hand \in Fill /\ hand.fill \in Fills /\ hand.lot \in Fills
      /\ hand.fill[1] = hand.lot[1]
  BY DEF PaperInv, PaperShapes, Fill
<1>2. /\ trades' = trades \cup {new} /\ UNCHANGED <<now, orders, held>>
      /\ Closings' = Closings \cup {t \in {new} : t.lot # t.fill}
  BY DEF SaveTrade, Closings
<1>3. h \in Fill /\ h.step = "row" /\ h.fill = hand.fill /\ h.lot = hand.lot
  BY <1>1 DEF Fill
<1>4. (hand' = h /\ cut' = cut) \/ (hand' = Idle /\ cut' = cut \cup {hand.fill})
  BY DEF Goes
<1>5. /\ new \in [fill : Fills, lot : Fills] /\ new.fill = hand.fill /\ new.lot = hand.lot
      /\ new = [fill |-> hand.fill, lot |-> hand.lot]
  BY <1>1
<1> HIDE DEF h, new
<1>6. /\ hand.fill \in orders /\ \A t \in trades : t.fill # hand.fill
      /\ held[hand.fill[1]] = IF hand.lot = hand.fill THEN NoLot ELSE hand.lot
      /\ hand.lot = hand.fill => \A t \in Closings : t.lot # hand.fill
  BY <1>1 DEF PaperInv, InHand, Fill
<1>7. hand.lot \in orders
  <2>1. hand.fill[1] \in PaperSymbols /\ hand.lot # NoLot
    BY <1>1, FillsAreLots
  <2> QED
    BY <1>6, <2>1 DEF PaperInv, Ordered
<1>8. PaperShapes'
  BY <1>1, <1>2, <1>3, <1>4, <1>5 DEF PaperInv, PaperShapes
<1>9. Ordered'
  BY <1>2, <1>5, <1>6, <1>7 DEF PaperInv, Ordered
<1>10. InHand'
  <2> SUFFICES ASSUME hand' # Idle PROVE InHand'
    BY DEF InHand
  <2>1. hand' = h
    BY <1>4
  <2>2. hand.lot = hand.fill => \A t \in Closings' : t.lot # hand.fill
    BY <1>2, <1>5, <1>6
  <2>3. new \in trades'
    BY <1>2
  <2> QED
    BY <1>2, <1>3, <1>5, <1>6, <2>1, <2>2, <2>3 DEF InHand
<1>11. \A f : f \notin cut' /\ ~Filling(f)' => f \notin cut /\ f # hand.fill /\ ~Filling(f)
  BY <1>3, <1>4, IdleIsNoFill DEF Filling
<1>12. \A f : f \notin cut' => f \notin cut
  BY <1>4
<1>13. ASSUME NEW t \in Closings, t.lot = hand.lot, t.fill \notin cut,
              hand.lot # hand.fill
       PROVE  FALSE
  <2>1. t \in trades /\ t.fill # hand.fill
    BY <1>6, <1>13 DEF Closings
  <2>2. held[hand.fill[1]] # hand.lot
    BY <1>1, <1>13, <2>1 DEF PaperInv, Kept, Filling
  <2> QED
    BY <1>6, <1>13, <2>2
<1>14. Kept'
  <2>1. ASSUME NEW f \in Fills, [fill |-> f, lot |-> f] \in trades', f \notin cut', ~Filling(f)'
        PROVE  held'[f[1]] = f \/ \E t \in Closings' : t.lot = f
    <3>1. f # hand.fill /\ f \notin cut /\ ~Filling(f)
      BY <1>11, <2>1
    <3>2. [fill |-> f, lot |-> f] # new
      BY <1>5, <3>1
    <3> QED
      BY <1>2, <2>1, <3>1, <3>2 DEF PaperInv, Kept
  <2>2. ASSUME NEW t \in Closings', t.fill \notin cut', ~Filling(t.fill)'
        PROVE  held'[t.lot[1]] # t.lot
    BY <1>2, <1>5, <1>11, <2>2 DEF PaperInv, Kept
  <2>3. ASSUME NEW t \in Closings', NEW u \in Closings', t.fill \notin cut',
               u.fill \notin cut', t.lot = u.lot
        PROVE  t = u
    <3>1. CASE t \in Closings /\ u \in Closings
      BY <1>12, <2>3, <3>1 DEF PaperInv, Kept
    <3>2. CASE t = new /\ u \in Closings
      BY <1>2, <1>5, <1>12, <1>13, <2>3, <3>2 DEF Closings
    <3>3. CASE t \in Closings /\ u = new
      BY <1>2, <1>5, <1>12, <1>13, <2>3, <3>3 DEF Closings
    <3> QED
      BY <1>2, <3>1, <3>2, <3>3
  <2> QED
    BY <2>1, <2>2, <2>3 DEF Kept
<1> QED
  BY <1>8, <1>9, <1>10, <1>14 DEF PaperInv

LEMMA RowKeeps ==
    ASSUME PaperInv, hand # Idle, hand.step = "row", SavePaperRow(hand), Goes(Idle),
           UNCHANGED <<now, quote>>
    PROVE  PaperInv'
<1>1. /\ hand \in Fill /\ hand.fill \in Fills /\ hand.lot \in Fills
      /\ hand.fill[1] = hand.lot[1] /\ hand.fill[1] \in PaperSymbols
      /\ hand.fill # NoLot /\ hand.lot # NoLot
  BY FillsAreLots DEF PaperInv, PaperShapes, Fill
<1> DEFINE s == hand.fill[1]
           row == IF hand.lot = hand.fill THEN hand.lot ELSE NoLot
           sold == [fill |-> hand.fill, lot |-> hand.lot]
<1>2. /\ UNCHANGED <<now, orders, trades>> /\ Closings' = Closings
      /\ held' = [held EXCEPT ![s] = row]
  BY DEF SavePaperRow, Closings
<1>3. /\ held \in [PaperSymbols -> {NoLot} \cup Fills] /\ row \in {NoLot} \cup Fills
      /\ s \in PaperSymbols
  BY <1>1 DEF PaperInv, PaperShapes
<1> HIDE DEF row
<1>4. /\ held' \in [PaperSymbols -> {NoLot} \cup Fills]
      /\ held'[s] = row /\ \A r \in PaperSymbols : r # s => held'[r] = held[r]
  BY <1>2, <1>3
<1>5. /\ hand.fill \in orders /\ sold \in trades
      /\ held[s] = IF hand.lot = hand.fill THEN NoLot ELSE hand.lot
      /\ hand.lot = hand.fill => \A t \in Closings : t.lot # hand.fill
      /\ sold.fill = hand.fill /\ sold.lot = hand.lot
  BY <1>1 DEF PaperInv, InHand, Fill
<1> HIDE DEF sold, s
<1>6. hand' = Idle /\ (cut' = cut \/ cut' = cut \cup {hand.fill}) /\ \A f : ~Filling(f)'
  BY DEF Goes, Filling
<1>7. PaperShapes'
  <2>1. row # NoLot => row[1] = s
    BY <1>1 DEF row, s
  <2>2. \A r \in PaperSymbols : held'[r] # NoLot => held'[r][1] = r
    BY <1>4, <2>1 DEF PaperInv, PaperShapes
  <2> QED
    BY <1>1, <1>2, <1>4, <1>6, <2>2 DEF PaperInv, PaperShapes
<1>8. Ordered'
  BY <1>2, <1>4, <1>5 DEF PaperInv, Ordered, row
<1>9. InHand'
  BY <1>6 DEF InHand
<1>10. \A t \in trades : t.fill = hand.fill => t = sold
  BY <1>5 DEF PaperInv, Ordered
<1>11. ASSUME NEW f \in Fills, [fill |-> f, lot |-> f] \in trades, f \notin cut'
       PROVE  held'[f[1]] = f \/ \E t \in Closings : t.lot = f
  <2>1. f[1] \in PaperSymbols /\ f # NoLot
    BY FillsAreLots
  <2>2. CASE f = hand.fill
    <3>1. [fill |-> f, lot |-> f] = sold
      BY <1>10, <1>11, <2>2
    <3>2. hand.lot = f
      BY <1>5, <3>1
    <3> QED
      BY <1>4, <2>2, <3>2 DEF row, s
  <2>3. CASE f # hand.fill
    <3>1. held[f[1]] = f \/ \E t \in Closings : t.lot = f
      BY <1>6, <1>11, <2>3 DEF PaperInv, Kept, Filling
    <3>2. CASE held[f[1]] = f /\ f[1] = s
      <4>1. hand.lot = f /\ hand.lot # hand.fill
        BY <1>5, <2>1, <2>3, <3>2
      <4>2. sold \in Closings /\ sold.lot = f
        BY <1>5, <4>1 DEF Closings
      <4> QED
        BY <4>2
    <3>3. CASE held[f[1]] = f /\ f[1] # s
      BY <1>4, <2>1, <3>3
    <3> QED
      BY <3>1, <3>2, <3>3
  <2> QED
    BY <2>2, <2>3
<1>12. ASSUME NEW t \in Closings, t.fill \notin cut' PROVE held'[t.lot[1]] # t.lot
  <2>1. t \in trades /\ t.lot # t.fill /\ t.lot \in Fills /\ t.fill \notin cut
    BY <1>6, <1>12 DEF PaperInv, PaperShapes, Closings
  <2>2. t.lot[1] \in PaperSymbols /\ t.lot # NoLot
    BY <2>1, FillsAreLots
  <2>3. CASE t.fill = hand.fill
    <3>1. t.lot = hand.lot /\ hand.lot # hand.fill
      BY <1>5, <1>10, <2>1, <2>3
    <3> QED
      BY <1>1, <1>4, <2>2, <3>1 DEF row, s
  <2>4. CASE t.fill # hand.fill
    <3>1. held[t.lot[1]] # t.lot
      BY <2>1, <2>4 DEF PaperInv, Kept, Filling
    <3>2. CASE t.lot[1] = s
      BY <1>4, <1>5, <2>2, <3>2 DEF row
    <3>3. CASE t.lot[1] # s
      BY <1>4, <2>2, <3>1, <3>3
    <3> QED
      BY <3>2, <3>3
  <2> QED
    BY <2>3, <2>4
<1>13. \A t, u \in Closings : t.fill \notin cut' /\ u.fill \notin cut' /\ t.lot = u.lot => t = u
  BY <1>6 DEF PaperInv, Kept
<1> QED
  BY <1>2, <1>7, <1>8, <1>9, <1>11, <1>12, <1>13 DEF PaperInv, Kept

(* The fill in hand is dropped with nothing more saved.                    *)
LEMMA DroppedKeeps ==
    ASSUME PaperInv, hand # Idle, hand' = Idle, cut' = cut \cup {hand.fill},
           UNCHANGED <<now, quote, stored>>
    PROVE  PaperInv'
<1>1. /\ UNCHANGED <<now, orders, trades, held>> /\ Closings' = Closings
      /\ \A f : f \notin cut' => f \notin cut /\ ~Filling(f)
  BY DEF stored, Closings, Filling
<1>2. hand.fill \in Fills
  BY DEF PaperInv, PaperShapes, Fill
<1>3. PaperShapes' /\ Ordered' /\ InHand'
  BY <1>1, <1>2 DEF PaperInv, PaperShapes, Ordered, InHand
<1>4. Kept'
  BY <1>1 DEF PaperInv, Kept
<1> QED
  BY <1>3, <1>4 DEF PaperInv

LEMMA SaveKeeps ==
    ASSUME PaperInv, hand # Idle, SaveNext(hand), UNCHANGED <<now, quote>>,
           \/ /\ hand' = IF hand.step = "row" THEN Idle
                         ELSE [hand EXCEPT !.step = Following[@]]
              /\ UNCHANGED cut
           \/ hand' = Idle /\ cut' = cut \cup {hand.fill}
    PROVE  PaperInv'
<1>1. CASE hand.step = "order" /\ SaveOrder(hand)
  <2>1. [hand EXCEPT !.step = Following[@]] = [hand EXCEPT !.step = "trade"]
    BY <1>1 DEF Following
  <2>2. Goes([hand EXCEPT !.step = "trade"])
    BY <1>1, <2>1 DEF Goes
  <2> QED
    BY <1>1, <2>2, OrderKeeps
<1>2. CASE hand.step = "trade" /\ SaveTrade(hand)
  <2>1. [hand EXCEPT !.step = Following[@]] = [hand EXCEPT !.step = "row"]
    BY <1>2 DEF Following
  <2>2. Goes([hand EXCEPT !.step = "row"])
    BY <1>2, <2>1 DEF Goes
  <2> QED
    BY <1>2, <2>2, TradeSaveKeeps
<1>3. CASE hand.step = "row" /\ SavePaperRow(hand)
  <2>1. Goes(Idle)
    BY <1>3 DEF Goes
  <2> QED
    BY <1>3, <2>1, RowKeeps
<1> QED
  BY <1>1, <1>2, <1>3 DEF SaveNext

LEMMA PaperStep == PaperInv /\ [PaperNext]_paperVars => PaperInv'
<1> SUFFICES ASSUME PaperInv, [PaperNext]_paperVars PROVE PaperInv'
  OBVIOUS
<1>1. now \in Times
  BY DEF PaperInv, PaperShapes
<1>2. ASSUME NEW f \in Fills, NEW leave \in BOOLEAN, PaperExecute(f, leave) PROVE PaperInv'
  BY <1>2, BegunKeeps DEF PaperExecute
<1>3. ASSUME NEW s \in PaperSymbols, MarketTick(s) \/ OperatorCloses(s) PROVE PaperInv'
  <2>1. <<s, now>> \in Fills
    BY <1>1 DEF Fills
  <2> QED
    BY <1>3, <2>1, BegunKeeps DEF MarketTick, OperatorCloses
<1>4. CASE SaveFill
  BY <1>4, SaveKeeps DEF SaveFill
<1>5. CASE CutShort
  <2>1. CASE SaveNext(hand)
    BY <1>5, <2>1, SaveKeeps DEF CutShort
  <2>2. CASE UNCHANGED stored
    BY <1>5, <2>2, DroppedKeeps DEF CutShort
  <2> QED
    BY <1>5, <2>1, <2>2 DEF CutShort
<1>6. CASE TimePasses
  <2>1. /\ now' \in Times /\ UNCHANGED <<orders, trades, held, hand, cut>>
        /\ Closings' = Closings
    BY <1>1, <1>6, ClockAssumption DEF TimePasses, Times, stored, Closings
  <2> QED
    BY <2>1 DEF PaperInv, PaperShapes, Ordered, InHand, Kept, Filling
<1>7. CASE UNCHANGED paperVars
  <2>1. UNCHANGED <<now, orders, trades, held, hand, cut>> /\ Closings' = Closings
    BY <1>7 DEF paperVars, stored, Closings
  <2> QED
    BY <2>1 DEF PaperInv, PaperShapes, Ordered, InHand, Kept, Filling
<1> QED
  BY <1>2, <1>3, <1>4, <1>5, <1>6, <1>7 DEF PaperNext

LEMMA PaperInvariance == PaperSpec => []PaperInv
BY PaperInitial, PaperStep, PTL DEF PaperSpec

(* What PaperTradingService stores and holds in hand is of one symbol.     *)
THEOREM PaperTyped == PaperSpec => []PaperTypeOK
<1>1. PaperInv => PaperTypeOK
  <2> SUFFICES ASSUME PaperInv PROVE PaperTypeOK
    OBVIOUS
  <2>1. ASSUME NEW s \in PaperSymbols PROVE held[s] \in {NoLot} \cup ({s} \X Times)
    <3>1. CASE held[s] = NoLot
      BY <3>1
    <3>2. CASE held[s] # NoLot
      <4>1. held[s] \in Fills /\ held[s][1] = s
        BY <3>2 DEF PaperInv, PaperShapes
      <4> QED
        BY <4>1 DEF Fills
    <3> QED
      BY <3>1, <3>2
  <2> QED
    BY <2>1 DEF PaperInv, PaperShapes, PaperTypeOK
<1> QED
  BY <1>1, PaperInvariance, PTL

(* What a lot cost or earned is in the balance once, although the order,   *)
(* the trade and the row of a fill are three saves and any may be the last. *)
THEOREM LotsAreAccounted == PaperSpec => []LotsAccounted
<1>1. PaperInv => LotsAccounted
  <2> SUFFICES ASSUME PaperInv, hand = Idle, NEW f \in Fills
               PROVE  LET closings == {t \in Closings : t.lot = f}
                          whole    == {t \in closings : t.fill \notin cut}
                      IN /\ [fill |-> f, lot |-> f] \in trades /\ f \notin cut
                               => held[f[1]] = f \/ closings # {}
                         /\ whole # {} => held[f[1]] # f /\ Cardinality(whole) = 1
    BY DEF LotsAccounted
  <2> DEFINE closings == {t \in Closings : t.lot = f}
             whole == {t \in closings : t.fill \notin cut}
  <2>1. [fill |-> f, lot |-> f] \in trades /\ f \notin cut => held[f[1]] = f \/ closings # {}
    BY DEF PaperInv, Kept, Filling
  <2>2. ASSUME whole # {} PROVE held[f[1]] # f /\ Cardinality(whole) = 1
    <3>1. PICK t \in whole : TRUE
      BY <2>2
    <3>2. whole = {t}
      BY <3>1 DEF PaperInv, Kept
    <3>3. Cardinality({t}) = 1
      BY FS_Singleton
    <3>4. held[f[1]] # f
      BY <3>1 DEF PaperInv, Kept, Filling
    <3> QED
      BY <3>2, <3>3, <3>4
  <2> QED
    BY <2>1, <2>2
<1> QED
  BY <1>1, PaperInvariance, PTL

-----------------------------------------------------------------------------
(* Sums over a finite set, of integers in any order.                       *)

(* What holds of the empty set, and of a set when it holds of it without   *)
(* the element chosen of it, holds of every subset of a finite set.        *)
AnyOf(T) == CHOOSE x \in T : TRUE

LEMMA SubsetsByElement ==
    ASSUME NEW S, IsFiniteSet(S), NEW Good, {} \in Good,
           \A T \in SUBSET S : T # {} /\ T \ {AnyOf(T)} \in Good => T \in Good
    PROVE  SUBSET S \subseteq Good
<1> SUFFICES ASSUME NEW T0 \in SUBSET S, T0 \notin Good PROVE FALSE
  OBVIOUS
<1> DEFINE Sizes == {Cardinality(T) : T \in (SUBSET S) \ Good}
<1>1. \A T \in SUBSET S : IsFiniteSet(T) /\ Cardinality(T) \in Nat
  BY FS_Subset, FS_CardinalityType
<1>2. Sizes \in SUBSET Nat
  BY <1>1
<1>3. Cardinality(T0) \in Sizes
  OBVIOUS
<1>4. \E n \in Sizes : \A m \in Sizes : n =< m
  <2> HIDE DEF Sizes
  <2> QED
    BY <1>2, <1>3, LeastIn
<1>5. PICK T \in (SUBSET S) \ Good : \A U \in (SUBSET S) \ Good : Cardinality(T) =< Cardinality(U)
  BY <1>4
<1> DEFINE x == AnyOf(T)
<1>6. T # {} /\ x \in T
  <2>1. T # {}
    BY <1>5
  <2>2. \E y \in T : TRUE
    BY <2>1
  <2> QED
    BY <2>1, <2>2 DEF AnyOf
<1> HIDE DEF x
<1>7. T \ {x} \in SUBSET S /\ Cardinality(T \ {x}) = Cardinality(T) - 1 /\ Cardinality(T) \in Nat
  BY <1>1, <1>6, FS_RemoveElement
<1>8. T \ {x} \in Good
  BY <1>5, <1>7
<1> QED
  BY <1>5, <1>6, <1>8 DEF x

(* f adds up the values of val over the subsets of S, as MapThenSumSet does. *)
Adds(f, S, val) ==
    f = [T \in SUBSET S |-> IF T = {} THEN 0 ELSE val[AnyOf(T)] + f[T \ {AnyOf(T)}]]

(* What such an f is.                                                      *)
SumsOver(f, S, val) ==
    /\ f[{}] = 0
    /\ \A T \in SUBSET S : T # {} =>
          /\ AnyOf(T) \in T /\ T \ {AnyOf(T)} \in SUBSET S
          /\ f[T] = val[AnyOf(T)] + f[T \ {AnyOf(T)}]

LEMMA Added ==
    ASSUME NEW S, NEW val, NEW f, Adds(f, S, val) PROVE SumsOver(f, S, val)
<1>1. \A T : T # {} => AnyOf(T) \in T
  BY DEF AnyOf
<1>2. {} \in SUBSET S
  OBVIOUS
<1>3. \A T \in SUBSET S : f[T] = IF T = {} THEN 0 ELSE val[AnyOf(T)] + f[T \ {AnyOf(T)}]
  BY DEF Adds
<1> QED
  BY <1>1, <1>2, <1>3 DEF SumsOver

(* There is one.                                                           *)
LEMMA SumExists ==
    ASSUME NEW S, IsFiniteSet(S), NEW val PROVE \E f : Adds(f, S, val)
<1> DEFINE Next(f) == [T \in SUBSET S |-> IF T = {} THEN 0 ELSE val[AnyOf(T)] + f[T \ {AnyOf(T)}]]
           Agrees(f, n) == \A T \in SUBSET S : Cardinality(T) =< n => f[T] = Next(f)[T]
           Upto(n) == \E f : Agrees(f, n)
           Bad == {n \in Nat : ~Upto(n)}
<1>1. /\ \A T \in SUBSET S : /\ IsFiniteSet(T) /\ Cardinality(T) \in Nat
                             /\ Cardinality(T) =< Cardinality(S)
                             /\ Cardinality(T) = 0 <=> T = {}
      /\ Cardinality(S) \in Nat
  BY FS_Subset, FS_CardinalityType, FS_EmptySet
<1>2. \A T : T # {} => AnyOf(T) \in T
  BY DEF AnyOf
<1>3. Upto(0)
  <2> DEFINE zero == [T \in SUBSET S |-> 0]
  <2>1. ASSUME NEW T \in SUBSET S, Cardinality(T) =< 0 PROVE zero[T] = Next(zero)[T]
    <3>1. T = {}
      BY <1>1, <2>1
    <3> QED
      BY <3>1
  <2> QED
    BY <2>1
<1>4. ASSUME NEW n \in Nat, n # 0, Upto(n - 1) PROVE Upto(n)
  <2>1. PICK f : Agrees(f, n - 1)
    BY <1>4
  <2> DEFINE g == Next(f)
  <2>2. ASSUME NEW T \in SUBSET S, Cardinality(T) =< n PROVE g[T] = Next(g)[T]
    <3>1. CASE T = {}
      BY <3>1
    <3>2. CASE T # {}
      <4> DEFINE U == T \ {AnyOf(T)}
      <4>1. U \in SUBSET S /\ Cardinality(U) = Cardinality(T) - 1
        BY <1>1, <1>2, <3>2, FS_RemoveElement
      <4>2. Cardinality(U) =< n - 1
        BY <1>1, <1>4, <2>2, <4>1
      <4> HIDE DEF U
      <4>3. f[U] = g[U]
        BY <2>1, <4>1, <4>2
      <4> QED
        BY <3>2, <4>3 DEF U
    <3> QED
      BY <3>1, <3>2
  <2>3. Agrees(g, n)
    <3> HIDE DEF g
    <3> QED
      BY <2>2
  <2> HIDE DEF g, Agrees
  <2> QED
    BY <2>3
<1> HIDE DEF Upto
<1>5. Bad = {}
  <2> SUFFICES ASSUME Bad # {} PROVE FALSE
    OBVIOUS
  <2>1. Bad \in SUBSET Nat
    OBVIOUS
  <2>2. \E n \in Bad : \A m \in Bad : n =< m
    <3> HIDE DEF Bad
    <3> QED
      BY <2>1, LeastIn
  <2>3. PICK n \in Bad : \A m \in Bad : n =< m
    BY <2>2
  <2>4. n \in Nat /\ n # 0
    BY <1>3, <2>3
  <2>5. n - 1 \in Nat /\ n - 1 \notin Bad
    <3> HIDE DEF Bad
    <3> QED
      BY <2>3, <2>4
  <2> QED
    BY <1>4, <2>3, <2>4, <2>5
<1>6. Upto(Cardinality(S))
  BY <1>1, <1>5
<1>7. PICK f : Agrees(f, Cardinality(S))
  BY <1>6 DEF Upto
<1> DEFINE g == Next(f)
<1>8. \A T \in SUBSET S : f[T] = g[T]
  BY <1>1, <1>7
<1>9. \A T \in SUBSET S : T # {} => T \ {AnyOf(T)} \in SUBSET S
  OBVIOUS
<1>10. g = Next(g)
  <2>1. \A T \in SUBSET S : T # {} => f[T \ {AnyOf(T)}] = g[T \ {AnyOf(T)}]
    <3> HIDE DEF g
    <3> QED
      BY <1>8, <1>9
  <2>2. \A T \in SUBSET S : Next(f)[T] = Next(g)[T]
    <3> HIDE DEF g
    <3> QED
      BY <2>1
  <2> QED
    BY <2>2
<1> QED
  BY <1>10 DEF Adds

(* A sum of integers is one.                                               *)
LEMMA SumIsInteger ==
    ASSUME NEW S, IsFiniteSet(S), NEW val, \A x \in S : val[x] \in Int, NEW f, SumsOver(f, S, val)
    PROVE  \A T \in SUBSET S : f[T] \in Int
<1> DEFINE Good == {T \in SUBSET S : f[T] \in Int}
<1>1. {} \in Good
  BY DEF SumsOver
<1>2. ASSUME NEW T \in SUBSET S, T # {}, T \ {AnyOf(T)} \in Good PROVE T \in Good
  <2>1. /\ f[T \ {AnyOf(T)}] \in Int /\ AnyOf(T) \in S
        /\ f[T] = val[AnyOf(T)] + f[T \ {AnyOf(T)}]
    BY <1>2 DEF SumsOver
  <2> QED
    BY <2>1
<1>3. SUBSET S \subseteq Good
  <2> HIDE DEF Good
  <2> QED
    BY <1>1, <1>2, SubsetsByElement
<1> QED
  BY <1>3

(* Of the integers u over S the one of s changes by d, if it is there:     *)
(* their sum does, too.                                                    *)
Changes(u, v, S, s, d) ==
    d \in Int /\ \A x \in S : u[x] \in Int /\ v[x] = IF x = s THEN u[x] + d ELSE u[x]

LEMMA SumChanges ==
    ASSUME NEW S, IsFiniteSet(S), NEW u, NEW v, NEW s, NEW d, Changes(u, v, S, s, d),
           NEW f, SumsOver(f, S, u), NEW g, SumsOver(g, S, v)
    PROVE  g[S] = f[S] + (IF s \in S THEN d ELSE 0)
<1>0. d \in Int /\ \A x \in S : u[x] \in Int /\ v[x] = IF x = s THEN u[x] + d ELSE u[x]
  BY DEF Changes
<1> DEFINE Good == {T \in SUBSET S : g[T] = f[T] + (IF s \in T THEN d ELSE 0)}
<1>1. {} \in Good
  <2>1. f[{}] = 0 /\ g[{}] = 0
    BY DEF SumsOver
  <2> QED
    BY <1>0, <2>1
<1>2. ASSUME NEW T \in SUBSET S, T # {}, T \ {AnyOf(T)} \in Good PROVE T \in Good
  <2> DEFINE x == AnyOf(T)
             U == T \ {x}
  <2>1. x \in T /\ U \in SUBSET S /\ f[T] = u[x] + f[U] /\ g[T] = v[x] + g[U]
    BY <1>2 DEF SumsOver
  <2>2. f[U] \in Int
    <3> HIDE DEF U, Good
    <3> QED
      BY <1>0, <2>1, SumIsInteger
  <2>3. g[U] = f[U] + (IF s \in U THEN d ELSE 0)
    BY <1>2
  <2> HIDE DEF x
  <2>4. u[x] \in Int /\ v[x] = IF x = s THEN u[x] + d ELSE u[x]
    BY <1>0, <2>1
  <2>5. s \in U <=> s \in T /\ s # x
    OBVIOUS
  <2> HIDE DEF U
  <2>6. g[T] = f[T] + (IF s \in T THEN d ELSE 0)
    BY <1>0, <2>1, <2>2, <2>3, <2>4, <2>5
  <2> QED
    BY <2>6
<1>3. SUBSET S \subseteq Good
  <2> HIDE DEF Good
  <2> QED
    BY <1>1, <1>2, SubsetsByElement
<1> QED
  BY <1>3


LEMMA SumsAgree ==
    ASSUME NEW S, IsFiniteSet(S), NEW u, \A x \in S : u[x] \in Int,
           NEW f, SumsOver(f, S, u), NEW g, SumsOver(g, S, u)
    PROVE  g[S] = f[S]
<1> DEFINE s == CHOOSE x : x \notin S
<1>1. Changes(u, u, S, s, 0)
  BY DEF Changes
<1> HIDE DEF s
<1>2. g[S] = f[S] + (IF s \in S THEN 0 ELSE 0)
  BY <1>1, SumChanges
<1>3. f[S] \in Int
  BY SumIsInteger
<1> QED
  BY <1>2, <1>3

(* What is reserved and what was earned are sums over the lots held and    *)
(* over the fills that closed.                                             *)
Reserve == MapThenSumSet(LAMBDA s : Reserved(held[s]), PaperSymbols)
Profit  == MapThenSumSet(LAMBDA t : Pnl(t.lot, t.fill), Closings)

ReserveSums ==
    \E f : SumsOver(f, PaperSymbols, [x \in PaperSymbols |-> Reserved(held[x])])
           /\ Reserve = f[PaperSymbols]
ProfitSums == IsFiniteSet(Closings) =>
    \E f : SumsOver(f, Closings, [x \in Closings |-> Pnl(x.lot, x.fill)]) /\ Profit = f[Closings]

LEMMA ReserveIsSum == ReserveSums
<1> SUFFICES ASSUME IsFiniteSet(PaperSymbols)
             PROVE  \E f : /\ SumsOver(f, PaperSymbols, [x \in PaperSymbols |-> Reserved(held[x])])
                           /\ Reserve = f[PaperSymbols]
  BY MoneyAssumption DEF ReserveSums
<1> DEFINE S == PaperSymbols
           val == [x \in PaperSymbols |-> Reserved(held[x])]
           W(x) == Reserved(held[x])
           F(f) == [T \in SUBSET S |-> IF T = {} THEN 0
                                       ELSE W(CHOOSE x \in T : TRUE) + f[T \ {CHOOSE x \in T : TRUE}]]
           iter == CHOOSE f : f = F(f)
<1>1. \A T \in SUBSET S : T # {} => W(CHOOSE x \in T : TRUE) = val[CHOOSE x \in T : TRUE]
  <2>1. ASSUME NEW T \in SUBSET S, T # {} PROVE (CHOOSE x \in T : TRUE) \in S
    <3>1. \E x \in T : TRUE
      BY <2>1
    <3> QED
      BY <3>1
  <2> QED
    BY <2>1
<1> HIDE DEF W, val
<1>2. \A f : Adds(f, S, val) <=> f = F(f)
  <2>1. ASSUME NEW f PROVE F(f) = [T \in SUBSET S |-> IF T = {} THEN 0 ELSE val[AnyOf(T)] + f[T \ {AnyOf(T)}]]
    BY <1>1 DEF AnyOf
  <2> QED
    BY <2>1 DEF Adds
<1>3. PICK f : Adds(f, S, val)
  BY SumExists
<1> HIDE DEF F
<1>4. iter = F(iter)
  BY <1>2, <1>3
<1>5. SumsOver(iter, S, val)
  <2> HIDE DEF iter
  <2> QED
    BY <1>2, <1>4, Added
<1>6. Reserve = iter[S]
  BY DEF Reserve, W, MapThenSumSet, MapThenFoldSet, F
<1> HIDE DEF iter
<1> QED
  BY <1>5, <1>6 DEF val

LEMMA ProfitIsSum == ProfitSums
<1> SUFFICES ASSUME IsFiniteSet(Closings)
             PROVE  \E f : /\ SumsOver(f, Closings, [x \in Closings |-> Pnl(x.lot, x.fill)])
                           /\ Profit = f[Closings]
  BY DEF ProfitSums
<1> DEFINE S == Closings
           val == [x \in Closings |-> Pnl(x.lot, x.fill)]
           W(x) == Pnl(x.lot, x.fill)
           F(f) == [T \in SUBSET S |-> IF T = {} THEN 0
                                       ELSE W(CHOOSE x \in T : TRUE) + f[T \ {CHOOSE x \in T : TRUE}]]
           iter == CHOOSE f : f = F(f)
<1>1. \A T \in SUBSET S : T # {} => W(CHOOSE x \in T : TRUE) = val[CHOOSE x \in T : TRUE]
  <2>1. ASSUME NEW T \in SUBSET S, T # {} PROVE (CHOOSE x \in T : TRUE) \in S
    <3>1. \E x \in T : TRUE
      BY <2>1
    <3> QED
      BY <3>1
  <2> QED
    BY <2>1
<1> HIDE DEF W, val
<1>2. \A f : Adds(f, S, val) <=> f = F(f)
  <2>1. ASSUME NEW f PROVE F(f) = [T \in SUBSET S |-> IF T = {} THEN 0 ELSE val[AnyOf(T)] + f[T \ {AnyOf(T)}]]
    BY <1>1 DEF AnyOf
  <2> QED
    BY <2>1 DEF Adds
<1>3. PICK f : Adds(f, S, val)
  BY SumExists
<1> HIDE DEF F
<1>4. iter = F(iter)
  BY <1>2, <1>3
<1>5. SumsOver(iter, S, val)
  <2> HIDE DEF iter
  <2> QED
    BY <1>2, <1>4, Added
<1>6. Profit = iter[S]
  BY DEF Profit, W, MapThenSumSet, MapThenFoldSet, F
<1> HIDE DEF iter
<1> QED
  BY <1>5, <1>6 DEF val

-----------------------------------------------------------------------------
(* Amounts are integers and finitely many; the balance covers the entry in *)
(* hand, whichever of its three saves is next.                             *)
Money == quote \in [Times -> Prices] /\ IsFiniteSet(trades)

Paid == hand # Idle /\ hand.lot = hand.fill => Available >= quote[hand.fill[2]] + Fee

LEMMA PriceIsInteger ==
    ASSUME quote \in [Times -> Prices] PROVE \A f \in Fills : quote[f[2]] \in Int
BY FillsAreLots, MoneyAssumption

LEMMA PnlsAreIntegers ==
    ASSUME PaperInv, Money, NEW t \in Closings PROVE Pnl(t.lot, t.fill) \in Int
<1>1. t.fill \in Fills /\ t.lot \in Fills
  BY DEF PaperInv, PaperShapes, Closings
<1>2. quote[t.fill[2]] \in Int /\ quote[t.lot[2]] \in Int /\ Fee \in Int
  BY <1>1, PriceIsInteger, MoneyAssumption DEF Money
<1> QED
  BY <1>2 DEF Pnl

LEMMA ReservesAreIntegers ==
    ASSUME PaperInv, Money, NEW s \in PaperSymbols PROVE Reserved(held[s]) \in Int
<1>1. held[s] = NoLot \/ held[s] \in Fills
  BY DEF PaperInv, PaperShapes
<1>2. held[s] = NoLot \/ quote[held[s][2]] \in Int
  BY <1>1, PriceIsInteger DEF Money
<1> QED
  BY <1>2, MoneyAssumption DEF Reserved

LEMMA ProfitIsInteger == ASSUME PaperInv, Money PROVE Profit \in Int
<1> DEFINE val == [t \in Closings |-> Pnl(t.lot, t.fill)]
<1>1. IsFiniteSet(Closings)
  BY FS_Subset DEF Money, Closings
<1>2. PICK f : SumsOver(f, Closings, val) /\ Profit = f[Closings]
  BY <1>1, ProfitIsSum DEF ProfitSums
<1>3. \A t \in Closings : val[t] \in Int
  BY PnlsAreIntegers
<1> HIDE DEF val
<1> QED
  BY <1>1, <1>2, <1>3, SumIsInteger

LEMMA ReserveIsInteger == ASSUME PaperInv, Money PROVE Reserve \in Int
<1> DEFINE val == [s \in PaperSymbols |-> Reserved(held[s])]
<1>1. IsFiniteSet(PaperSymbols)
  BY MoneyAssumption
<1>2. PICK f : SumsOver(f, PaperSymbols, val) /\ Reserve = f[PaperSymbols]
  BY ReserveIsSum DEF ReserveSums
<1>3. \A s \in PaperSymbols : val[s] \in Int
  BY ReservesAreIntegers
<1> HIDE DEF val
<1> QED
  BY <1>1, <1>2, <1>3, SumIsInteger

(* Holding a lot more reserves what the lot costs.                         *)
LEMMA ReserveGrows ==
    ASSUME PaperInv, Money, UNCHANGED quote, NEW f \in Fills, held[f[1]] = NoLot,
           held' = [held EXCEPT ![f[1]] = f]
    PROVE  Reserve' = Reserve + (quote[f[2]] + Fee)
<1> DEFINE u == [s \in PaperSymbols |-> Reserved(held[s])]
           v == [s \in PaperSymbols |-> Reserved(held[s])']
           d == quote[f[2]] + Fee
           k == f[1]
<1>1. IsFiniteSet(PaperSymbols) /\ Fee \in Int
  BY MoneyAssumption
<1>2. PICK g : SumsOver(g, PaperSymbols, u) /\ Reserve = g[PaperSymbols]
  BY ReserveIsSum DEF ReserveSums
<1>3. PICK h : SumsOver(h, PaperSymbols, v) /\ Reserve' = h[PaperSymbols]
  <2>1. ReserveSums'
    BY ReserveIsSum, PTL
  <2> QED
    BY <2>1 DEF ReserveSums
<1>4. d \in Int /\ f[1] \in PaperSymbols /\ f # NoLot
  BY <1>1, PriceIsInteger, FillsAreLots DEF Money
<1>5. \A s \in PaperSymbols : u[s] \in Int
  BY ReservesAreIntegers
<1>6. \A s \in PaperSymbols : v[s] = IF s = f[1] THEN u[s] + d ELSE u[s]
  <2> SUFFICES ASSUME NEW s \in PaperSymbols PROVE v[s] = IF s = f[1] THEN u[s] + d ELSE u[s]
    OBVIOUS
  <2>1. held'[s] = IF s = f[1] THEN f ELSE held[s]
    BY DEF PaperInv, PaperShapes
  <2> QED
    BY <1>4, <2>1 DEF Reserved
<1>7. Changes(u, v, PaperSymbols, k, d)
  BY <1>4, <1>5, <1>6 DEF Changes
<1> HIDE DEF u, v, d, k
<1>8. h[PaperSymbols] = g[PaperSymbols] + (IF k \in PaperSymbols THEN d ELSE 0)
  BY <1>1, <1>2, <1>3, <1>7, SumChanges
<1> QED
  BY <1>2, <1>3, <1>4, <1>8 DEF d, k

LEMMA AvailableIs == Available = Capital + Profit - Reserve
BY DEF Available, Profit, Reserve

LEMMA ReserveSame ==
    ASSUME PaperInv, Money, UNCHANGED <<quote, held>> PROVE Reserve' = Reserve
<1> DEFINE val == [s \in PaperSymbols |-> Reserved(held[s])]
<1>1. IsFiniteSet(PaperSymbols)
  BY MoneyAssumption
<1>2. PICK g : SumsOver(g, PaperSymbols, val) /\ Reserve = g[PaperSymbols]
  BY ReserveIsSum DEF ReserveSums
<1>3. PICK h : SumsOver(h, PaperSymbols, val) /\ Reserve' = h[PaperSymbols]
  <2>1. ReserveSums'
    BY ReserveIsSum, PTL
  <2>2. [s \in PaperSymbols |-> Reserved(held[s])]' = val
    BY DEF Reserved
  <2> QED
    BY <2>1, <2>2 DEF ReserveSums
<1>4. \A s \in PaperSymbols : val[s] \in Int
  BY ReservesAreIntegers
<1> HIDE DEF val
<1>5. h[PaperSymbols] = g[PaperSymbols]
  BY <1>1, <1>2, <1>3, <1>4, SumsAgree
<1> QED
  BY <1>2, <1>3, <1>5

LEMMA ProfitSame ==
    ASSUME PaperInv, Money, UNCHANGED quote, Closings' = Closings PROVE Profit' = Profit
<1> DEFINE val == [t \in Closings |-> Pnl(t.lot, t.fill)]
<1>1. IsFiniteSet(Closings)
  BY FS_Subset DEF Money, Closings
<1>2. PICK g : SumsOver(g, Closings, val) /\ Profit = g[Closings]
  BY <1>1, ProfitIsSum DEF ProfitSums
<1>3. PICK h : SumsOver(h, Closings, val) /\ Profit' = h[Closings]
  <2>1. ProfitSums'
    BY ProfitIsSum, PTL
  <2>2. [t \in Closings |-> Pnl(t.lot, t.fill)]' = val
    BY DEF Pnl
  <2> QED
    BY <1>1, <2>1, <2>2 DEF ProfitSums
<1>4. \A t \in Closings : val[t] \in Int
  BY PnlsAreIntegers
<1> HIDE DEF val
<1>5. h[Closings] = g[Closings]
  BY <1>1, <1>2, <1>3, <1>4, SumsAgree
<1> QED
  BY <1>2, <1>3, <1>5

LEMMA AvailableSame ==
    ASSUME PaperInv, Money, UNCHANGED <<quote, held>>, Closings' = Closings
    PROVE  Available' = Available
<1>1. Available' = Capital + Profit' - Reserve'
  BY DEF Available, Profit, Reserve
<1> QED
  BY <1>1, AvailableIs, ProfitSame, ReserveSame

LEMMA MoneyStep ==
    ASSUME PaperInv, Money, Paid, [PaperNext]_paperVars PROVE Money' /\ Paid'
<1>1. UNCHANGED quote
  BY DEF PaperNext, PaperExecute, MarketTick, OperatorCloses, SaveFill, CutShort, TimePasses, paperVars
<1>2. IsFiniteSet(trades)'
  <2>1. CASE trades' = trades
    BY <2>1 DEF Money
  <2>2. CASE SaveNext(hand)
    <3>1. trades' = trades \/ \E t : trades' = trades \cup {t}
      BY <2>2 DEF SaveNext, SaveOrder, SaveTrade, SavePaperRow
    <3> QED
      BY <3>1, FS_AddElement DEF Money
  <2> QED
    BY <2>1, <2>2 DEF PaperNext, PaperExecute, MarketTick, OperatorCloses, SaveFill, CutShort,
                      TimePasses, paperVars, stored
<1>3. Money'
  BY <1>1, <1>2 DEF Money
<1>4. ASSUME NEW f \in Fills, NEW leave, hand = Idle, hand' = Begun(f, leave), UNCHANGED stored
      PROVE  Paid'
  <2> SUFFICES ASSUME hand' # Idle, hand'.lot = hand'.fill PROVE Available' >= quote'[hand'.fill[2]] + Fee
    BY Zenon DEF Paid
  <2> DEFINE lot == IF held[f[1]] = NoLot THEN f ELSE held[f[1]]
  <2>1. /\ f \notin orders /\ hand' = [step |-> "order", fill |-> f, lot |-> lot]
        /\ held[f[1]] = NoLot => Affordable(f)
    BY <1>4, Zenon DEF Begun, Unfilled
  <2>2. hand'.fill = f /\ hand'.lot = lot
    BY <2>1
  <2>3. held[f[1]] = NoLot
    <3>1. f[1] \in PaperSymbols
      BY FillsAreLots
    <3> QED
      BY <2>1, <2>2, <3>1 DEF PaperInv, Ordered
  <2>4. Available' = Available
    BY <1>1, <1>4, AvailableSame DEF stored, Closings
  <2> QED
    BY <1>1, <2>1, <2>2, <2>3, <2>4 DEF Affordable
<1>5. ASSUME SaveFill \/ CutShort PROVE Paid'
  <2> SUFFICES ASSUME hand' # Idle, hand'.lot = hand'.fill PROVE Available' >= quote'[hand'.fill[2]] + Fee
    BY Zenon DEF Paid
  <2>1. /\ hand # Idle /\ SaveNext(hand) /\ hand.step # "row"
        /\ hand' = [hand EXCEPT !.step = Following[@]]
    BY <1>5 DEF SaveFill, CutShort
  <2>2. hand \in Fill
    BY <2>1 DEF PaperInv, PaperShapes
  <2>3. hand'.fill = hand.fill /\ hand'.lot = hand.lot
    BY <2>1, <2>2 DEF Fill
  <2>4. hand.lot = hand.fill
    BY <2>3
  <2>5. held' = held /\ Closings' = Closings
    BY <2>1, <2>4 DEF SaveNext, SaveOrder, SaveTrade, Closings
  <2> QED
    BY <1>1, <2>1, <2>3, <2>4, <2>5, AvailableSame DEF Paid
<1>6. ASSUME UNCHANGED <<stored, hand>> PROVE Paid'
  <2>1. Available' = Available
    BY <1>1, <1>6, AvailableSame DEF stored, Closings
  <2> QED
    BY <1>1, <1>6, <2>1, Zenon DEF Paid
<1>7. now \in Times
  BY DEF PaperInv, PaperShapes
<1>8. ASSUME NEW s \in PaperSymbols, MarketTick(s) \/ OperatorCloses(s) PROVE Paid'
  <2>1. <<s, now>> \in Fills
    BY <1>7 DEF Fills
  <2> QED
    BY <1>4, <1>8, <2>1 DEF MarketTick, OperatorCloses
<1>9. Paid'
  BY <1>4, <1>5, <1>6, <1>8 DEF PaperNext, PaperExecute, TimePasses, paperVars
<1> QED
  BY <1>3, <1>9

LEMMA MoneyInvariance == PaperSpec => [](Money /\ Paid)
<1>1. PaperInit => Money /\ Paid
  <2> SUFFICES ASSUME PaperInit PROVE Money /\ Paid
    OBVIOUS
  <2>1. quote \in [Times -> Prices] /\ trades = {} /\ hand = Idle
    BY DEF PaperInit
  <2> QED
    BY <2>1, FS_EmptySet DEF Money, Paid
<1>2. PaperInv /\ Money /\ Paid /\ [PaperNext]_paperVars => (Money /\ Paid)'
  BY MoneyStep
<1> QED
  BY <1>1, <1>2, PaperInvariance, PTL DEF PaperSpec

(* No entry takes the balance below nothing, whatever else is open, for it *)
(* was affordable when its fill began and nothing else fills before the    *)
(* three saves are over; and a signal that was executed and closed is not  *)
(* executed once more, by a later cycle, a late approval or after a restart. *)
THEOREM EntriesPaidAndNew == PaperSpec => EntriesAreNew
<1> DEFINE New == \A s \in PaperSymbols : held[s] = NoLot /\ held'[s] # NoLot
                     => Available' >= 0 /\ \A t \in Closings : t.lot # held'[s]
<1>1. PaperInv /\ Money /\ Paid /\ PaperNext => New
  <2> SUFFICES ASSUME PaperInv, Money, Paid, PaperNext, NEW s \in PaperSymbols, held[s] = NoLot,
                      held'[s] # NoLot
               PROVE  Available' >= 0 /\ \A t \in Closings : t.lot # held'[s]
    OBVIOUS
  <2>1. held' # held
    OBVIOUS
  <2>2. hand # Idle /\ SaveNext(hand) /\ UNCHANGED quote
    BY <2>1 DEF PaperNext, PaperExecute, MarketTick, OperatorCloses, SaveFill, CutShort, TimePasses,
                stored
  <2>3. SavePaperRow(hand) /\ hand.step = "row"
    BY <2>1, <2>2 DEF SaveNext, SaveOrder, SaveTrade
  <2>4. /\ held' = [held EXCEPT ![hand.fill[1]] = IF hand.lot = hand.fill THEN hand.lot ELSE NoLot]
        /\ UNCHANGED <<orders, trades>>
    BY <2>3 DEF SavePaperRow
  <2>5. held \in [PaperSymbols -> {NoLot} \cup Fills] /\ hand.fill \in Fills
    BY <2>2 DEF PaperInv, PaperShapes, Fill
  <2>6. hand.lot = hand.fill /\ held'[s] = hand.fill /\ s = hand.fill[1]
    BY <2>4, <2>5
  <2>7. \A t \in Closings : t.lot # held'[s]
    BY <2>2, <2>6 DEF PaperInv, InHand
  <2>8. Reserve' = Reserve + (quote[hand.fill[2]] + Fee)
    <3>1. held' = [held EXCEPT ![hand.fill[1]] = hand.fill] /\ held[hand.fill[1]] = NoLot
      BY <2>4, <2>6
    <3> QED
      BY <2>2, <2>5, <3>1, ReserveGrows
  <2>9. Profit' = Profit
    <3>1. Closings' = Closings
      BY <2>4 DEF Closings
    <3> QED
      BY <2>2, <3>1, ProfitSame
  <2>10. /\ Profit \in Int /\ Reserve \in Int /\ Capital \in Int
         /\ quote[hand.fill[2]] \in Int /\ Fee \in Int
    BY <2>5, ProfitIsInteger, ReserveIsInteger, PriceIsInteger, MoneyAssumption DEF Money
  <2>11. Available >= quote[hand.fill[2]] + Fee
    BY <2>2, <2>6 DEF Paid
  <2>12. Available = Capital + Profit - Reserve /\ Available' = Capital + Profit' - Reserve'
    BY AvailableIs DEF Available, Profit, Reserve
  <2>13. Available' >= 0
    BY <2>8, <2>9, <2>10, <2>11, <2>12
  <2> QED
    BY <2>7, <2>13
<1> HIDE DEF New
<1>2. PaperInv /\ Money /\ Paid /\ [PaperNext]_paperVars => [New]_paperVars
  BY <1>1
<1>3. PaperSpec => [][New]_paperVars
  BY <1>2, PaperInvariance, MoneyInvariance, PTL DEF PaperSpec
<1> QED
  BY <1>3 DEF New, EntriesAreNew
=============================================================================
