------------------------- MODULE VerifierHostProofs -------------------------
(***************************************************************************)
(* The services of the verifier's host.                                    *)
(*                                                                         *)
(* First VerifierHost: no nonce and no check is used twice, for any number *)
(* of requests, of receipts and of deaths, and any order in which a pass   *)
(* takes its files.  What is issued is not unique by itself: a pass sees   *)
(* every request again and may find the receipt it wrote expired.  The     *)
(* inductive invariant adds that the nonce of everything issued is in the  *)
(* ledger (PolicyOnce, ActivationOnce), which stays true until a death     *)
(* empties the ledger; and that a check exists only for a claimed action   *)
(* (CheckInv).  Nor does a pass of the broker, in whatever order it takes  *)
(* the files and wherever it ends, move a selection back: what the         *)
(* selector names after each file is a recursive function, and the first   *)
(* file after which it were older would have displaced a newer one         *)
(* (SelectionsForward).                                                    *)
(*                                                                         *)
(* Then its Anchor, which shares no state with these: it is verified,      *)
(* never moves back, and contains what a COMMITTED journal says, for any   *)
(* number of transactions, any order of their names and any number of      *)
(* failures.  Its inductive invariant follows a commit down the chain:     *)
(* what is staged is published, what is ready is checked, what is in the   *)
(* inbox is ready, what has a journal is in the inbox (Chain).             *)
(***************************************************************************)
EXTENDS VerifierHost, FiniteSetTheorems, NaturalsInduction, TLAPS

(* A request is answered once, and once answered its nonce is used. *)
PolicyOnce ==
  /\ \A k \in Issued : issued[k] \in nonces
  /\ \A k, l \in Issued : issued[k] = issued[l] => k = l

(* Likewise for activations, which share the ledger. *)
ActivationOnce ==
  /\ \A a \in Acts : ActivationNonce(acts[a]) \in nonces
  /\ \A a, b \in Acts : acts[a] = acts[b] => a = b

LedgerInv ==
  /\ issued \in Seq(Request) /\ Len(issued) <= MaxIssues
  /\ acts \in Seq(Receipt) /\ Len(acts) <= MaxActivations
  /\ ledger \subseteq {"wiped", "torn"}
  /\ "wiped" \notin ledger => PolicyOnce /\ ActivationOnce

(* A check exists only for a receipt whose action is claimed. *)
CheckInv ==
  /\ checks \in [Receipt -> Nat]
  /\ \A k \in Receipt : checks[k] <= 1 /\ (checks[k] > 0 => k \in claims)

-----------------------------------------------------------------------------
(* A sequence without repetitions. *)
Repeats(s) == \E i, j \in 1 .. Len(s) : i # j /\ s[i] = s[j]

(* A pass takes the members of a finite set one by one in some order. *)
LEMMA OrderOf ==
  ASSUME NEW S, IsFiniteSet(S), NEW s \in SetToSeqs(S)
  PROVE  s \in Seq(S) /\ ~Repeats(s)
<1>1. Cardinality(S) \in Nat
  BY FS_CardinalityType
<1>2. s \in [1 .. Cardinality(S) -> S]
  BY DEF SetToSeqs
<1>3. s \in Seq(S) /\ Len(s) = Cardinality(S)
  BY <1>1, <1>2
<1> QED
  BY <1>3 DEF SetToSeqs, Repeats

(* What it got through when it ended is a beginning of that order. *)
LEMMA BeginningOf ==
  ASSUME NEW S, NEW s \in Seq(S), ~Repeats(s), NEW n \in 0 .. Len(s)
  PROVE  LET b == SubSeq(s, 1, n) IN
           /\ b \in Seq(S) /\ Len(b) = n /\ ~Repeats(b)
           /\ \A i \in 1 .. n : b[i] = s[i] /\ s[i] \in S
<1>1. /\ SubSeq(s, 1, n) \in Seq(S) /\ Len(SubSeq(s, 1, n)) = n
      /\ \A i \in 1 .. n : SubSeq(s, 1, n)[i] = s[i]
  OBVIOUS
<1>2. 1 .. n \subseteq 1 .. Len(s)
  OBVIOUS
<1>3. ~Repeats(SubSeq(s, 1, n))
  BY <1>1, <1>2 DEF Repeats
<1> QED
  BY <1>1, <1>2, <1>3

(* New members after the old ones. *)
LEMMA Appended ==
  ASSUME NEW S, NEW s \in Seq(S), NEW b \in Seq(S)
  PROVE  /\ s \o b \in Seq(S) /\ Len(s \o b) = Len(s) + Len(b)
         /\ \A i \in 1 .. Len(s) : (s \o b)[i] = s[i]
         /\ \A i \in 1 .. Len(b) : (s \o b)[Len(s) + i] = b[i]
         /\ \A i \in 1 .. Len(s \o b) :
              i \in 1 .. Len(s) \/ \E j \in 1 .. Len(b) : i = Len(s) + j
<1>1. /\ s \o b \in Seq(S) /\ Len(s \o b) = Len(s) + Len(b)
      /\ \A i \in 1 .. Len(s \o b) :
           (s \o b)[i] = IF i <= Len(s) THEN s[i] ELSE b[i - Len(s)]
  OBVIOUS
<1>2. Len(s) \in Nat /\ Len(b) \in Nat
  OBVIOUS
<1>3. ASSUME NEW i \in 1 .. Len(b)
      PROVE  (s \o b)[Len(s) + i] = b[i]
  BY <1>1, <1>2
<1>4. ASSUME NEW i \in 1 .. Len(s \o b), i \notin 1 .. Len(s)
      PROVE  \E j \in 1 .. Len(b) : i = Len(s) + j
  <2>1. i - Len(s) \in 1 .. Len(b) /\ i = Len(s) + (i - Len(s))
    BY <1>1, <1>2, <1>4
  <2> QED
    BY <2>1
<1> QED
  BY <1>1, <1>2, <1>3, <1>4

(* The smaller of a length and what is left of the bound. *)
LEMMA MinOfTwo ==
  ASSUME NEW m \in Nat, NEW n \in Nat
  PROVE  Min({m, n}) \in Nat /\ Min({m, n}) <= m /\ Min({m, n}) <= n
<1>1. \E x \in {m, n} : \A y \in {m, n} : x =< y
  OBVIOUS
<1>2. Min({m, n}) \in {m, n} /\ \A y \in {m, n} : Min({m, n}) =< y
  BY <1>1 DEF Min
<1> QED
  BY <1>2

(* There are finitely many requests. *)
LEMMA RequestsFinite == IsFiniteSet(Request)
<1> DEFINE P == (0 .. MaxIssues) \X (1 .. MaxSuites)
           f == [p \in P |-> [parent |-> p[1], suite |-> p[2]]]
<1>1. IsFiniteSet(P)
  <2>1. 0 \in Int /\ 1 \in Int /\ MaxIssues \in Int /\ MaxSuites \in Int
    BY ReceiptsAssumption
  <2>2. IsFiniteSet(0 .. MaxIssues) /\ IsFiniteSet(1 .. MaxSuites)
    BY <2>1, FS_Interval
  <2> QED
    BY <2>2, FS_Product
<1>2. f \in Surjection(P, Request)
  <2>1. f \in [P -> Request]
    BY DEF Request
  <2>2. ASSUME NEW r \in Request
        PROVE  \E p \in P : f[p] = r
    <3>1. <<r.parent, r.suite>> \in P
      BY DEF Request
    <3>2. f[<<r.parent, r.suite>>] = [parent |-> r.parent, suite |-> r.suite]
      BY <3>1
    <3>3. r = [parent |-> r.parent, suite |-> r.suite]
      BY DEF Request
    <3> QED
      BY <3>1, <3>2, <3>3
  <2> QED
    BY <2>1, <2>2 DEF Surjection
<1> QED
  BY <1>1, <1>2, FS_Surjection

-----------------------------------------------------------------------------
(* The two ledger issuers write receipts b for nonces not used before. *)
LEMMA PolicyAnswered ==
  ASSUME LedgerInv, NEW b \in Seq(Request), ~Repeats(b),
         "wiped" \notin ledger,
         \A i \in 1 .. Len(b) : b[i] \notin nonces /\ b[i] \in nonces',
         issued' = issued \o b, nonces \subseteq nonces'
  PROVE  PolicyOnce'
<1>1. /\ issued \in Seq(Request) /\ PolicyOnce
  BY DEF LedgerInv
<1>2. /\ \A i \in 1 .. Len(issued) : issued'[i] = issued[i]
      /\ \A i \in 1 .. Len(b) : issued'[Len(issued) + i] = b[i]
      /\ \A i \in 1 .. Len(issued') :
           i \in 1 .. Len(issued) \/ \E j \in 1 .. Len(b) : i = Len(issued) + j
  BY <1>1, Appended
<1>3. ASSUME NEW k \in 1 .. Len(issued')
      PROVE  issued'[k] \in nonces'
  BY <1>1, <1>2 DEF PolicyOnce, Issued
<1>4. ASSUME NEW k \in 1 .. Len(issued'), NEW l \in 1 .. Len(issued'),
             issued'[k] = issued'[l]
      PROVE  k = l
  <2>1. CASE k \in 1 .. Len(issued) /\ l \in 1 .. Len(issued)
    BY <1>1, <1>2, <1>4, <2>1 DEF PolicyOnce, Issued
  <2>2. CASE k \in 1 .. Len(issued) /\ l \notin 1 .. Len(issued)
    <3>1. PICK j \in 1 .. Len(b) : l = Len(issued) + j
      BY <1>2, <2>2
    <3>2. b[j] = issued[k] /\ issued[k] \in nonces
      BY <1>1, <1>2, <1>4, <2>2, <3>1 DEF PolicyOnce, Issued
    <3> QED
      BY <3>2
  <2>3. CASE k \notin 1 .. Len(issued) /\ l \in 1 .. Len(issued)
    <3>1. PICK j \in 1 .. Len(b) : k = Len(issued) + j
      BY <1>2, <2>3
    <3>2. b[j] = issued[l] /\ issued[l] \in nonces
      BY <1>1, <1>2, <1>4, <2>3, <3>1 DEF PolicyOnce, Issued
    <3> QED
      BY <3>2
  <2>4. CASE k \notin 1 .. Len(issued) /\ l \notin 1 .. Len(issued)
    <3>1. PICK i \in 1 .. Len(b), j \in 1 .. Len(b) :
            k = Len(issued) + i /\ l = Len(issued) + j
      BY <1>2, <2>4
    <3>2. b[i] = b[j]
      BY <1>2, <1>4, <3>1
    <3> QED
      BY <3>1, <3>2 DEF Repeats
  <2> QED
    BY <2>1, <2>2, <2>3, <2>4
<1> QED
  BY <1>3, <1>4 DEF PolicyOnce, Issued

(* Likewise for activations b. *)
LEMMA ActivationAnswered ==
  ASSUME LedgerInv, NEW b \in Seq(Receipt), ~Repeats(b),
         "wiped" \notin ledger,
         \A i \in 1 .. Len(b) :
           ActivationNonce(b[i]) \notin nonces /\ ActivationNonce(b[i]) \in nonces',
         acts' = acts \o b, nonces \subseteq nonces'
  PROVE  ActivationOnce'
<1>1. /\ acts \in Seq(Receipt) /\ ActivationOnce
  BY DEF LedgerInv
<1>2. /\ \A i \in 1 .. Len(acts) : acts'[i] = acts[i]
      /\ \A i \in 1 .. Len(b) : acts'[Len(acts) + i] = b[i]
      /\ \A i \in 1 .. Len(acts') :
           i \in 1 .. Len(acts) \/ \E j \in 1 .. Len(b) : i = Len(acts) + j
  BY <1>1, Appended
<1>3. ASSUME NEW a \in 1 .. Len(acts')
      PROVE  ActivationNonce(acts'[a]) \in nonces'
  BY <1>1, <1>2 DEF ActivationOnce, Acts
<1>4. ASSUME NEW k \in 1 .. Len(acts'), NEW l \in 1 .. Len(acts'),
             acts'[k] = acts'[l]
      PROVE  k = l
  <2>1. CASE k \in 1 .. Len(acts) /\ l \in 1 .. Len(acts)
    BY <1>1, <1>2, <1>4, <2>1 DEF ActivationOnce, Acts
  <2>2. CASE k \in 1 .. Len(acts) /\ l \notin 1 .. Len(acts)
    <3>1. PICK j \in 1 .. Len(b) : l = Len(acts) + j
      BY <1>2, <2>2
    <3>2. b[j] = acts[k] /\ ActivationNonce(acts[k]) \in nonces
      BY <1>1, <1>2, <1>4, <2>2, <3>1 DEF ActivationOnce, Acts
    <3> QED
      BY <3>2
  <2>3. CASE k \notin 1 .. Len(acts) /\ l \in 1 .. Len(acts)
    <3>1. PICK j \in 1 .. Len(b) : k = Len(acts) + j
      BY <1>2, <2>3
    <3>2. b[j] = acts[l] /\ ActivationNonce(acts[l]) \in nonces
      BY <1>1, <1>2, <1>4, <2>3, <3>1 DEF ActivationOnce, Acts
    <3> QED
      BY <3>2
  <2>4. CASE k \notin 1 .. Len(acts) /\ l \notin 1 .. Len(acts)
    <3>1. PICK i \in 1 .. Len(b), j \in 1 .. Len(b) :
            k = Len(acts) + i /\ l = Len(acts) + j
      BY <1>2, <2>4
    <3>2. b[i] = b[j]
      BY <1>2, <1>4, <3>1
    <3> QED
      BY <3>1, <3>2 DEF Repeats
  <2> QED
    BY <2>1, <2>2, <2>3, <2>4
<1> QED
  BY <1>3, <1>4 DEF ActivationOnce, Acts


(* Consuming nonces: but for a death that empties it, the ledger grows. *)
LEMMA Consumed ==
  ASSUME NEW used, NEW last, NEW how, Consume(used, last, how),
         ledger \subseteq {"wiped", "torn"}
  PROVE  /\ ledger \subseteq ledger' /\ ledger' \subseteq {"wiped", "torn"}
         /\ "wiped" \notin ledger' => nonces \cup used \subseteq nonces'
  BY DEF Consume

(* issue_receipt for a beginning of the pass. *)
LEMMA IssueSafe ==
  ASSUME LedgerInv, NEW b \in Seq(Request), ~Repeats(b),
         Len(issued) + Len(b) <= MaxIssues,
         \A i \in 1 .. Len(b) : b[i] \notin nonces,
         NEW last, NEW how, Issue(b, last, how), UNCHANGED acts
  PROVE  LedgerInv'
<1>1. /\ issued \in Seq(Request) /\ acts \in Seq(Receipt) /\ Len(acts) <= MaxActivations
      /\ issued' = issued \o b /\ acts' = acts
  BY DEF LedgerInv, Issue
<1>2. issued' \in Seq(Request) /\ Len(issued') <= MaxIssues
  BY <1>1, Appended
<1>3. /\ ledger \subseteq ledger' /\ ledger' \subseteq {"wiped", "torn"}
      /\ "wiped" \notin ledger' => nonces \cup ToSet(b) \subseteq nonces'
  BY Consumed DEF Issue, LedgerInv
<1>4. \A i \in 1 .. Len(b) : b[i] \in ToSet(b)
  BY DEF ToSet
<1>5. ASSUME "wiped" \notin ledger'
      PROVE  PolicyOnce' /\ ActivationOnce'
  <2>1. PolicyOnce'
    BY <1>1, <1>3, <1>4, <1>5, PolicyAnswered
  <2>2. ActivationOnce'
    BY <1>1, <1>3, <1>5 DEF LedgerInv, ActivationOnce, Acts
  <2> QED
    BY <2>1, <2>2
<1> QED
  BY <1>1, <1>2, <1>3, <1>5 DEF LedgerInv

(* issue_activation for a beginning of the pass. *)
LEMMA ActivateSafe ==
  ASSUME LedgerInv, NEW b \in Seq(Receipt), ~Repeats(b),
         Len(acts) + Len(b) <= MaxActivations,
         \A i \in 1 .. Len(b) : ActivationNonce(b[i]) \notin nonces,
         NEW used, \A i \in 1 .. Len(b) : ActivationNonce(b[i]) \in used,
         acts' = acts \o b,
         NEW last, NEW how, Consume(used, last, how), UNCHANGED issued
  PROVE  LedgerInv'
<1>1. /\ issued \in Seq(Request) /\ acts \in Seq(Receipt) /\ Len(issued) <= MaxIssues
      /\ issued' = issued
  BY DEF LedgerInv
<1>2. acts' \in Seq(Receipt) /\ Len(acts') <= MaxActivations
  BY <1>1, Appended
<1>3. /\ ledger \subseteq ledger' /\ ledger' \subseteq {"wiped", "torn"}
      /\ "wiped" \notin ledger' => nonces \cup used \subseteq nonces'
  BY Consumed DEF LedgerInv
<1>4. ASSUME "wiped" \notin ledger'
      PROVE  PolicyOnce' /\ ActivationOnce'
  <2>1. ActivationOnce'
    BY <1>1, <1>3, <1>4, ActivationAnswered
  <2>2. PolicyOnce'
    BY <1>1, <1>3, <1>4 DEF LedgerInv, PolicyOnce, Issued
  <2> QED
    BY <2>1, <2>2
<1> QED
  BY <1>1, <1>2, <1>3, <1>4 DEF LedgerInv

-----------------------------------------------------------------------------
(* A whole pass of the policy issuer. *)
LEMMA IssueReceiptsSafe ==
  ASSUME LedgerInv, IssueReceipts, UNCHANGED acts
  PROVE  LedgerInv'
<1>1. PICK copied \in Copied : \E all \in SetToSeqs(Issuable(copied)) :
        LET rs == SubSeq(all, 1, Min({Len(all), MaxIssues - Len(issued)})) IN
          \/ Issue(rs, ThisRequest, "done")
          \/ \E n \in 1 .. Len(rs), how \in {"wiped", "torn", "burnt"} :
               Issue(SubSeq(rs, 1, n - 1), rs[n], how)
  BY DEF IssueReceipts
<1> DEFINE S == Issuable(copied)
<1>2. S \subseteq Request /\ IsFiniteSet(S) /\ \A r \in S : r \notin nonces
  <2>1. S \subseteq Request
    BY DEF Issuable, Copied, Submitted
  <2> QED
    BY <2>1, RequestsFinite, FS_Subset DEF Issuable
<1>3. PICK all \in SetToSeqs(S) :
        LET rs == SubSeq(all, 1, Min({Len(all), MaxIssues - Len(issued)})) IN
          \/ Issue(rs, ThisRequest, "done")
          \/ \E n \in 1 .. Len(rs), how \in {"wiped", "torn", "burnt"} :
               Issue(SubSeq(rs, 1, n - 1), rs[n], how)
  BY <1>1
<1> HIDE DEF S
<1>4. all \in Seq(S) /\ ~Repeats(all) /\ Len(all) \in Nat
  BY <1>2, OrderOf
<1> DEFINE m == Min({Len(all), MaxIssues - Len(issued)})
           rs == SubSeq(all, 1, m)
<1>5. m \in 0 .. Len(all) /\ Len(issued) + m <= MaxIssues /\ Len(issued) \in Nat
  <2>1. Len(issued) \in Nat /\ MaxIssues - Len(issued) \in Nat
    BY ReceiptsAssumption DEF LedgerInv
  <2> DEFINE left == MaxIssues - Len(issued)
             l == Len(all)
  <2>2. left \in Nat /\ l \in Nat /\ m = Min({l, left})
    BY <1>4, <2>1
  <2> HIDE DEF left, l
  <2>3. m \in Nat /\ m <= l /\ m <= left
    BY <2>2, MinOfTwo
  <2> HIDE DEF m
  <2> QED
    BY <1>4, <2>1, <2>2, <2>3, ReceiptsAssumption DEF left, l
<1> HIDE DEF m
<1>6. /\ rs \in Seq(S) /\ ~Repeats(rs) /\ Len(rs) = m
  BY <1>4, <1>5, BeginningOf
<1> HIDE DEF rs
<1>7. ASSUME NEW n \in 0 .. m, NEW b, b = SubSeq(rs, 1, n)
      PROVE  /\ b \in Seq(Request) /\ ~Repeats(b) /\ Len(issued) + Len(b) <= MaxIssues
             /\ \A i \in 1 .. Len(b) : b[i] \notin nonces
  <2>1. b \in Seq(S) /\ Len(b) = n /\ ~Repeats(b) /\ \A i \in 1 .. n : b[i] \in S
    BY <1>6, <1>7, BeginningOf
  <2>2. b \in Seq(Request)
    BY <1>2, <2>1
  <2>3. \A i \in 1 .. Len(b) : b[i] \notin nonces
    BY <1>2, <2>1
  <2>4. Len(issued) + Len(b) <= MaxIssues
    BY <1>4, <1>5, <2>1, ReceiptsAssumption
  <2> QED
    BY <2>1, <2>2, <2>3, <2>4
<1>8. CASE Issue(rs, ThisRequest, "done")
  <2>1. rs = SubSeq(rs, 1, m) /\ m \in 0 .. m
    BY <1>5, <1>6
  <2>2. /\ rs \in Seq(Request) /\ ~Repeats(rs) /\ Len(issued) + Len(rs) <= MaxIssues
        /\ \A i \in 1 .. Len(rs) : rs[i] \notin nonces
    BY <1>7, <2>1
  <2> QED
    BY <1>8, <2>2, IssueSafe
<1>9. ASSUME NEW n \in 1 .. Len(rs), NEW how, Issue(SubSeq(rs, 1, n - 1), rs[n], how)
      PROVE  LedgerInv'
  <2> DEFINE b == SubSeq(rs, 1, n - 1)
             last == rs[n]
  <2>1. n - 1 \in 0 .. m
    BY <1>5, <1>6, <1>9
  <2>2. /\ b \in Seq(Request) /\ ~Repeats(b) /\ Len(issued) + Len(b) <= MaxIssues
        /\ \A i \in 1 .. Len(b) : b[i] \notin nonces
    BY <1>7, <2>1
  <2>3. Issue(b, last, how)
    BY <1>9
  <2> HIDE DEF b, last
  <2> QED
    BY <2>2, <2>3, IssueSafe
<1> QED
  BY <1>3, <1>8, <1>9 DEF rs, m

(* A whole pass of the activation issuer. *)
LEMMA IssueActivationsSafe ==
  ASSUME LedgerInv, IssueActivations
  PROVE  LedgerInv'
<1>1. PICK fresh \in Forwarded : \E all \in SetToSeqs({k \in fresh : MayActivate(k)}) :
        LET ks == SubSeq(all, 1, Min({Len(all), MaxActivations - Len(acts)}))
            used(n) == {ActivationNonce(ks[i]) : i \in 1 .. n} IN
          \/ acts' = acts \o ks /\ Consume(used(Len(ks)), 0, "done")
          \/ \E n \in 1 .. Len(ks), how \in {"wiped", "torn", "burnt"} :
               /\ acts' = acts \o SubSeq(ks, 1, n - 1)
               /\ Consume(used(n - 1), ActivationNonce(ks[n]), how)
  BY DEF IssueActivations
<1> DEFINE S == {k \in fresh : MayActivate(k)}
<1>2. /\ S \subseteq Receipt /\ IsFiniteSet(S)
      /\ \A k \in S : ActivationNonce(k) \notin nonces
  <2>1. Len(issued) \in Nat /\ Len(issued) <= MaxIssues /\ MaxIssues \in Nat
    BY ReceiptsAssumption DEF LedgerInv
  <2>2. S \subseteq 1 .. Len(issued)
    BY DEF MayActivate, Live, Issued
  <2>3. 1 .. Len(issued) \subseteq Receipt /\ IsFiniteSet(1 .. Len(issued))
    BY <2>1, FS_Interval DEF Receipt
  <2>4. IsFiniteSet(S)
    BY <2>2, <2>3, FS_Subset
  <2> QED
    BY <2>2, <2>3, <2>4 DEF MayActivate
<1>3. PICK all \in SetToSeqs(S) :
        LET ks == SubSeq(all, 1, Min({Len(all), MaxActivations - Len(acts)}))
            used(n) == {ActivationNonce(ks[i]) : i \in 1 .. n} IN
          \/ acts' = acts \o ks /\ Consume(used(Len(ks)), 0, "done")
          \/ \E n \in 1 .. Len(ks), how \in {"wiped", "torn", "burnt"} :
               /\ acts' = acts \o SubSeq(ks, 1, n - 1)
               /\ Consume(used(n - 1), ActivationNonce(ks[n]), how)
  BY <1>1
<1> HIDE DEF S
<1>4. all \in Seq(S) /\ ~Repeats(all) /\ Len(all) \in Nat
  BY <1>2, OrderOf
<1> DEFINE m == Min({Len(all), MaxActivations - Len(acts)})
           ks == SubSeq(all, 1, m)
           used(n) == {ActivationNonce(ks[i]) : i \in 1 .. n}
<1>5. m \in 0 .. Len(all) /\ Len(acts) + m <= MaxActivations /\ Len(acts) \in Nat
  <2>1. Len(acts) \in Nat /\ MaxActivations - Len(acts) \in Nat
    BY ServicesAssumption DEF LedgerInv
  <2> DEFINE left == MaxActivations - Len(acts)
             l == Len(all)
  <2>2. left \in Nat /\ l \in Nat /\ m = Min({l, left})
    BY <1>4, <2>1
  <2> HIDE DEF left, l
  <2>3. m \in Nat /\ m <= l /\ m <= left
    BY <2>2, MinOfTwo
  <2> HIDE DEF m
  <2> QED
    BY <1>4, <2>1, <2>2, <2>3, ServicesAssumption DEF left, l
<1> HIDE DEF m
<1>6. /\ ks \in Seq(S) /\ ~Repeats(ks) /\ Len(ks) = m
  BY <1>4, <1>5, BeginningOf
<1> HIDE DEF ks
<1>7. ASSUME NEW n \in 0 .. m, NEW b, b = SubSeq(ks, 1, n)
      PROVE  /\ b \in Seq(Receipt) /\ ~Repeats(b)
             /\ Len(acts) + Len(b) <= MaxActivations
             /\ \A i \in 1 .. Len(b) : ActivationNonce(b[i]) \notin nonces
             /\ \A i \in 1 .. Len(b) : ActivationNonce(b[i]) \in used(n)
  <2>1. /\ b \in Seq(S) /\ Len(b) = n /\ ~Repeats(b)
        /\ \A i \in 1 .. n : b[i] \in S /\ b[i] = ks[i]
    BY <1>6, <1>7, BeginningOf
  <2>2. b \in Seq(Receipt)
    BY <1>2, <2>1
  <2>3. \A i \in 1 .. Len(b) : ActivationNonce(b[i]) \notin nonces
    BY <1>2, <2>1
  <2>4. \A i \in 1 .. Len(b) : ActivationNonce(b[i]) \in used(n)
    BY <2>1
  <2>5. Len(acts) + Len(b) <= MaxActivations
    BY <1>4, <1>5, <2>1, ServicesAssumption
  <2> QED
    BY <2>1, <2>2, <2>3, <2>4, <2>5
<1>8. UNCHANGED issued
  BY DEF IssueActivations
<1>9. ASSUME NEW n \in 0 .. m, NEW b, b = SubSeq(ks, 1, n), NEW last, NEW how,
             acts' = acts \o b, Consume(used(n), last, how)
      PROVE  LedgerInv'
  <2> DEFINE u == used(n)
  <2>1. /\ b \in Seq(Receipt) /\ ~Repeats(b) /\ Len(acts) + Len(b) <= MaxActivations
        /\ \A i \in 1 .. Len(b) : ActivationNonce(b[i]) \notin nonces
        /\ \A i \in 1 .. Len(b) : ActivationNonce(b[i]) \in u
        /\ Consume(u, last, how)
    BY <1>7, <1>9
  <2> HIDE DEF u
  <2> QED
    BY <1>8, <1>9, <2>1, ActivateSafe
<1>10. CASE acts' = acts \o ks /\ Consume(used(Len(ks)), 0, "done")
  <2>1. ks = SubSeq(ks, 1, m) /\ m \in 0 .. m
    BY <1>5, <1>6
  <2> QED
    BY <1>6, <1>9, <1>10, <2>1
<1>11. ASSUME NEW n \in 1 .. Len(ks), NEW how,
              acts' = acts \o SubSeq(ks, 1, n - 1),
              Consume(used(n - 1), ActivationNonce(ks[n]), how)
       PROVE  LedgerInv'
  <2>1. n - 1 \in 0 .. m
    BY <1>5, <1>6, <1>11
  <2> DEFINE l == n - 1
             b == SubSeq(ks, 1, l)
             last == ActivationNonce(ks[n])
  <2>2. l \in 0 .. m /\ b = SubSeq(ks, 1, l) /\ acts' = acts \o b
        /\ Consume(used(l), last, how)
    BY <1>11, <2>1
  <2> HIDE DEF l, b, last
  <2> QED
    BY <1>9, <2>2
<1> QED
  BY <1>3, <1>10, <1>11 DEF ks, m


(* Every other step leaves the issued receipts and the ledger alone. *)
LEMMA LedgerRests ==
  ASSUME LedgerInv, UNCHANGED <<nonces, ledger, issued, acts>>
  PROVE  LedgerInv'
  BY DEF LedgerInv, PolicyOnce, ActivationOnce, Issued, Acts

-----------------------------------------------------------------------------
(* The check worker: a check is created only by the run that claims it. *)
LEMMA CheckSafe ==
  ASSUME CheckInv, NEW k \in Receipt, Process(k)
  PROVE  CheckInv'
<1>1. claims' = claims \cup {k}
  BY DEF Process
<1>2. CASE UNCHANGED checks
  BY <1>1, <1>2 DEF CheckInv
<1>3. CASE k \notin claims /\ checks' = [checks EXCEPT ![k] = @ + 1]
  BY <1>1, <1>3 DEF CheckInv
<1> QED
  BY <1>2, <1>3 DEF Process, MayPublish, Create

-----------------------------------------------------------------------------
(* The inductive invariant. *)
HostInv == LedgerInv /\ CheckInv

(* At the start nothing is issued and nothing claimed. *)
LEMMA InitSafe == HostInit => HostInv
<1> SUFFICES ASSUME HostInit
             PROVE  HostInv
  OBVIOUS
<1>1. /\ issued = << >> /\ acts = << >> /\ ledger = {}
      /\ checks = [k \in Receipt |-> 0]
  BY DEF HostInit, ServicesInit, ReceiptsInit
<1>2. LedgerInv
  BY <1>1, ReceiptsAssumption, ServicesAssumption
     DEF LedgerInv, PolicyOnce, ActivationOnce, Issued, Acts
<1>3. CheckInv
  BY <1>1 DEF CheckInv
<1> QED
  BY <1>2, <1>3 DEF HostInv

(* The services of the policy receipts. *)
LEMMA PolicyStep ==
  ASSUME HostInv, ReceiptsNext, UNCHANGED acts
  PROVE  HostInv'
<1>1. ASSUME UNCHANGED <<nonces, ledger, issued, claims, checks>>
      PROVE  HostInv'
  BY <1>1, LedgerRests DEF HostInv, CheckInv
<1>2. CASE \E k \in Receipt : Expire(k)
  BY <1>1, <1>2 DEF Expire, issuing, checking
<1>3. ASSUME NEW k \in Receipt, PublishCheck(k)
      PROVE  HostInv'
  <2>1. UNCHANGED <<nonces, ledger, issued>> /\ Process(k)
    BY <1>3 DEF PublishCheck, issuing
  <2> QED
    BY <2>1, LedgerRests, CheckSafe DEF HostInv
<1>4. CASE Age \/ RunCanaries \/ Submit \/ EndChecks
  BY <1>1, <1>4 DEF Age, RunCanaries, Submit, EndChecks, issuing, checking
<1>6. CASE PromoteReceipts
  BY <1>1, <1>6, Zenon DEF PromoteReceipts, issuing, checking
<1>5. CASE IssueReceipts
  <2>1. UNCHANGED <<claims, checks>>
    BY <1>5 DEF IssueReceipts, checking
  <2> QED
    BY <1>5, <2>1, IssueReceiptsSafe DEF HostInv, CheckInv
<1> QED
  BY <1>2, <1>3, <1>4, <1>5, <1>6 DEF ReceiptsNext

(* The services of the activation receipts. *)
LEMMA ActivationStep ==
  ASSUME HostInv, Activating
  PROVE  HostInv'
<1>1. UNCHANGED <<claims, checks>>
  BY DEF Activating, StageActivation, SelectMain, IssueActivations,
         PromoteActivations, ExpireActivation, checking, receiptVars
<1>2. CASE IssueActivations
  BY <1>1, <1>2, IssueActivationsSafe DEF HostInv, CheckInv
<1>3. CASE StageActivation \/ SelectMain \/ PromoteActivations
  BY <1>1, <1>3, LedgerRests
     DEF StageActivation, SelectMain, PromoteActivations, issuing, HostInv, CheckInv
<1>4. CASE \E a \in 1 .. MaxActivations : ExpireActivation(a)
  BY <1>1, <1>4, LedgerRests
     DEF ExpireActivation, receiptVars, issuing, HostInv, CheckInv
<1> QED
  BY <1>2, <1>3, <1>4 DEF Activating

(* The inductive invariant holds in every behaviour. *)
LEMMA HostSafe == HostSpec => []HostInv
<1>1. HostInv /\ [HostNext]_hostVars => HostInv'
  <2> SUFFICES ASSUME HostInv, [HostNext]_hostVars
               PROVE  HostInv'
    OBVIOUS
  <2>1. CASE UNCHANGED serviceVars
    BY <2>1, LedgerRests
       DEF serviceVars, receiptVars, activationVars, issuing, checking, HostInv, CheckInv
  <2>2. CASE ServicesNext
    BY <2>2, PolicyStep, ActivationStep DEF ServicesNext, Policy, activationVars
  <2> QED
    BY <2>1, <2>2 DEF HostNext, Receipting, Observing, Anchoring, hostVars
<1> QED
  BY <1>1, InitSafe, PTL DEF HostSpec

(* evaluator.py, NonceStore.consume: although every pass of either issuer  *)
(* sees every request again, and whatever dies between the nonce and its   *)
(* receipt or inside the rewrite of the ledger, no request is answered by  *)
(* two receipts and no policy receipt by two activations, unless a death   *)
(* emptied the ledger.                                                     *)
THEOREM NoncesUsedOnce == HostSpec => []NonceIsUsedOnce
<1>1. HostInv => NonceIsUsedOnce
  BY DEF HostInv, LedgerInv, PolicyOnce, ActivationOnce, NonceIsUsedOnce
<1> QED
  BY <1>1, HostSafe, PTL

(* CheckPublisherWorker.process: the claim is exclusive and is never given *)
(* back, so a lost answer or a lookup that does not show the check yet     *)
(* cannot lead to a second check for the same receipt.                     *)
THEOREM ChecksOnce == HostSpec => []CheckedOnce
<1>1. HostInv => CheckedOnce
  BY DEF HostInv, CheckInv, CheckedOnce
<1> QED
  BY <1>1, HostSafe, PTL

-----------------------------------------------------------------------------
(* A set of naturals has a least element. *)
LEMMA LeastElement ==
  ASSUME NEW T, T \subseteq Nat, T # {}
  PROVE  \E x \in T : \A y \in T : x <= y
<1>1. \E x \in T : \A y \in T : ~(<<y, x>> \in OpToRel(<, Nat))
  BY WFMin, NatLessThanWellFounded, Zenon
<1>2. PICK x \in T : \A y \in T : <<y, x>> \notin OpToRel(<, Nat)
  BY <1>1
<1>3. \A y \in T : ~(y < x)
  <2>1. \A y \in Nat, z \in Nat : y < z => <<y, z>> \in OpToRel(<, Nat)
    BY DEF OpToRel
  <2> QED
    BY <1>2, <2>1
<1> QED
  BY <1>3

(* Nor has a bounded set of naturals no greatest one. *)
LEMMA GreatestElement ==
  ASSUME NEW T, NEW b \in Nat, T \subseteq 0 .. b, T # {}
  PROVE  Max(T) \in T /\ \A y \in T : Max(T) >= y
<1> DEFINE D == {b - y : y \in T}
<1>1. D \subseteq Nat /\ D # {}
  <2>1. \A y \in T : b - y \in Nat
    OBVIOUS
  <2> QED
    BY <2>1, Zenon
<1>2. PICK d \in D : \A e \in D : d <= e
  <2> HIDE DEF D
  <2> QED
    BY <1>1, LeastElement
<1>3. PICK x \in T : d = b - x
  BY Zenon
<1>4. \A y \in T : b - x <= b - y
  BY <1>2, <1>3, Zenon
<1>5. \A y \in T : x >= y
  BY <1>4
<1> QED
  BY <1>5 DEF Max

(* What the selector names after the first m receipts of a pass, step by   *)
(* step.                                                                   *)
Follows(f, ks, m) ==
  /\ f = [n \in 0 .. m |-> f[n]] /\ f[0] = current
  /\ \A n \in 1 .. m :
       f[n] = IF Displaces(ks[n], f[n - 1]) THEN ks[n] ELSE f[n - 1]

(* Selections is defined by recursion, and there is a function that        *)
(* satisfies it: if not, take the shortest pass without one.               *)
LEMMA SelectionsFollow ==
  ASSUME NEW ks \in Seq(Nat)
  PROVE  Follows(Selections(ks), ks, Len(ks))
<1> DEFINE Unnamed == {m \in 0 .. Len(ks) : ~ \E f : Follows(f, ks, m)}
<1>1. ASSUME Unnamed # {}
      PROVE  FALSE
  <2>1. Unnamed \subseteq Nat
    OBVIOUS
  <2>2. PICK m \in Unnamed : \A l \in Unnamed : m <= l
    <3> HIDE DEF Unnamed
    <3> QED
      BY <1>1, <2>1, LeastElement
  <2>3. m # 0
    <3>1. Follows([n \in 0 .. 0 |-> current], ks, 0)
      BY DEF Follows
    <3> QED
      BY <3>1
  <2>4. m \in 1 .. Len(ks) /\ m - 1 \in 0 .. Len(ks) /\ m - 1 \notin Unnamed
    BY <2>2, <2>3
  <2>5. PICK f : Follows(f, ks, m - 1)
    BY <2>4
  <2> DEFINE g == [n \in 0 .. m |->
                     IF n = m THEN IF Displaces(ks[m], f[m - 1]) THEN ks[m] ELSE f[m - 1]
                     ELSE f[n]]
  <2>6. Follows(g, ks, m)
    <3>1. /\ f[0] = current
          /\ \A n \in 1 .. m - 1 :
               f[n] = IF Displaces(ks[n], f[n - 1]) THEN ks[n] ELSE f[n - 1]
      BY <2>5 DEF Follows
    <3>2. g = [n \in 0 .. m |-> g[n]] /\ g[0] = current
      BY <2>4, <3>1
    <3>3. ASSUME NEW n \in 1 .. m
          PROVE  g[n] = IF Displaces(ks[n], g[n - 1]) THEN ks[n] ELSE g[n - 1]
      <4>1. g[n - 1] = f[n - 1]
        BY <2>4
      <4> QED
        BY <2>4, <3>1, <4>1
    <3> QED
      BY <3>2, <3>3 DEF Follows
  <2> QED
    BY <2>2, <2>6
<1>2. PICK f : Follows(f, ks, Len(ks))
  <2>1. Len(ks) \in 0 .. Len(ks)
    OBVIOUS
  <2> QED
    BY <1>1, <2>1, Zenon
<1> DEFINE Named(h) == [n \in 0 .. Len(ks) |->
                          IF n = 0 THEN current
                          ELSE IF Displaces(ks[n], h[n - 1]) THEN ks[n] ELSE h[n - 1]]
<1>3. f = Named(f)
  <2>1. ASSUME NEW n \in 0 .. Len(ks)
        PROVE  f[n] = IF n = 0 THEN current
                      ELSE IF Displaces(ks[n], f[n - 1]) THEN ks[n] ELSE f[n - 1]
    <3>1. n = 0 \/ n \in 1 .. Len(ks)
      OBVIOUS
    <3> QED
      BY <1>2, <3>1 DEF Follows
  <2>2. f = [n \in 0 .. Len(ks) |-> f[n]]
    BY <1>2 DEF Follows
  <2> QED
    BY <2>1, <2>2, Zenon
<1>4. Selections(ks) = CHOOSE h : h = Named(h)
  BY DEF Selections
<1>5. Selections(ks) = Named(Selections(ks))
  <2> HIDE DEF Named
  <2> QED
    BY <1>3, <1>4
<1>6. Len(ks) \in Nat
  OBVIOUS
<1> QED
  BY <1>5, <1>6 DEF Follows

(* Whatever the order, the selector is not moved back, and what displaced  *)
(* another has authority.                                                  *)
LEMMA SelectionsForward ==
  ASSUME current \in Nat, NEW ks \in Seq(Nat), NEW n \in 0 .. Len(ks)
  PROVE  LET k == Selections(ks)[n] IN
           k \in Nat /\ (k = current \/ (k > current /\ Live(k)))
<1> DEFINE s == Selections(ks)
           Forward(m) == s[m] \in Nat /\ (s[m] = current \/ (s[m] > current /\ Live(s[m])))
           Back == {m \in 0 .. Len(ks) : ~Forward(m)}
<1>1. /\ s[0] = current
      /\ \A m \in 1 .. Len(ks) :
           s[m] = IF Displaces(ks[m], s[m - 1]) THEN ks[m] ELSE s[m - 1]
  BY SelectionsFollow DEF Follows
<1> HIDE DEF s
<1>2. ASSUME Back # {}
      PROVE  FALSE
  <2>1. PICK m \in Back : \A l \in Back : m <= l
    <3>1. Back \subseteq Nat
      OBVIOUS
    <3> HIDE DEF Back
    <3> QED
      BY <1>2, <3>1, LeastElement
  <2>2. m \in 1 .. Len(ks) /\ m - 1 \in 0 .. Len(ks) /\ Forward(m - 1)
    BY <1>1, <2>1
  <2>3. ks[m] \in Nat
    BY <2>2
  <2>4. s[m] = s[m - 1] \/ (s[m] = ks[m] /\ ks[m] > s[m - 1] /\ Live(ks[m]))
    BY <1>1, <2>2 DEF Displaces
  <2>5. Forward(m)
    <3> HIDE DEF Back
    <3>1. CASE s[m] = s[m - 1]
      BY <2>2, <3>1
    <3>2. CASE s[m] = ks[m] /\ ks[m] > s[m - 1] /\ Live(ks[m])
      BY <2>2, <2>3, <3>2
    <3> QED
      BY <2>4, <3>1, <3>2
  <2> QED
    BY <2>1, <2>5
<1> QED
  BY <1>2 DEF s

(* A pass of the broker over the policy receipts. *)
LEMMA PromoteReceiptsForward ==
  ASSUME current \in Nat, issued \in Seq(Request), PromoteReceipts
  PROVE  current' \in Nat /\ (current' = current \/ (current' > current /\ Live(current')))
<1>1. PICK ks \in SetToSeqs(Promotable) : \E n \in 0 .. Len(ks) :
             current' = Selections(ks)[n]
  BY Zenon DEF PromoteReceipts
<1>2. Promotable \subseteq Nat /\ IsFiniteSet(Promotable)
  <2>1. Promotable \subseteq 1 .. Len(issued) /\ Len(issued) \in Nat
    BY DEF Promotable, Issued
  <2>2. IsFiniteSet(1 .. Len(issued))
    BY <2>1, FS_Interval
  <2>3. IsFiniteSet(Promotable)
    BY <2>1, <2>2, FS_Subset, Zenon
  <2> QED
    BY <2>1, <2>3
<1>3. ks \in Seq(Nat)
  <2>1. ks \in Seq(Promotable)
    BY <1>2, OrderOf, Zenon
  <2>2. Len(ks) \in Nat /\ ks \in [1 .. Len(ks) -> Promotable]
    BY <2>1
  <2>3. ks \in [1 .. Len(ks) -> Nat]
    BY <1>2, <2>2
  <2> QED
    BY <2>2, <2>3
<1> QED
  BY <1>1, <1>3, SelectionsForward

(* A sequence over S has members of S only. *)
LEMMA MembersOf ==
  ASSUME NEW S, NEW s \in Seq(S)
  PROVE  ToSet(s) \subseteq S
<1>1. \A i \in DOMAIN s : s[i] \in S
  OBVIOUS
<1> QED
  BY <1>1, Zenon DEF ToSet

(* A pass over the activations: the newest of those seen and the old one.  *)
LEMMA PromoteActivationsForward ==
  ASSUME activation \in Nat, acts \in Seq(Receipt), PromoteActivations
  PROVE  /\ activation' \in Nat
         /\ \/ activation' = activation
            \/ /\ activation' > activation
               /\ activation' \in actPublic \/ Usable(activation')
<1>1. PICK as \in SetToSeqs(PromotableActs) : \E n \in 0 .. Len(as) :
             activation' = Max({activation} \cup ToSet(SubSeq(as, 1, n)))
  BY Zenon DEF PromoteActivations
<1>0. PICK n \in 0 .. Len(as) : activation' = Max({activation} \cup ToSet(SubSeq(as, 1, n)))
  BY <1>1
<1>2. PromotableActs \subseteq 1 .. Len(acts) /\ Len(acts) \in Nat
  BY DEF PromotableActs, Acts
<1>3. IsFiniteSet(PromotableActs)
  <2>1. IsFiniteSet(1 .. Len(acts))
    BY <1>2, FS_Interval
  <2> QED
    BY <1>2, <2>1, FS_Subset, Zenon
<1>4. as \in Seq(PromotableActs) /\ ~Repeats(as)
  BY <1>3, OrderOf
<1> DEFINE seen == ToSet(SubSeq(as, 1, n))
<1>5. seen \subseteq PromotableActs
  <2>1. SubSeq(as, 1, n) \in Seq(PromotableActs)
    BY <1>4, BeginningOf
  <2> QED
    BY <2>1, MembersOf, Zenon
<1> HIDE DEF seen
<1> DEFINE T == {activation} \cup seen
           b == activation + Len(acts)
<1>6. T \subseteq 0 .. b /\ T # {} /\ b \in Nat
  <2>1. \A y \in T : y \in 0 .. b
    <3>1. \A y \in seen : y \in 1 .. Len(acts)
      BY <1>2, <1>5
    <3> QED
      BY <1>2, <3>1
  <2>2. T # {}
    OBVIOUS
  <2>3. b \in Nat
    BY <1>2
  <2> HIDE DEF T, b
  <2> QED
    BY <2>1, <2>2, <2>3, Zenon
<1>7. Max(T) \in T /\ \A y \in T : Max(T) >= y
  <2> HIDE DEF T, b
  <2> QED
    BY <1>6, GreatestElement
<1>8. activation' \in T /\ activation' >= activation
  BY <1>0, <1>7 DEF seen
<1>9. activation' = activation \/ activation' \in PromotableActs
  BY <1>5, <1>8
<1> QED
  BY <1>2, <1>8, <1>9 DEF PromotableActs

(* What the two selections name. *)
SelectionInv == current \in Nat /\ activation \in Nat

(* The only steps that change them are the two passes. *)
LEMMA SelectionStep ==
  ASSUME HostInv, SelectionInv, [HostNext]_hostVars
  PROVE  /\ SelectionInv'
         /\ current' # current => current' > current /\ Live(current')
         /\ activation' # activation =>
              /\ activation' > activation
              /\ activation' \in actPublic \/ Usable(activation')
<1>1. issued \in Seq(Request) /\ acts \in Seq(Receipt)
  BY DEF HostInv, LedgerInv
<1>2. CASE UNCHANGED <<current, activation>>
  BY <1>2 DEF SelectionInv
<1>3. CASE PromoteReceipts /\ UNCHANGED activationVars
  BY <1>1, <1>3, PromoteReceiptsForward, Zenon DEF activationVars, SelectionInv
<1>4. CASE PromoteActivations
  BY <1>1, <1>4, PromoteActivationsForward, Zenon DEF PromoteActivations, SelectionInv
<1>5. CASE UNCHANGED serviceVars
  BY <1>2, <1>5 DEF serviceVars, receiptVars, activationVars, selection
<1>6. CASE ReceiptsNext /\ UNCHANGED activationVars /\ ~PromoteReceipts
  <2>1. ASSUME NEW k \in Receipt, Expire(k) \/ PublishCheck(k)
        PROVE  UNCHANGED current
    BY <2>1 DEF Expire, PublishCheck, selection
  <2>2. CASE Age \/ RunCanaries \/ Submit \/ IssueReceipts \/ EndChecks
    BY <1>2, <1>6, <2>2
       DEF Age, RunCanaries, Submit, IssueReceipts, EndChecks, selection, activationVars
  <2> QED
    BY <1>2, <1>6, <2>1, <2>2 DEF ReceiptsNext, activationVars
<1>7. CASE Activating /\ ~PromoteActivations
  BY <1>2, <1>7 DEF Activating, StageActivation, SelectMain, IssueActivations,
                    ExpireActivation, receiptVars, selection
<1> QED
  BY <1>3, <1>4, <1>5, <1>6, <1>7
     DEF HostNext, Receipting, Observing, Anchoring, ServicesNext, Policy, hostVars

(* receipt_broker.py, _select_current_machine and                          *)
(* _select_current_activation: whatever order a pass takes the files in,   *)
(* wherever it dies and however often it sees them again, neither          *)
(* selection moves back, and neither moves to a receipt that is expired or *)
(* revoked unless a dead broker had already published it.                  *)
THEOREM SelectionsForwardOnly == HostSpec => SelectionsMoveForward
<1>1. HostInit => SelectionInv
  BY DEF HostInit, ServicesInit, ReceiptsInit, SelectionInv
<1>2. HostInv /\ SelectionInv /\ [HostNext]_hostVars =>
        /\ SelectionInv'
        /\ [current' # current => current' > current /\ Live(current')]_receiptVars
        /\ [activation' # activation =>
               /\ activation' > activation
               /\ activation' \in actPublic \/ Usable(activation')]_serviceVars
  BY SelectionStep, Zenon
<1> QED
  BY <1>1, <1>2, HostSafe, PTL
     DEF HostSpec, SelectionsMoveForward, CurrentMovesForward, ActivationMovesForward

-----------------------------------------------------------------------------
(* Where a commit is in the chain of services to the anchor. *)
Chain ==
  /\ open \subseteq {t \in Tx : merged[t] # 0}
  /\ jobs \subseteq {t \in Tx : merged[t] # 0}
  /\ ready \subseteq {t \in jobs : merged[t] \in checked}
  /\ inbox \subseteq ready
  /\ \A t \in Tx : journal[t] # "ABSENT" => t \in inbox

(* Neither half of AnchorIsSound is inductive without Chain. *)
AnchorInv == TypeOK /\ Chain /\ AnchorIsVerified /\ CommittedIsAnchored

(* The number of transactions. *)
LEMMA NType == N \in Nat
  BY AnchorAssumption, FS_CardinalityType DEF N

(* The files of a prefix are transactions. *)
LEMMA PrefixType ==
  ASSUME TypeOK, NEW k \in 0 .. N
  PROVE  Prefix(k) \subseteq Tx
  BY NType DEF TypeOK, Prefix

(* Nothing is published yet. *)
LEMMA AnchorStarts == Init => AnchorInv
<1> SUFFICES ASSUME Init PROVE AnchorInv
  OBVIOUS
<1>1. TypeOK
  BY NType DEF Init, TypeOK, JournalPhases, Services
<1>2. Chain /\ AnchorIsVerified /\ CommittedIsAnchored
  BY DEF Init, Chain, AnchorIsVerified, CommittedIsAnchored
<1> QED BY <1>1, <1>2 DEF AnchorInv

(* GitHub, the publisher and the clock. *)
LEMMA WorldStep ==
  ASSUME AnchorInv, World
  PROVE  AnchorInv' /\ anchor' = anchor
<1> USE DEF AnchorInv
<1>1. ASSUME NEW t \in Tx, Publish(t)
      PROVE  AnchorInv' /\ anchor' = anchor
  <2> USE <1>1 DEF Publish, files, clock, updater
  <2>0. merged[t] = 0 /\ t \notin jobs /\ t \notin inbox /\ journal[t] = "ABSENT"
    BY DEF Chain, TypeOK
  <2>1. TypeOK'
    BY DEF TypeOK, Services
  <2>2. \A u \in Tx : u # t => merged'[u] = merged[u]
    BY DEF TypeOK
  <2>3. merged'[t] # 0 /\ checked \subseteq checked'
    BY DEF TypeOK
  <2>4. Chain'
    BY <2>0, <2>2, <2>3 DEF Chain, TypeOK
  <2>5. AnchorIsVerified' /\ CommittedIsAnchored'
    BY <2>0, <2>2, <2>3 DEF Chain, AnchorIsVerified, CommittedIsAnchored, TypeOK
  <2> QED BY <2>1, <2>4, <2>5
<1>2. ASSUME NEW t \in Tx, Leave(t)
      PROVE  AnchorInv' /\ anchor' = anchor
  BY <1>2 DEF Leave, files, clock, updater, TypeOK, Services, Chain,
     AnchorIsVerified, CommittedIsAnchored
<1>3. ASSUME NEW c \in Commits, ChecksPass(c)
      PROVE  AnchorInv' /\ anchor' = anchor
  <2>1. TypeOK'
    BY <1>3 DEF ChecksPass, files, clock, updater, TypeOK
  <2>2. Chain' /\ AnchorIsVerified' /\ CommittedIsAnchored'
    BY <1>3 DEF ChecksPass, files, clock, updater, Chain, AnchorIsVerified,
       CommittedIsAnchored
  <2> QED BY <1>3, <2>1, <2>2 DEF ChecksPass, updater
<1>4. ASSUME ForeignCommit
      PROVE  AnchorInv' /\ anchor' = anchor
  BY <1>4 DEF ForeignCommit, files, clock, updater, TypeOK, Chain,
     AnchorIsVerified, CommittedIsAnchored
<1>5. ASSUME NEW t \in Tx, ExpireJob(t) \/ ExpireRequest(t)
      PROVE  AnchorInv' /\ anchor' = anchor
  BY <1>5 DEF ExpireJob, ExpireRequest, github, files, updater, TypeOK, Chain,
     AnchorIsVerified, CommittedIsAnchored
<1> QED BY <1>1, <1>2, <1>3, <1>4, <1>5 DEF World

(* The three services that hand a commit down the chain. *)
LEMMA HandStep ==
  ASSUME AnchorInv, stage_jobs \/ produce \/ promote
  PROVE  AnchorInv' /\ anchor' = anchor
<1> USE DEF AnchorInv
<1>0. failures' \in Nat
  BY DEF stage_jobs, produce, promote, NoFailure, Failure, TypeOK
<1>1. CASE stage_jobs
  <2>1. PICK k \in 0 .. N : jobs' = jobs \cup Staged(k)
    BY <1>1 DEF stage_jobs
  <2>2. Staged(k) \subseteq open
    BY DEF Staged
  <2>3. TypeOK'
    BY <1>0, <1>1, <2>1, <2>2
    DEF stage_jobs, github, clock, updater, TypeOK, Services
  <2>4. Chain' /\ AnchorIsVerified' /\ CommittedIsAnchored'
    BY <1>1, <2>1, <2>2 DEF stage_jobs, github, clock, updater, Chain,
       AnchorIsVerified, CommittedIsAnchored
  <2> QED BY <1>1, <2>3, <2>4 DEF stage_jobs, updater
<1>2. CASE produce
  <2>1. PICK k \in 0 .. N : ready' = ready \cup Produced(k)
    BY <1>2 DEF produce
  <2>2. Produced(k) \subseteq {t \in jobs : merged[t] \in checked}
    BY DEF Produced, Observable, VerifiedChecks
  <2>3. TypeOK'
    BY <1>0, <1>2, <2>1, <2>2
    DEF produce, github, clock, updater, TypeOK, Services
  <2>4. Chain' /\ AnchorIsVerified' /\ CommittedIsAnchored'
    BY <1>2, <2>1, <2>2 DEF produce, github, clock, updater, Chain,
       AnchorIsVerified, CommittedIsAnchored
  <2> QED BY <1>2, <2>3, <2>4 DEF produce, updater
<1>3. CASE promote
  <2>1. PICK k \in 0 .. N : inbox' = inbox \cup (ready \cap Prefix(k))
    BY <1>3 DEF promote
  <2>2. TypeOK'
    BY <1>0, <1>3, <2>1 DEF promote, github, clock, updater, TypeOK, Services
  <2>3. Chain' /\ AnchorIsVerified' /\ CommittedIsAnchored'
    BY <1>3, <2>1 DEF promote, github, clock, updater, Chain,
       AnchorIsVerified, CommittedIsAnchored
  <2> QED BY <1>3, <2>2, <2>3 DEF promote, updater
<1> QED BY <1>1, <1>2, <1>3

(* What one request does to the journal and the anchor: the anchor stays   *)
(* or moves to a commit in front of it, and COMMITTED means it is there.   *)
LEMMA AdvanceStep ==
  ASSUME AnchorInv, advance_anchor
  PROVE  AnchorInv' /\ anchor' >= anchor
<1> USE DEF AnchorInv
<1> DEFINE t == order[at]
<1>1. t \in Tx /\ t \in inbox /\ merged[t] \in Nat \ {0} /\ anchor \in Nat
  BY NType DEF advance_anchor, TypeOK, Chain
<1>2. at' \in 0 .. N /\ failures' \in Nat
  BY NType DEF advance_anchor, Continue, Raise, NoFailure, Failure, TypeOK
<1>3. /\ anchor' \in {anchor, merged[t]}
      /\ anchor' >= anchor
  BY <1>1 DEF advance_anchor, AdvanceTo, MayAdvance
<1>4. PICK p \in JournalPhases : journal' = [journal EXCEPT ![t] = p]
  BY <1>1 DEF advance_anchor, AdvanceTo, JournalPhases
<1>5. journal'[t] = "COMMITTED" => anchor' = merged[t]
  BY <1>1 DEF advance_anchor, AdvanceTo, TypeOK, JournalPhases
<1>6. UNCHANGED <<order, github, files, clock, changed>>
  BY DEF advance_anchor
<1>7. TypeOK'
  BY <1>1, <1>2, <1>3, <1>4, <1>6 DEF TypeOK, github, files, clock
<1>8. Chain'
  BY <1>1, <1>4, <1>6 DEF TypeOK, Chain, github, files, clock
<1>9. AnchorIsVerified'
  BY <1>1, <1>3, <1>6 DEF Chain, AnchorIsVerified, github, files
<1>10. CommittedIsAnchored'
  <2> SUFFICES ASSUME NEW u \in Tx, journal'[u] = "COMMITTED"
               PROVE  anchor' >= merged'[u]
    BY DEF CommittedIsAnchored
  <2>1. CASE u = t
    BY <1>1, <1>5, <1>6, <2>1 DEF github, TypeOK
  <2>2. CASE u # t
    <3>1. journal[u] = "COMMITTED"
      BY <1>4, <2>2 DEF TypeOK
    <3> QED BY <1>1, <1>3, <1>6, <3>1
            DEF CommittedIsAnchored, github, TypeOK
  <2> QED BY <2>1, <2>2
<1> QED BY <1>3, <1>7, <1>8, <1>9, <1>10

LEMMA UpdateStep ==
  ASSUME AnchorInv, Update
  PROVE  AnchorInv' /\ anchor' >= anchor
<1> USE DEF AnchorInv
<1>1. CASE StartUpdate \/ SkipAbsent \/ FreezeFails \/ RefuseStale \/ Replay
  <2>1. at' \in 0 .. N
    BY <1>1, NType DEF StartUpdate, SkipAbsent, FreezeFails, RefuseStale,
       Replay, Continue, Raise, TypeOK
  <2>2. changed' \subseteq changed /\ failures' \in Nat
    BY <1>1 DEF StartUpdate, SkipAbsent, FreezeFails, RefuseStale, Replay,
       Failure, TypeOK
  <2>3. UNCHANGED <<order, github, files, clock, journal, anchor>>
    BY <1>1 DEF StartUpdate, SkipAbsent, FreezeFails, RefuseStale, Replay
  <2>4. TypeOK'
    BY <2>1, <2>2, <2>3 DEF TypeOK, github, files, clock
  <2>5. Chain' /\ AnchorIsVerified' /\ CommittedIsAnchored'
    BY <2>3 DEF Chain, AnchorIsVerified, CommittedIsAnchored, github, files
  <2> QED BY <2>3, <2>4, <2>5 DEF TypeOK
<1>2. CASE advance_anchor
  BY <1>2, AdvanceStep
<1> QED BY <1>1, <1>2 DEF Update

(* The whole: every step keeps the invariant and the anchor. *)
LEMMA AnchorKeeps ==
  ASSUME AnchorInv, [Next]_vars
  PROVE  AnchorInv' /\ anchor' >= anchor
<1>0. anchor \in Nat
  BY DEF AnchorInv, TypeOK
<1>1. CASE UNCHANGED vars
  BY <1>0, <1>1 DEF AnchorInv, TypeOK, Chain, AnchorIsVerified,
     CommittedIsAnchored, vars, github, files, clock, updater
<1>2. CASE World
  BY <1>0, <1>2, WorldStep
<1>3. CASE stage_jobs \/ produce \/ promote
  BY <1>0, <1>3, HandStep
<1>4. CASE Update
  BY <1>4, UpdateStep
<1> QED BY <1>1, <1>2, <1>3, <1>4 DEF Next

(* The controller's anchor is a published commit whose required checks all *)
(* succeeded, whatever the order of the requests' names, wherever a        *)
(* service dies and whatever else is pushed to main.                       *)
THEOREM AnchorVerified == Spec => []AnchorIsVerified
<1>1. AnchorInv /\ [Next]_vars => AnchorInv'
  BY AnchorKeeps
<1>2. AnchorInv => AnchorIsVerified
  BY DEF AnchorInv
<1> QED BY AnchorStarts, <1>1, <1>2, PTL DEF Spec

(* A COMMITTED journal of the updater is about a commit the anchor         *)
(* contains, now and after every later update.                             *)
THEOREM CommittedAnchored == Spec => []CommittedIsAnchored
<1>1. AnchorInv /\ [Next]_vars => AnchorInv'
  BY AnchorKeeps
<1>2. AnchorInv => CommittedIsAnchored
  BY DEF AnchorInv
<1> QED BY AnchorStarts, <1>1, <1>2, PTL DEF Spec

(* The anchor stays verified and contains what is COMMITTED at every step, *)
(* and refs/heads/main of the anchor never moves back: the ancestry check  *)
(* stops a late or replayed request for an older commit.                   *)
THEOREM AnchorSound == HostSpec => AnchorIsSound
<1>1. HostInit => Init
  BY DEF HostInit
<1>2. [HostNext]_hostVars => [Next]_vars
  BY Zenon DEF HostNext, Receipting, Observing, Anchoring, hostVars
<1>3. AnchorInv /\ [Next]_vars => AnchorInv'
  BY AnchorKeeps
<1>4. AnchorInv /\ [Next]_vars => anchor' >= anchor
  BY AnchorKeeps
<1>5. AnchorInv /\ [Next]_vars => /\ AnchorIsVerified' /\ CommittedIsAnchored'
                            /\ anchor' >= anchor
  BY <1>3, <1>4 DEF AnchorInv
<1> QED BY AnchorStarts, <1>1, <1>2, <1>3, <1>5, PTL DEF HostSpec, AnchorIsSound
=============================================================================
