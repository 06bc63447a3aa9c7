---------------------------- MODULE ListLemmas -----------------------------
(***************************************************************************)
(* Lemmas about the lists of Redis and the channels of the clients, for    *)
(* the proofs about PeerMonitor and PeerClient.                            *)
(***************************************************************************)
EXTENDS Naturals, Sequences, FiniteSets, SequenceTheorems, FiniteSetTheorems,
        TLAPS

-----------------------------------------------------------------------------
(* The two ends of a Redis list.                                           *)

(* LPUSH puts a new entry at the head and keeps every other.               *)
LEMMA PushedHead ==
  ASSUME NEW s \in Seq(Nat), NEW id \in Nat
  PROVE  /\ <<id>> \o s \in Seq(Nat)
         /\ Len(<<id>> \o s) = Len(s) + 1
         /\ (<<id>> \o s)[1] = id
         /\ \A k \in 2 .. Len(s) + 1 : (<<id>> \o s)[k] = s[k - 1]
<1>1. <<id>> \in Seq(Nat) /\ Len(<<id>>) = 1
  OBVIOUS
<1> QED
  BY <1>1, ConcatProperties

(* BLPOP takes the head and keeps every other entry.                       *)
LEMMA PoppedHead ==
  ASSUME NEW s \in Seq(Nat), s # <<>>
  PROVE  /\ Tail(s) \in Seq(Nat)
         /\ Len(Tail(s)) = Len(s) - 1
         /\ Head(s) = s[1] /\ Head(s) \in Nat
         /\ \A k \in 1 .. Len(s) - 1 : Tail(s)[k] = s[k + 1]
<1> QED
  BY HeadTailProperties

Entries(s) == {s[k] : k \in 1 .. Len(s)}
Distinct(s) == \A i, j \in 1 .. Len(s) : s[i] = s[j] => i = j

(* A list of distinct entries stays one when a new entry is pushed, ...    *)
LEMMA HeadJoins ==
  ASSUME NEW s \in Seq(Nat), NEW id \in Nat, id \notin Entries(s), Distinct(s)
  PROVE  Entries(<<id>> \o s) = Entries(s) \cup {id} /\ Distinct(<<id>> \o s)
<1> DEFINE t == <<id>> \o s
<1>1. /\ Len(t) = Len(s) + 1 /\ t[1] = id
      /\ \A k \in 2 .. Len(s) + 1 : t[k] = s[k - 1]
  BY PushedHead
<1>2. Len(s) \in Nat
  OBVIOUS
<1> HIDE DEF t
<1>3. \A k \in 1 .. Len(s) : k + 1 \in 2 .. Len(s) + 1 /\ t[k + 1] = s[k]
  BY <1>1, <1>2
<1>4. Entries(t) \subseteq Entries(s) \cup {id}
  BY <1>1, <1>2 DEF Entries
<1>5. Entries(s) \subseteq Entries(t)
  BY <1>1, <1>2, <1>3 DEF Entries
<1>6. id \in Entries(t)
  BY <1>1, <1>2 DEF Entries
<1>7. Distinct(t)
  <2> SUFFICES ASSUME NEW i \in 1 .. Len(t), NEW j \in 1 .. Len(t), t[i] = t[j]
               PROVE  i = j
    BY DEF Distinct
  <2>1. CASE i = 1 \/ j = 1
    BY <1>1, <1>2, <2>1 DEF Entries
  <2>2. CASE i # 1 /\ j # 1
    <3>1. /\ i - 1 \in 1 .. Len(s) /\ j - 1 \in 1 .. Len(s)
          /\ t[i] = s[i - 1] /\ t[j] = s[j - 1]
      BY <1>1, <1>2, <2>2
    <3>2. i - 1 = j - 1
      BY <3>1 DEF Distinct
    <3> QED
      BY <1>1, <1>2, <3>2
  <2> QED
    BY <2>1, <2>2
<1> QED
  BY <1>4, <1>5, <1>6, <1>7 DEF t

(* ... and loses exactly its head when BLPOP pops it.                      *)
LEMMA HeadLeaves ==
  ASSUME NEW s \in Seq(Nat), s # <<>>, Distinct(s)
  PROVE  /\ Entries(Tail(s)) = Entries(s) \ {Head(s)} /\ Distinct(Tail(s))
         /\ Head(s) \in Entries(s)
<1> DEFINE t == Tail(s)
<1>1. /\ Len(t) = Len(s) - 1 /\ Head(s) = s[1]
      /\ \A k \in 1 .. Len(s) - 1 : t[k] = s[k + 1]
  BY PoppedHead
<1>2. Len(s) \in Nat /\ Len(s) > 0
  BY EmptySeq
<1> HIDE DEF t
<1>3. Head(s) \in Entries(s)
  BY <1>1, <1>2 DEF Entries
<1>4. Entries(t) \subseteq Entries(s) \ {Head(s)}
  <2> SUFFICES ASSUME NEW k \in 1 .. Len(t)
               PROVE  t[k] \in Entries(s) /\ t[k] # Head(s)
    BY DEF Entries
  <2>1. k + 1 \in 1 .. Len(s) /\ k + 1 # 1 /\ t[k] = s[k + 1] /\ 1 \in 1 .. Len(s)
    BY <1>1, <1>2
  <2> QED
    BY <1>1, <2>1 DEF Entries, Distinct
<1>5. Entries(s) \ {Head(s)} \subseteq Entries(t)
  <2> SUFFICES ASSUME NEW k \in 1 .. Len(s), s[k] # Head(s)
               PROVE  s[k] \in Entries(t)
    BY DEF Entries
  <2>1. k - 1 \in 1 .. Len(t) /\ t[k - 1] = s[k]
    BY <1>1, <1>2
  <2> QED
    BY <2>1 DEF Entries
<1>6. Distinct(t)
  <2> SUFFICES ASSUME NEW i \in 1 .. Len(t), NEW j \in 1 .. Len(t), t[i] = t[j]
               PROVE  i = j
    BY DEF Distinct
  <2>1. /\ i + 1 \in 1 .. Len(s) /\ j + 1 \in 1 .. Len(s)
        /\ s[i + 1] = s[j + 1]
    BY <1>1, <1>2
  <2>2. i + 1 = j + 1
    BY <2>1 DEF Distinct
  <2> QED
    BY <1>1, <1>2, <2>2
<1> QED
  BY <1>3, <1>4, <1>5, <1>6 DEF t

(* A list that grows at its end.                                           *)
LEMMA EndJoins ==
  ASSUME NEW s \in Seq(Nat), NEW id \in Nat, id \notin Entries(s), Distinct(s)
  PROVE  Entries(Append(s, id)) = Entries(s) \cup {id} /\ Distinct(Append(s, id))
<1> DEFINE t == Append(s, id)
<1>1. /\ Len(t) = Len(s) + 1 /\ t[Len(s) + 1] = id
      /\ \A k \in 1 .. Len(s) : t[k] = s[k]
  BY AppendProperties
<1>2. Len(s) \in Nat
  OBVIOUS
<1> HIDE DEF t
<1>3. \A k \in 1 .. Len(t) : k = Len(s) + 1 \/ k \in 1 .. Len(s)
  BY <1>1, <1>2
<1>4. Entries(t) \subseteq Entries(s) \cup {id}
  BY <1>1, <1>3 DEF Entries
<1>5. Entries(s) \cup {id} \subseteq Entries(t)
  BY <1>1, <1>2 DEF Entries
<1>6. Distinct(t)
  BY <1>1, <1>3 DEF Distinct, Entries
<1> QED
  BY <1>4, <1>5, <1>6 DEF t

(* A list of distinct entries has as many entries as it is long, and no    *)
(* list has more.                                                          *)
LEMMA DistinctCount ==
  ASSUME NEW S, NEW s \in Seq(S)
  PROVE  /\ IsFiniteSet(Entries(s)) /\ Cardinality(Entries(s)) <= Len(s)
         /\ Distinct(s) => Cardinality(Entries(s)) = Len(s)
<1> DEFINE I == 1 .. Len(s)
<1>1. Len(s) \in Nat
  OBVIOUS
<1>2. IsFiniteSet(I) /\ Cardinality(I) = Len(s)
  <2>1. 1 \in Int /\ Len(s) \in Int
    BY <1>1
  <2>2. /\ IsFiniteSet(I)
        /\ Cardinality(I) = IF 1 > Len(s) THEN 0 ELSE Len(s) - 1 + 1
    BY <2>1, FS_Interval
  <2> QED
    BY <1>1, <2>2
<1>3. s \in Surjection(I, Entries(s))
  BY DEF Surjection, Entries
<1>4. IsFiniteSet(Entries(s)) /\ Cardinality(Entries(s)) <= Len(s)
  BY <1>2, <1>3, FS_Surjection DEF ExistsSurjection
<1>5. ASSUME Distinct(s) PROVE Cardinality(Entries(s)) = Len(s)
  <2>1. s \in [I -> Entries(s)]
    BY <1>3 DEF Surjection
  <2>2. s \in Injection(I, Entries(s))
    BY <1>5, <2>1 DEF Injection, IsInjective, Distinct
  <2> QED
    BY <1>2, <1>3, <2>2, FS_Surjection
<1> QED
  BY <1>4, <1>5

=============================================================================
