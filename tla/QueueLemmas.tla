----------------------------- MODULE QueueLemmas -----------------------------
(* Lemmas about the sequences that stand for queues.                        *)
EXTENDS Integers, Sequences, SequenceTheorems, TLAPS

\* A function on the first numbers is a sequence.
LEMMA FunctionIsSeq ==
    ASSUME NEW S, NEW n \in Nat, NEW f \in [1 .. n -> S]
    PROVE  f \in Seq(S) /\ Len(f) = n
    BY SeqDef

\* The first element moves from one sequence to the end of another.
LEMMA MoveOne ==
    ASSUME NEW S, NEW s \in Seq(S), NEW t \in Seq(S), t # <<>>
    PROVE  Append(s, Head(t)) \o Tail(t) = s \o t
<1>1. Head(t) \in S /\ Tail(t) \in Seq(S) /\ Len(Tail(t)) = Len(t) - 1
      /\ \A i \in 1 .. Len(Tail(t)) : Tail(t)[i] = t[i + 1]
    BY HeadTailProperties
<1>2. Head(t) = t[1] /\ Len(t) \in Nat \ {0} /\ Len(s) \in Nat
    BY LenProperties, EmptySeq
<1> DEFINE a == Append(s, Head(t))
<1>3. /\ a \in Seq(S) /\ Len(a) = Len(s) + 1
      /\ \A i \in 1 .. Len(s) : a[i] = s[i]
      /\ a[Len(s) + 1] = t[1]
    BY <1>1, <1>2, AppendProperties
<1> HIDE DEF a
<1>4. /\ a \o Tail(t) \in Seq(S)
      /\ Len(a \o Tail(t)) = Len(a) + Len(Tail(t))
      /\ \A i \in 1 .. Len(a) + Len(Tail(t)) :
             (a \o Tail(t))[i] =
                 IF i <= Len(a) THEN a[i] ELSE Tail(t)[i - Len(a)]
    BY <1>1, <1>3, ConcatProperties
<1>5. /\ s \o t \in Seq(S) /\ Len(s \o t) = Len(s) + Len(t)
      /\ \A i \in 1 .. Len(s) + Len(t) :
             (s \o t)[i] = IF i <= Len(s) THEN s[i] ELSE t[i - Len(s)]
    BY ConcatProperties
<1>6. Len(a \o Tail(t)) = Len(s \o t)
    BY <1>1, <1>2, <1>3, <1>4, <1>5
<1>7. ASSUME NEW i \in 1 .. Len(a \o Tail(t))
      PROVE  (a \o Tail(t))[i] = (s \o t)[i]
    <2>0. i \in Nat /\ i \in 1 .. Len(s) + Len(t)
          /\ i \in 1 .. Len(a) + Len(Tail(t))
        BY <1>2, <1>4, <1>5, <1>6, <1>7
    <2>1. CASE i <= Len(s)
        BY <2>0, <2>1, <1>2, <1>3, <1>4, <1>5
    <2>2. CASE i = Len(s) + 1
        BY <2>0, <2>2, <1>2, <1>3, <1>4, <1>5
    <2>3. CASE i > Len(s) + 1
        <3>1. i - Len(a) \in 1 .. Len(Tail(t))
              /\ i - Len(a) + 1 = i - Len(s)
            BY <2>0, <2>3, <1>1, <1>2, <1>3
        <3>2. (a \o Tail(t))[i] = Tail(t)[i - Len(a)]
            BY <2>0, <2>3, <1>2, <1>3, <1>4
        <3>3. (s \o t)[i] = t[i - Len(s)]
            BY <2>0, <2>3, <1>2, <1>5
        <3> QED BY <3>1, <3>2, <3>3, <1>1
    <2> QED BY SMTT(30), <2>0, <2>1, <2>2, <2>3, <1>2
<1> QED BY <1>4, <1>5, <1>6, <1>7, SeqEqual DEF a

=============================================================================
