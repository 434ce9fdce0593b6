------------------------------ MODULE TrafficProofs -----------------------------
(***************************************************************************)
(* What travels in a match, for every value of the constants: the gate of  *)
(* the server alone bounds the rate of any sender (InputGate); behind it   *)
(* the intents of a client are carried out once and in their order, and a  *)
(* client that keeps to its slots is never rejected (InputPipeline); the   *)
(* relay keeps the limit of talkers (VoiceRelay); what a client says goes  *)
(* out in whole streams (VoiceStreams), and is heard in the order it was   *)
(* spoken (VoicePlayback); keyframes repair what the channel of the        *)
(* collectibles loses (WorldReplication).                                  *)
(***************************************************************************)
EXTENDS Traffic, FiniteSetTheorems, TLAPS

-----------------------------------------------------------------------------
(* The gate bounds the rate of any sender                                  *)

(* The parameters of the gate.                                             *)
LEMMA GateFacts ==
  Capacity \in Nat /\ Rate \in Nat /\ Cost \in Nat \ {0} /\ GateSpan \in Nat \ {0}
BY AdmissionParameters, TrafficParameters

USE GateFacts

(* Refill keeps an admission well formed, notes the time, never takes      *)
(* tokens away and adds no more than the refill of the time that passed    *)
(* (Refill).                                                               *)
LEMMA RefillFacts ==
  ASSUME NEW t \in Nat, Gate!TypeOK, t = clock
  PROVE  LET b == Gate!Refill(bucket, t)
         IN /\ b \in [initialized : BOOLEAN, has : BOOLEAN, last : 0..(GateSpan - 1),
                      refilled : 0..t, tokens : 0..Capacity]
            /\ b.initialized /\ b.refilled = t
            /\ bucket.initialized =>
                 b.tokens <= bucket.tokens + Rate * (t - bucket.refilled)
<1> DEFINE step == (t - bucket.refilled) * Rate
           kept == Gate!AtMost(bucket.tokens + step, Capacity)
<1>1. step \in Nat /\ step = Rate * (t - bucket.refilled)
  BY DEF Gate!TypeOK
<1>2. kept \in 0..Capacity /\ kept <= bucket.tokens + step
  BY <1>1 DEF Gate!AtMost, Gate!TypeOK
<1>3. CASE ~bucket.initialized
  <2>1. Gate!Refill(bucket, t)
          = [initialized |-> TRUE, has |-> bucket.has, last |-> bucket.last,
             refilled |-> t, tokens |-> Capacity]
    BY <1>3 DEF Gate!Refill, Gate!TypeOK
  <2> QED BY <1>3, <2>1 DEF Gate!TypeOK
<1>4. CASE bucket.initialized
  <2>1. ~(t < bucket.refilled)
    BY DEF Gate!TypeOK
  <2>2. Gate!Refill(bucket, t)
          = [initialized |-> TRUE, has |-> bucket.has, last |-> bucket.last,
             refilled |-> t, tokens |-> kept]
    BY <1>4, <2>1 DEF Gate!Refill, Gate!TypeOK
  <2> HIDE DEF kept, step
  <2> QED BY <1>1, <1>2, <1>4, <2>2 DEF Gate!TypeOK
<1> QED BY <1>3, <1>4

(* The check spends one token on every packet that it does not reject for  *)
(* the rate (ShroomInputAdmissionCheck).                                   *)
LEMMA CheckFacts ==
  ASSUME NEW sequence \in 0..(GateSpan - 1), Gate!TypeOK
  PROVE  LET b == Gate!Refill(bucket, clock)
             c == Gate!Checked(bucket, sequence, clock)
         IN /\ c \in [initialized : BOOLEAN, has : BOOLEAN, last : 0..(GateSpan - 1),
                      refilled : 0..clock, tokens : 0..Capacity]
            /\ c.initialized /\ c.refilled = clock
            /\ c.tokens <= b.tokens
            /\ Gate!CheckResult(bucket, sequence, clock) = "admitted" => c.tokens = b.tokens - Cost
<1> DEFINE b == Gate!Refill(bucket, clock)
<1>0. clock \in Nat BY DEF Gate!TypeOK
<1>1. /\ b \in [initialized : BOOLEAN, has : BOOLEAN, last : 0..(GateSpan - 1),
               refilled : 0..clock, tokens : 0..Capacity]
      /\ b.initialized /\ b.refilled = clock
  BY <1>0, RefillFacts
<1> HIDE DEF b
<1>2. CASE b.tokens < Cost
  <2>1. Gate!Checked(bucket, sequence, clock) = b /\ Gate!CheckResult(bucket, sequence, clock) = "rate"
    BY <1>1, <1>2 DEF Gate!Checked, Gate!CheckResult, b
  <2> QED BY <1>1, <2>1 DEF b
<1>3. CASE ~(b.tokens < Cost)
  <2>1. b.tokens >= Cost BY <1>1, <1>3
  <2>2. b.tokens - Cost \in 0..Capacity /\ b.tokens - Cost <= b.tokens BY <1>1, <2>1
  <2>3. CASE Gate!Stale(b, sequence)
    <3>1. /\ Gate!Checked(bucket, sequence, clock) = [b EXCEPT !.tokens = b.tokens - Cost]
          /\ Gate!CheckResult(bucket, sequence, clock) = "stale"
      BY <1>1, <1>3, <2>1, <2>3 DEF Gate!Checked, Gate!CheckResult, b
    <3> QED BY <1>1, <2>2, <3>1 DEF b
  <2>4. CASE ~Gate!Stale(b, sequence)
    <3>1. Gate!Checked(bucket, sequence, clock)
            = [b EXCEPT !.tokens = b.tokens - Cost, !.has = TRUE, !.last = sequence]
      BY <1>1, <1>3, <2>1, <2>4 DEF Gate!Checked, b
    <3> QED BY <1>1, <2>2, <3>1 DEF b
  <2> QED BY <2>3, <2>4
<1> QED BY <1>2, <1>3

(* The types and the bucket bound are inductive. *)
LEMMA InductiveBound == Gate!Spec => [](Gate!TypeOK /\ Gate!BucketBounded)
<1>1. Gate!Init => Gate!TypeOK /\ Gate!BucketBounded
  BY DEF Gate!Init, Gate!TypeOK, Gate!BucketBounded, Gate!NewAdmission
<1>2. Gate!TypeOK /\ Gate!BucketBounded /\ [Gate!Next]_Gate!vars => (Gate!TypeOK /\ Gate!BucketBounded)'
  <2> SUFFICES ASSUME Gate!TypeOK, Gate!BucketBounded, [Gate!Next]_Gate!vars PROVE (Gate!TypeOK /\ Gate!BucketBounded)'
    OBVIOUS
  <2>1. CASE Gate!Advance
    BY <2>1 DEF Gate!Advance, Gate!TypeOK, Gate!BucketBounded
  <2>2. CASE Gate!Observe
    <3>1. Gate!TypeOK' BY <2>2 DEF Gate!Observe, Gate!TypeOK
    <3>2. bucket.refilled <= clock /\ bucket.tokens <= Capacity /\ bucket.tokens \in Nat
      BY DEF Gate!TypeOK
    <3>3. bucket.refilled >= clock => Rate * (bucket.refilled - clock) = 0
      BY <3>2 DEF Gate!TypeOK
    <3>4. Gate!BucketBounded'
      BY <2>2, <3>2, <3>3 DEF Gate!Observe, Gate!BucketBounded, Gate!TypeOK
    <3> QED BY <3>1, <3>4
  <2>3. ASSUME NEW sequence \in GateArriving, Gate!Arrive(sequence) PROVE (Gate!TypeOK /\ Gate!BucketBounded)'
    <3> DEFINE b == Gate!Refill(bucket, clock)
               c == Gate!Checked(bucket, sequence, clock)
               n == IF Gate!CheckResult(bucket, sequence, clock) = "admitted" THEN 1 ELSE 0
    <3>0. sequence \in 0..(GateSpan - 1) /\ clock \in Nat
      BY TrafficParameters DEF Gate!TypeOK, Gate!GateParameters
    <3>1. /\ c \in [initialized : BOOLEAN, has : BOOLEAN, last : 0..(GateSpan - 1),
                    refilled : 0..clock, tokens : 0..Capacity]
          /\ c.initialized /\ c.refilled = clock /\ c.tokens <= b.tokens
          /\ Gate!CheckResult(bucket, sequence, clock) = "admitted" => c.tokens = b.tokens - Cost
      BY <3>0, CheckFacts
    <3>2. /\ b.tokens \in 0..Capacity
          /\ bucket.initialized =>
               b.tokens <= bucket.tokens + Rate * (clock - bucket.refilled)
      BY <3>0, RefillFacts
    <3>3. bucket' = c /\ admitted' = admitted + n /\ clock' = clock /\ mark' = mark
      BY <2>3 DEF Gate!Arrive, Gate!TypeOK
    <3> HIDE DEF c, b
    <3>4. c.tokens + n * Cost <= b.tokens /\ n \in {0, 1}
      BY <3>1, <3>2
    <3> HIDE DEF n
    <3>5. Gate!TypeOK' BY <3>1, <3>3, <3>4 DEF Gate!TypeOK
    <3>6. (admitted + n) * Cost = admitted * Cost + n * Cost
      BY <3>4 DEF Gate!TypeOK
    <3>7. admitted * Cost + b.tokens <= Capacity + Rate * (clock - mark)
      <4>1. CASE bucket.initialized /\ bucket.refilled >= mark
        <5> DEFINE r == bucket.refilled
        <5>1. r \in Nat /\ mark \in Nat BY DEF Gate!TypeOK
        <5>2. Rate * (clock - r) + Rate * (r - mark) = Rate * (clock - mark)
          BY <3>0, <5>1
        <5>3. admitted * Cost + bucket.tokens <= Capacity + Rate * (r - mark)
          BY <4>1 DEF Gate!BucketBounded
        <5>4. b.tokens <= bucket.tokens + Rate * (clock - r) BY <3>2, <4>1
        <5>5. admitted * Cost \in Nat /\ bucket.tokens \in Nat /\ Rate * (clock - r) \in Int
              /\ Rate * (r - mark) \in Int /\ Rate * (clock - mark) \in Int
          BY <3>0, <5>1 DEF Gate!TypeOK
        <5> HIDE DEF r
        <5> QED BY <3>2, <5>2, <5>3, <5>4, <5>5
      <4>2. CASE ~bucket.initialized \/ bucket.refilled < mark
        <5>1. admitted = 0 BY <4>2 DEF Gate!BucketBounded
        <5>2. Rate * (clock - mark) \in Nat BY <3>0 DEF Gate!TypeOK
        <5> QED BY <3>2, <5>1, <5>2
      <4> QED BY <4>1, <4>2 DEF Gate!TypeOK
    <3>8. Gate!BucketBounded'
      <4>1. admitted * Cost \in Nat /\ n * Cost \in Nat /\ Rate * (clock - mark) \in Int
            /\ c.tokens \in Nat /\ b.tokens \in Nat
        BY <3>0, <3>1, <3>2, <3>4 DEF Gate!TypeOK
      <4>2. (admitted + n) * Cost + c.tokens <= Capacity + Rate * (clock - mark)
        BY <3>4, <3>6, <3>7, <4>1
      <4>3. mark <= clock BY DEF Gate!TypeOK
      <4> QED BY <3>0, <3>1, <3>3, <4>2, <4>3 DEF Gate!BucketBounded, Gate!TypeOK
    <3> QED BY <3>5, <3>8
  <2>4. CASE UNCHANGED Gate!vars
    BY <2>4 DEF Gate!vars, Gate!TypeOK, Gate!BucketBounded
  <2> QED BY <2>1, <2>2, <2>3, <2>4 DEF Gate!Next
<1> QED BY <1>1, <1>2, PTL DEF Gate!Spec

(* Between any two moments the server admits at most one burst and the     *)
(* refill of the time between them.                                        *)
THEOREM RateIsBounded == Gate!Spec => []RateBounded
<1>1. Gate!TypeOK /\ Gate!BucketBounded => Gate!RateBounded
  <2> SUFFICES ASSUME Gate!TypeOK, Gate!BucketBounded PROVE Gate!RateBounded
    OBVIOUS
  <2> DEFINE r == bucket.refilled
  <2>0. r \in 0..clock /\ mark \in 0..clock /\ clock \in Nat /\ bucket.tokens \in Nat
        /\ admitted * Cost \in Nat /\ Rate * (clock - mark) \in Nat
    BY DEF Gate!TypeOK
  <2>1. CASE r >= mark
    <3>1. admitted * Cost + bucket.tokens <= Capacity + Rate * (r - mark)
      BY <2>1 DEF Gate!BucketBounded
    <3>2. Rate * (clock - r) + Rate * (r - mark) = Rate * (clock - mark)
      BY <2>0
    <3>3. Rate * (clock - r) \in Nat /\ Rate * (r - mark) \in Nat
      BY <2>0, <2>1
    <3> HIDE DEF r
    <3> QED BY <2>0, <3>1, <3>2, <3>3 DEF Gate!RateBounded
  <2>2. CASE r < mark
    <3>1. admitted = 0 BY <2>2 DEF Gate!BucketBounded
    <3> QED BY <2>0, <3>1 DEF Gate!RateBounded
  <2> QED BY <2>0, <2>1, <2>2
<1> QED BY <1>1, InductiveBound, PTL DEF RateBounded

(* The bucket never holds less than nothing or more than one burst         *)
(* (Refill, ShroomInputAdmissionCheck).                                    *)
THEOREM GateTypeCorrect == Gate!Spec => []Gate!TypeOK
<1> QED BY InductiveBound, PTL

HIDE GateFacts

-----------------------------------------------------------------------------
(* Sequences                                                               *)

(* The parameters one by one.                                              *)
LEMMA Parameters ==
  /\ Interval \in Nat /\ Interval > 0 /\ MaxHeld \in Nat /\ MaxSent \in Nat /\ 2 * MaxSent < SeqSpan
  /\ Capacity \in Nat /\ Cost \in Nat /\ Rate \in Nat /\ SeqSpan \in Nat
BY PipelineParameters, AdmissionParameters

(* A packet and what the sequences of the model hold.                      *)
Packets == [sequence : Nat, intent : Nat]

(* The first of a sequence taken away (Receive, Commit).                   *)
LEMMA TailFacts ==
  ASSUME NEW S, NEW s \in Seq(S), s # <<>>
  PROVE  /\ Tail(s) \in Seq(S) /\ Len(Tail(s)) = Len(s) - 1 /\ Head(s) = s[1] /\ Head(s) \in S
         /\ \A i \in DOMAIN Tail(s) : i + 1 \in DOMAIN s /\ Tail(s)[i] = s[i + 1]
         /\ 1 \in DOMAIN s
OBVIOUS

(* An element more at the end (QueueActions, Receive).                     *)
LEMMA AppendFacts ==
  ASSUME NEW S, NEW s \in Seq(S), NEW x \in S
  PROVE  /\ Append(s, x) \in Seq(S) /\ Len(s) \in Nat /\ Len(Append(s, x)) = Len(s) + 1
         /\ DOMAIN s = 1..Len(s) /\ DOMAIN Append(s, x) = 1..(Len(s) + 1)
         /\ \A i \in DOMAIN Append(s, x) : Append(s, x)[i] = IF i \in DOMAIN s THEN s[i] ELSE x
OBVIOUS

(* What a sequence holds.                                                  *)
LEMMA ElementFacts ==
  ASSUME NEW S, NEW s \in Seq(S), NEW i \in DOMAIN s
  PROVE  s[i] \in S
OBVIOUS

(* One of a sequence taken away: the order of the others stays (Lose).     *)
LEMMA RemoveFacts ==
  ASSUME NEW S, NEW s \in Seq(S), NEW i \in DOMAIN s
  PROVE  /\ RemoveAt(s, i) \in Seq(S) /\ Len(RemoveAt(s, i)) = Len(s) - 1
         /\ \A j \in DOMAIN RemoveAt(s, i) :
              /\ j \in Nat /\ j + 1 \in DOMAIN s /\ j \in DOMAIN s
              /\ RemoveAt(s, i)[j] = s[IF j < i THEN j ELSE j + 1]
<1> DEFINE a == SubSeq(s, 1, i - 1)
           b == SubSeq(s, i + 1, Len(s))
<1>1. i \in 1..Len(s) /\ Len(s) \in Nat
  OBVIOUS
<1>2. a \in Seq(S) /\ Len(a) = i - 1 /\ \A j \in 1..(i - 1) : a[j] = s[j]
  BY <1>1
<1>3. b \in Seq(S) /\ Len(b) = Len(s) - i /\ \A j \in 1..(Len(s) - i) : b[j] = s[i + j]
  BY <1>1
<1>4. RemoveAt(s, i) = a \o b
  BY DEF RemoveAt
<1> HIDE DEF a, b
<1>5. a \o b \in Seq(S) /\ Len(a \o b) = Len(s) - 1
  BY <1>1, <1>2, <1>3
<1>6. ASSUME NEW j \in DOMAIN (a \o b)
      PROVE  /\ j \in Nat /\ j + 1 \in DOMAIN s /\ j \in DOMAIN s
             /\ (a \o b)[j] = s[IF j < i THEN j ELSE j + 1]
  <2>1. j \in 1..(Len(s) - 1)
    BY <1>1, <1>5
  <2>2. CASE j < i
    <3>1. (a \o b)[j] = a[j]
      BY <1>1, <1>2, <1>3, <2>1, <2>2
    <3> QED BY <1>1, <1>2, <2>1, <2>2, <3>1
  <2>3. CASE ~(j < i)
    <3>1. PICK m \in 1..(Len(s) - i) : m = j - (i - 1)
      BY <1>1, <2>1, <2>3
    <3>2. (a \o b)[j] = b[m]
      <4>1. a \in Seq(S) /\ b \in Seq(S) /\ j \in 1..(Len(a) + Len(b)) /\ ~(j <= Len(a)) /\ Len(a) \in Nat
        BY <1>1, <1>2, <1>3, <2>1, <2>3
      <4>2. (a \o b)[j] = b[j - Len(a)]
        BY <4>1
      <4> QED BY <1>2, <3>1, <4>2
    <3>3. i + m = j + 1
      BY <1>1, <2>1, <3>1
    <3>4. b[m] = s[i + m]
      BY <1>3
    <3> QED BY <1>1, <2>1, <2>3, <3>2, <3>3, <3>4
  <2> QED BY <2>2, <2>3
<1> QED BY <1>4, <1>5, <1>6

-----------------------------------------------------------------------------
(* Intents are carried out in the order of the key presses                 *)

Intents == Nat \ {0}

(* The intents that were carried out, those on their way and those of the  *)
(* queue form one line in the order of their numbers, all below the next.  *)
InLine(done, packets, queue, next) ==
  /\ \A i, j \in DOMAIN done : i < j => done[i] < done[j]
  /\ \A k, l \in DOMAIN packets :
        k < l /\ packets[l].intent # NoIntent => packets[k].intent < packets[l].intent
  /\ \A q, r \in DOMAIN queue : q < r => queue[q] < queue[r]
  /\ \A i \in DOMAIN done, k \in DOMAIN packets :
        packets[k].intent # NoIntent => done[i] < packets[k].intent
  /\ \A i \in DOMAIN done, q \in DOMAIN queue : done[i] < queue[q]
  /\ \A k \in DOMAIN packets, q \in DOMAIN queue : packets[k].intent < queue[q]
  /\ \A i \in DOMAIN done : done[i] < next
  /\ \A k \in DOMAIN packets : packets[k].intent < next
  /\ \A q \in DOMAIN queue : queue[q] < next

(* The numbers in the line.                                                *)
LEMMA LineNumbers ==
  ASSUME NEW d \in Seq(Intents), NEW p \in Seq(Packets), NEW q \in Seq(Intents)
  PROVE  /\ \A i \in DOMAIN d : d[i] \in Nat
         /\ \A i \in DOMAIN p : p[i].intent \in Nat /\ p[i] \in Packets
         /\ \A i \in DOMAIN q : q[i] \in Nat
<1>1. \A i \in DOMAIN d : d[i] \in Intents
  BY ElementFacts
<1>2. \A i \in DOMAIN p : p[i] \in Packets
  BY ElementFacts
<1>3. \A i \in DOMAIN q : q[i] \in Intents
  BY ElementFacts
<1> QED BY <1>1, <1>2, <1>3 DEF Packets, Intents

(* A new intent joins the end of the line (QueueActions).                  *)
LEMMA LineQueues ==
  ASSUME NEW d \in Seq(Intents), NEW p \in Seq(Packets), NEW q \in Seq(Intents), NEW n \in Intents,
         InLine(d, p, q, n)
  PROVE  InLine(d, p, Append(q, n), n + 1)
<1> DEFINE a == Append(q, n)
<1>1. /\ DOMAIN a = 1..(Len(q) + 1) /\ DOMAIN q = 1..Len(q) /\ Len(q) \in Nat
      /\ \A i \in DOMAIN a : a[i] = IF i \in DOMAIN q THEN q[i] ELSE n
      /\ \A i \in DOMAIN q : q[i] \in Nat
      /\ \A i \in DOMAIN p : p[i].intent \in Nat
      /\ \A i \in DOMAIN d : d[i] \in Nat
  BY AppendFacts, LineNumbers
<1> HIDE DEF a
<1>2. \A i, j \in DOMAIN a : i < j => a[i] < a[j]
  BY <1>1 DEF InLine, Intents
<1>3. \A i \in DOMAIN d, j \in DOMAIN a : d[i] < a[j]
  BY <1>1 DEF InLine, Intents
<1>4. \A i \in DOMAIN p, j \in DOMAIN a : p[i].intent < a[j]
  BY <1>1 DEF InLine, Intents
<1>5. /\ \A i \in DOMAIN d : d[i] < n + 1
      /\ \A i \in DOMAIN p : p[i].intent < n + 1
      /\ \A i \in DOMAIN a : a[i] < n + 1
  BY <1>1 DEF InLine, Intents
<1> HIDE DEF a
<1>6. InLine(d, p, a, n + 1)
  BY <1>2, <1>3, <1>4, <1>5 DEF InLine
<1> QED BY <1>6 DEF a

(* The head of the queue becomes a packet (Prepare, Commit).               *)
LEMMA LineSends ==
  ASSUME NEW d \in Seq(Intents), NEW p \in Seq(Packets), NEW q \in Seq(Intents), NEW n \in Intents,
         InLine(d, p, q, n), NEW sequence \in Nat
  PROVE  InLine(d, Append(p, [sequence |-> sequence, intent |-> IF q = <<>> THEN NoIntent ELSE Head(q)]),
                IF q = <<>> THEN q ELSE Tail(q), n)
<1> DEFINE intent == IF q = <<>> THEN NoIntent ELSE Head(q)
           x == [sequence |-> sequence, intent |-> intent]
           a == Append(p, x)
           t == IF q = <<>> THEN q ELSE Tail(q)
<1>0. x \in Packets
  <2>1. CASE q = <<>>
    BY <2>1 DEF Packets, NoIntent
  <2>2. CASE q # <<>>
    BY <2>2, TailFacts DEF Packets, Intents
  <2> QED BY <2>1, <2>2
<1>1. /\ DOMAIN a = 1..(Len(p) + 1) /\ DOMAIN p = 1..Len(p) /\ Len(p) \in Nat
      /\ \A i \in DOMAIN a : a[i] = IF i \in DOMAIN p THEN p[i] ELSE x
      /\ \A i \in DOMAIN q : q[i] \in Nat
      /\ \A i \in DOMAIN p : p[i].intent \in Nat
      /\ \A i \in DOMAIN d : d[i] \in Nat
  <2> HIDE DEF x
  <2> QED BY <1>0, AppendFacts, LineNumbers
<1>2. /\ x.intent \in Nat
      /\ x.intent # NoIntent => 1 \in DOMAIN q /\ x.intent = q[1] /\ q # <<>>
      /\ \A i \in DOMAIN t : \E j \in DOMAIN q : j \in Nat /\ j > 1 /\ j = i + 1 /\ t[i] = q[j]
      /\ \A i \in DOMAIN t : i \in Nat
      /\ q = <<>> => x.intent = NoIntent /\ t = <<>>
      /\ q # <<>> => 1 \in DOMAIN q /\ x.intent = q[1]
  <2>1. CASE q = <<>>
    BY <2>1 DEF NoIntent
  <2>2. CASE q # <<>>
    BY <2>2, TailFacts DEF Intents
  <2> QED BY <2>1, <2>2
<1> HIDE DEF a, t, x, intent
<1>3. \A k, l \in DOMAIN a : k < l /\ a[l].intent # NoIntent => a[k].intent < a[l].intent
  BY <1>1, <1>2 DEF InLine
<1>4. \A i, j \in DOMAIN t : i < j => t[i] < t[j]
  BY <1>1, <1>2 DEF InLine
<1>5. \A i \in DOMAIN d, k \in DOMAIN a : a[k].intent # NoIntent => d[i] < a[k].intent
  BY <1>1, <1>2 DEF InLine
<1>6. \A i \in DOMAIN d, j \in DOMAIN t : d[i] < t[j]
  BY <1>1, <1>2 DEF InLine
<1>7. \A k \in DOMAIN a, j \in DOMAIN t : a[k].intent < t[j]
  BY <1>1, <1>2 DEF InLine
<1>8. /\ \A k \in DOMAIN a : a[k].intent < n
      /\ \A j \in DOMAIN t : t[j] < n
  <2>1. n \in Nat /\ n > 0 /\ NoIntent = 0
    BY DEF Intents, NoIntent
  <2>2. x.intent < n
    BY <1>1, <1>2, <2>1 DEF InLine
  <2> QED BY <1>1, <1>2, <2>1, <2>2 DEF InLine
<1>9. InLine(d, a, t, n)
  BY <1>3, <1>4, <1>5, <1>6, <1>7, <1>8 DEF InLine
<1> QED BY <1>9 DEF a, t, x, intent

(* The queue is emptied (Pause).                                           *)
LEMMA LinePauses ==
  ASSUME NEW d, NEW p, NEW q, NEW n, InLine(d, p, q, n)
  PROVE  InLine(d, p, <<>>, n)
BY DEF InLine

(* A packet is taken out of the line (Lose).                               *)
LEMMA LineLoses ==
  ASSUME NEW d, NEW p \in Seq(Packets), NEW q, NEW n, InLine(d, p, q, n), NEW i \in DOMAIN p
  PROVE  InLine(d, RemoveAt(p, i), q, n)
<1> DEFINE r == RemoveAt(p, i)
           at(j) == IF j < i THEN j ELSE j + 1
<1>1. \A j \in DOMAIN r : j \in Nat /\ at(j) \in DOMAIN p /\ r[j] = p[at(j)]
  BY RemoveFacts
<1>2. i \in Nat /\ \A j, k \in DOMAIN r : j < k => at(j) < at(k)
  BY <1>1
<1> HIDE DEF r, at
<1>3. InLine(d, r, q, n)
  BY <1>1, <1>2 DEF InLine
<1> QED BY <1>3 DEF r

(* The first packet arrives: its intent, if any, is carried out or lost    *)
(* (Receive, DropOutsideMatch).                                            *)
LEMMA LineArrives ==
  ASSUME NEW d \in Seq(Intents), NEW p \in Seq(Packets), NEW q \in Seq(Intents), NEW n \in Intents,
         InLine(d, p, q, n), p # <<>>
  PROVE  /\ InLine(d, Tail(p), q, n)
         /\ Head(p).intent # NoIntent => InLine(Append(d, Head(p).intent), Tail(p), q, n)
<1> DEFINE t == Tail(p)
           x == Head(p).intent
           a == Append(d, x)
<1>0. /\ \A j \in DOMAIN p : p[j].intent \in Nat
      /\ \A j \in DOMAIN q : q[j] \in Nat
      /\ \A j \in DOMAIN d : d[j] \in Nat
  BY LineNumbers
<1>1. /\ \A j \in DOMAIN t : j \in Nat /\ j > 0 /\ j + 1 \in DOMAIN p /\ t[j] = p[j + 1]
      /\ \A j, k \in DOMAIN t : j < k => j + 1 < k + 1
      /\ 1 \in DOMAIN p /\ x = p[1].intent /\ x \in Nat
  <2>1. /\ \A j \in DOMAIN t : j + 1 \in DOMAIN p /\ t[j] = p[j + 1]
        /\ 1 \in DOMAIN p /\ Head(p) = p[1] /\ t \in Seq(Packets)
    BY TailFacts
  <2>2. \A j \in DOMAIN t : j \in Nat /\ j > 0
    BY <2>1
  <2> QED BY <1>0, <2>1, <2>2
<1>2. /\ DOMAIN a = 1..(Len(d) + 1) /\ DOMAIN d = 1..Len(d) /\ Len(d) \in Nat
      /\ \A i \in DOMAIN a : a[i] = IF i \in DOMAIN d THEN d[i] ELSE x
  <2>1. d \in Seq(Nat)
    BY DEF Intents
  <2> QED BY <1>1, <2>1, AppendFacts
<1> HIDE DEF t, x, a
<1>3. InLine(d, t, q, n)
  BY <1>0, <1>1 DEF InLine
<1>4. ASSUME x # NoIntent PROVE InLine(a, t, q, n)
  <2>1. \A i, j \in DOMAIN a : i < j => a[i] < a[j]
    BY <1>0, <1>1, <1>2, <1>4 DEF InLine
  <2>2. \A i \in DOMAIN a, k \in DOMAIN t : t[k].intent # NoIntent => a[i] < t[k].intent
    <3>1. ASSUME NEW i \in DOMAIN d, NEW k \in DOMAIN t, t[k].intent # NoIntent
          PROVE  d[i] < t[k].intent
      BY <1>1, <3>1 DEF InLine
    <3>2. ASSUME NEW k \in DOMAIN t, t[k].intent # NoIntent
          PROVE  x < t[k].intent
      <4>1. 1 < k + 1 /\ t[k] = p[k + 1] /\ k + 1 \in DOMAIN p
        BY <1>1
      <4> QED BY <1>1, <3>2, <4>1 DEF InLine
    <3> QED BY <1>2, <3>1, <3>2
  <2>3. \A i \in DOMAIN a, k \in DOMAIN q : a[i] < q[k]
    BY <1>0, <1>1, <1>2, <1>4 DEF InLine
  <2>4. \A i \in DOMAIN a : a[i] < n
    BY <1>0, <1>1, <1>2, <1>4 DEF InLine
  <2> QED BY <1>3, <2>1, <2>2, <2>3, <2>4 DEF InLine
<1> QED BY <1>3, <1>4 DEF t, x, a

(* The scheduler between two frames.                                       *)
Schedulers == [elapsed : 0..(Interval - 1), queue : Seq(Intents), next : Intents]

Typed ==
  /\ now \in Nat /\ lastInput \in Nat
  /\ scheduler \in Schedulers
  /\ wire \in Seq(Packets)
  /\ acted \in Seq(Intents)

(* What the server can see of a frame: either one packet more with the     *)
(* head of the queue, when a slot has begun, or the queue alone            *)
(* (Frame: QueueActions, Prepare, SendInput, Commit).                      *)
LEMMA FrameFacts ==
  ASSUME Typed, NEW length \in Frames, NEW wanted \in BOOLEAN, NEW goes \in BOOLEAN,
         Frame(length, wanted, goes)
  PROVE  LET s == Queued(scheduler, wanted)
             e == scheduler.elapsed + length
             packet == [sequence |-> lastInput + 1,
                        intent |-> IF s.queue = <<>> THEN NoIntent ELSE Head(s.queue)]
         IN /\ s \in Schedulers /\ scheduler' \in Schedulers /\ length \in Nat /\ now' = now + length
            /\ \/ s.queue = scheduler.queue /\ s.next = scheduler.next
               \/ s.queue = Append(scheduler.queue, scheduler.next) /\ s.next = scheduler.next + 1
            /\ scheduler'.next = s.next
            /\ \/ /\ e >= Interval /\ scheduler'.elapsed = e % Interval
                  /\ lastInput < MaxSent /\ lastInput' = lastInput + 1
                  /\ Len(wire) < MaxHeld /\ wire' = Append(wire, packet)
                  /\ scheduler'.queue = IF s.queue = <<>> THEN s.queue ELSE Tail(s.queue)
               \/ /\ scheduler'.elapsed = (IF e >= Interval THEN e % Interval ELSE e)
                  /\ scheduler'.queue = s.queue /\ UNCHANGED <<lastInput, wire>>
            /\ UNCHANGED server
<1> DEFINE s == Queued(scheduler, wanted)
           e == scheduler.elapsed + length
           later == [s EXCEPT !.elapsed = @ + length]
           t == [later EXCEPT !.elapsed = @ % Interval]
           packet == [sequence |-> lastInput + 1,
                      intent |-> IF s.queue = <<>> THEN NoIntent ELSE Head(s.queue)]
<1>1. Interval \in Nat \ {0} /\ length \in Nat
  BY PipelineParameters
<1>2. scheduler.queue \in Seq(Intents) /\ scheduler.next \in Intents /\ scheduler.elapsed \in 0..(Interval - 1)
  BY DEF Typed, Schedulers
<1>3. Append(scheduler.queue, scheduler.next) \in Seq(Intents) /\ scheduler.next + 1 \in Intents
  BY <1>2 DEF Intents
<1>4. /\ s \in Schedulers /\ s.elapsed = scheduler.elapsed
      /\ \/ s.queue = scheduler.queue /\ s.next = scheduler.next
         \/ s.queue = Append(scheduler.queue, scheduler.next) /\ s.next = scheduler.next + 1
  BY <1>2, <1>3 DEF Queued, Typed, Schedulers
<1> HIDE DEF s
<1>5. e \in Nat /\ e % Interval \in 0..(Interval - 1)
  BY <1>1, <1>2
<1>6. later = [elapsed |-> e, queue |-> s.queue, next |-> s.next]
  BY <1>4 DEF Schedulers
<1>7. t = [elapsed |-> e % Interval, queue |-> s.queue, next |-> s.next]
  <2> HIDE DEF later, e
  <2> QED BY <1>6
<1>8. /\ now' = now + length /\ UNCHANGED server
      /\ \/ /\ later.elapsed >= Interval
            /\ lastInput < MaxSent /\ Len(wire) < MaxHeld
            /\ lastInput' = lastInput + 1
            /\ wire' = Append(wire, [sequence |-> lastInput + 1,
                                     intent |-> IF later.queue = <<>> THEN NoIntent ELSE Head(later.queue)])
            /\ scheduler' = Committed(t)
         \/ /\ scheduler' = IF later.elapsed >= Interval THEN t ELSE later
            /\ UNCHANGED <<lastInput, wire>>
  BY DEF Frame, s
<1> HIDE DEF later, t, e
<1>9. CASE /\ later.elapsed >= Interval
           /\ lastInput < MaxSent /\ Len(wire) < MaxHeld
           /\ lastInput' = lastInput + 1
           /\ wire' = Append(wire, [sequence |-> lastInput + 1,
                                    intent |-> IF later.queue = <<>> THEN NoIntent ELSE Head(later.queue)])
           /\ scheduler' = Committed(t)
  <2>1. later.elapsed = e /\ later.queue = s.queue
    BY <1>6
  <2>2. Tail(s.queue) \in Seq(Intents) \/ s.queue = <<>>
    BY <1>4, TailFacts DEF Schedulers
  <2>3. scheduler' = [elapsed |-> e % Interval, next |-> s.next,
                      queue |-> IF s.queue = <<>> THEN s.queue ELSE Tail(s.queue)]
    BY <1>7, <1>9 DEF Committed
  <2>4. scheduler' \in Schedulers
    BY <1>4, <1>5, <2>2, <2>3 DEF Schedulers
  <2> HIDE DEF Schedulers
  <2> QED BY <1>1, <1>4, <1>8, <1>9, <2>1, <2>3, <2>4 DEF s, e
<1>10. CASE /\ scheduler' = IF later.elapsed >= Interval THEN t ELSE later
            /\ UNCHANGED <<lastInput, wire>>
  <2>1. later.elapsed = e
    BY <1>6
  <2>2. scheduler' = [elapsed |-> IF e >= Interval THEN e % Interval ELSE e, queue |-> s.queue, next |-> s.next]
    BY <1>6, <1>7, <1>10, <2>1
  <2>3. scheduler' \in Schedulers
    BY <1>1, <1>4, <1>5, <2>2 DEF Schedulers
  <2> HIDE DEF Schedulers
  <2> QED BY <1>1, <1>4, <1>8, <1>10, <2>2, <2>3 DEF s, e
<1> QED BY <1>8, <1>9, <1>10

(* The line is kept by every step.                                         *)
OneLine == InLine(acted, wire, scheduler.queue, scheduler.next)

LEMMA LineInductive == Spec => [](Typed /\ OneLine)
<1>1. Init => Typed /\ OneLine
  <2> SUFFICES ASSUME Init PROVE Typed /\ OneLine
    OBVIOUS
  <2>1. scheduler = [elapsed |-> 0, queue |-> <<>>, next |-> 1] /\ 0 \in 0..(Interval - 1)
    BY PipelineParameters DEF Init, NewScheduler
  <2>2. Typed
    BY <2>1 DEF Init, Typed, Schedulers, Intents
  <2> QED BY <2>1, <2>2 DEF Init, OneLine, InLine
<1>2. Typed /\ OneLine /\ [Next]_vars => (Typed /\ OneLine)'
  <2> SUFFICES ASSUME Typed, OneLine, [Next]_vars PROVE (Typed /\ OneLine)'
    OBVIOUS
  <2>0. /\ acted \in Seq(Intents) /\ wire \in Seq(Packets) /\ scheduler \in Schedulers
        /\ scheduler.queue \in Seq(Intents) /\ scheduler.next \in Intents
        /\ lastInput \in Nat /\ now \in Nat
        /\ InLine(acted, wire, scheduler.queue, scheduler.next)
    BY DEF Typed, OneLine, Schedulers
  <2>1. ASSUME NEW length \in Frames, NEW wanted \in BOOLEAN, NEW goes \in BOOLEAN,
               Frame(length, wanted, goes)
        PROVE  (Typed /\ OneLine)'
    <3> DEFINE s == Queued(scheduler, wanted)
               packet == [sequence |-> lastInput + 1,
                          intent |-> IF s.queue = <<>> THEN NoIntent ELSE Head(s.queue)]
    <3>1. /\ s \in Schedulers /\ scheduler' \in Schedulers /\ length \in Nat /\ now' = now + length
          /\ \/ s.queue = scheduler.queue /\ s.next = scheduler.next
             \/ s.queue = Append(scheduler.queue, scheduler.next) /\ s.next = scheduler.next + 1
          /\ scheduler'.next = s.next
          /\ \/ /\ lastInput' = lastInput + 1
                /\ wire' = Append(wire, packet)
                /\ scheduler'.queue = IF s.queue = <<>> THEN s.queue ELSE Tail(s.queue)
             \/ scheduler'.queue = s.queue /\ UNCHANGED <<lastInput, wire>>
          /\ UNCHANGED server
      BY <2>1, FrameFacts
    <3> HIDE DEF s
    <3>2. s.queue \in Seq(Intents) /\ s.next \in Intents
      BY <3>1 DEF Schedulers
    <3>3. InLine(acted, wire, s.queue, s.next)
      BY <2>0, <3>1, LineQueues
    <3>4. acted' = acted
      BY <3>1 DEF server
    <3>5. CASE /\ lastInput' = lastInput + 1
               /\ wire' = Append(wire, packet)
               /\ scheduler'.queue = IF s.queue = <<>> THEN s.queue ELSE Tail(s.queue)
      <4>1. packet \in Packets
        <5>1. CASE s.queue = <<>>
          BY <2>0, <5>1 DEF Packets, NoIntent
        <5>2. CASE s.queue # <<>>
          BY <2>0, <3>2, <5>2, TailFacts DEF Packets, Intents
        <5> QED BY <5>1, <5>2
      <4>2. wire' \in Seq(Packets) /\ lastInput' \in Nat
        BY <2>0, <3>5, <4>1, AppendFacts
      <4>3. InLine(acted, Append(wire, packet), IF s.queue = <<>> THEN s.queue ELSE Tail(s.queue), s.next)
        BY <2>0, <3>2, <3>3, LineSends
      <4> QED BY <2>0, <3>1, <3>4, <3>5, <4>2, <4>3 DEF Typed, OneLine
    <3>6. CASE scheduler'.queue = s.queue /\ UNCHANGED <<lastInput, wire>>
      BY <2>0, <3>1, <3>3, <3>4, <3>6 DEF Typed, OneLine
    <3> QED BY <3>1, <3>5, <3>6
  <2>2. CASE Pause
    <3>1. /\ scheduler' = [elapsed |-> 0, queue |-> <<>>, next |-> scheduler.next]
          /\ UNCHANGED <<now, lastInput, wire, acted>>
      BY <2>0, <2>2 DEF Pause, Paused, server, Schedulers
    <3>2. scheduler' \in Schedulers
      BY <2>0, <3>1, Parameters DEF Schedulers
    <3>3. InLine(acted, wire, <<>>, scheduler.next)
      BY <2>0, LinePauses
    <3> QED BY <2>0, <3>1, <3>2, <3>3 DEF Typed, OneLine
  <2>3. ASSUME NEW i \in DOMAIN wire, Lose(i) PROVE (Typed /\ OneLine)'
    <3>1. RemoveAt(wire, i) \in Seq(Packets) /\ InLine(acted, RemoveAt(wire, i), scheduler.queue, scheduler.next)
      BY <2>0, RemoveFacts, LineLoses
    <3> QED BY <2>0, <2>3, <3>1 DEF Lose, client, server, Typed, OneLine
  <2>4. CASE DropOutsideMatch
    <3>1. Tail(wire) \in Seq(Packets) /\ InLine(acted, Tail(wire), scheduler.queue, scheduler.next)
      BY <2>0, <2>4, TailFacts, LineArrives DEF DropOutsideMatch
    <3> QED BY <2>0, <2>4, <3>1 DEF DropOutsideMatch, client, server, Typed, OneLine
  <2>5. CASE Receive
    <3>1. wire # <<>> /\ wire' = Tail(wire) /\ UNCHANGED <<now, client>>
      BY <2>5 DEF Receive
    <3>2. /\ Tail(wire) \in Seq(Packets) /\ Head(wire) \in Packets
          /\ InLine(acted, Tail(wire), scheduler.queue, scheduler.next)
          /\ Head(wire).intent # NoIntent =>
               InLine(Append(acted, Head(wire).intent), Tail(wire), scheduler.queue, scheduler.next)
      BY <2>0, <3>1, TailFacts, LineArrives
    <3>3. \/ acted' = acted
          \/ Head(wire).intent # NoIntent /\ acted' = Append(acted, Head(wire).intent)
      BY <2>5 DEF Receive
    <3>4. CASE acted' = acted
      BY <2>0, <3>1, <3>2, <3>4 DEF Typed, OneLine, client
    <3>5. CASE Head(wire).intent # NoIntent /\ acted' = Append(acted, Head(wire).intent)
      <4>1. Head(wire).intent \in Intents
        BY <3>2, <3>5 DEF Packets, Intents, NoIntent
      <4>2. acted' \in Seq(Intents)
        BY <2>0, <3>5, <4>1, AppendFacts
      <4> QED BY <2>0, <3>1, <3>2, <3>5, <4>2 DEF Typed, OneLine, client
    <3> QED BY <3>3, <3>4, <3>5
  <2>6. ASSUME NEW s, ReceiveSnapshot(s) PROVE (Typed /\ OneLine)'
    BY <2>0, <2>6 DEF ReceiveSnapshot, server, Typed, OneLine
  <2>7. CASE \/ Resume \/ SendSnapshot \/ UNCHANGED vars
             \/ \E s \in snapshots : LoseSnapshot(s)
    BY <2>0, <2>7 DEF Resume, SendSnapshot, LoseSnapshot, vars, client, server, Typed, OneLine
  <2> QED BY <2>1, <2>2, <2>3, <2>4, <2>5, <2>6, <2>7 DEF Next
<1> QED BY <1>1, <1>2, PTL DEF Spec

(* A split or an ejection is carried out at most once, in the order of the *)
(* key presses, for every network, every capacity and every length of a    *)
(* frame.                                                                  *)
THEOREM IntentsActedOnce == Spec => []ActedOnce
<1>1. OneLine => ActedOnce
  BY DEF OneLine, InLine, ActedOnce
<1> QED BY <1>1, LineInductive, PTL

-----------------------------------------------------------------------------
(* A client that keeps to its slots is admitted                            *)

Admissions ==
  [initialized : BOOLEAN, has : BOOLEAN, last : Nat, refilled : Nat, tokens : 0..Capacity]

(* The tokens a packet finds that arrives now (Refill).                    *)
Available == Refill(admission, now).tokens

(* The time of the slots whose packets are not at the server yet.          *)
SlotsUnderWay == Interval * Len(wire) + scheduler.elapsed

(* The packets under way can all be paid for.                              *)
Paced ==
  /\ admission \in Admissions /\ admission.refilled <= now
  /\ Len(wire) <= MaxHeld
  /\ Cost * SlotsUnderWay <= Interval * Available

(* The packets on their way have the sequence numbers of their order, all  *)
(* of them after the one that was admitted last.                           *)
Numbered ==
  /\ lastInput <= MaxSent
  /\ \A k \in DOMAIN wire : wire[k].sequence \in 1..lastInput
  /\ \A k, l \in DOMAIN wire : k < l => wire[k].sequence < wire[l].sequence
  /\ admission.has => /\ admission.last \in 1..lastInput
                      /\ \A k \in DOMAIN wire : admission.last < wire[k].sequence

(* Refill at a later moment adds the refill of the time between, or fills  *)
(* the bucket (Refill).                                                    *)
LEMMA RefillGrows ==
  ASSUME NEW a \in Admissions, NEW t \in Nat, NEW d \in Nat, a.refilled <= t
  PROVE  /\ Refill(a, t) \in Admissions /\ Refill(a, t).initialized
         /\ Refill(a, t).refilled = t /\ Refill(a, t).has = a.has /\ Refill(a, t).last = a.last
         /\ \/ Refill(a, t + d).tokens = Capacity
            \/ Refill(a, t + d).tokens = Refill(a, t).tokens + d * Rate
<1> USE AdmissionParameters
<1>1. CASE ~a.initialized
  <2>1. \A u \in Nat : Refill(a, u) = [initialized |-> TRUE, has |-> a.has, last |-> a.last,
                                      refilled |-> u, tokens |-> Capacity]
    BY <1>1 DEF Refill, Admissions
  <2>2. Refill(a, t + d).tokens = Capacity
    BY <2>1
  <2>3. Refill(a, t) = [initialized |-> TRUE, has |-> a.has, last |-> a.last, refilled |-> t, tokens |-> Capacity]
    BY <2>1
  <2>4. Refill(a, t) \in Admissions
    BY <2>3 DEF Admissions
  <2> QED BY <2>2, <2>3, <2>4
<1>2. CASE a.initialized
  <2> DEFINE full(u) == AtMost(a.tokens + (u - a.refilled) * Rate, Capacity)
  <2>1. ASSUME NEW u \in Nat, a.refilled <= u
        PROVE  Refill(a, u) = [initialized |-> TRUE, has |-> a.has, last |-> a.last,
                               refilled |-> u, tokens |-> full(u)]
    <3>1. ~(u < a.refilled) BY <2>1 DEF Admissions
    <3> QED BY <1>2, <3>1 DEF Refill, Admissions
  <2>2. ASSUME NEW u \in Nat, a.refilled <= u
        PROVE  (u - a.refilled) * Rate \in Nat /\ full(u) \in 0..Capacity
    <3>1. u - a.refilled \in Nat BY <2>2 DEF Admissions
    <3>2. (u - a.refilled) * Rate \in Nat BY <3>1
    <3> QED BY <3>2 DEF AtMost, Admissions
  <2>3. /\ t + d \in Nat /\ a.refilled <= t + d
        /\ ((t + d) - a.refilled) * Rate = (t - a.refilled) * Rate + d * Rate
        /\ d * Rate \in Nat
    BY DEF Admissions
  <2>4. full(t + d) = Capacity \/ full(t + d) = full(t) + d * Rate
    <3> DEFINE m == (t - a.refilled) * Rate
               n == d * Rate
    <3>1. m \in Nat /\ n \in Nat /\ ((t + d) - a.refilled) * Rate = m + n /\ a.tokens \in Nat
      BY <2>2, <2>3 DEF Admissions
    <3>3. (t - a.refilled) * Rate = m /\ d * Rate = n
      OBVIOUS
    <3> HIDE DEF m, n
    <3>2. AtMost(a.tokens + (m + n), Capacity) = Capacity
          \/ AtMost(a.tokens + (m + n), Capacity) = AtMost(a.tokens + m, Capacity) + n
      BY <3>1 DEF AtMost
    <3>4. full(t + d) = AtMost(a.tokens + (m + n), Capacity)
      <4>1. ((t + d) - a.refilled) * Rate = m + n
        BY <3>1
      <4>2. full(t + d) = AtMost(a.tokens + ((t + d) - a.refilled) * Rate, Capacity)
        BY Zenon
      <4> QED BY <4>1, <4>2, Zenon
    <3>5. full(t) = AtMost(a.tokens + m, Capacity)
      BY <3>3, Zenon
    <3> HIDE DEF full
    <3> QED BY <3>2, <3>3, <3>4, <3>5
  <2> HIDE DEF full
  <2>5. Refill(a, t) \in Admissions
    <3>1. Refill(a, t) = [initialized |-> TRUE, has |-> a.has, last |-> a.last, refilled |-> t, tokens |-> full(t)]
      BY <2>1
    <3>2. full(t) \in 0..Capacity
      BY <2>2
    <3> QED BY <3>1, <3>2 DEF Admissions
  <2> QED BY <2>1, <2>3, <2>4, <2>5
<1> QED BY <1>1, <1>2

(* Time that passes pays for the slots that begin in it: n slots under way *)
(* before, m after it, no more than the stall allows.                      *)
LEMMA TimePays ==
  ASSUME StallFitsBurst, NEW n \in Nat, NEW m \in Nat, NEW d \in Nat, NEW tokens \in Nat, NEW later \in Nat,
         Cost * n <= Interval * tokens, m <= n + d, m <= Interval * (MaxHeld + 1),
         later = Capacity \/ later = tokens + d * Rate
  PROVE  Cost * m <= Interval * later
<1> USE AdmissionParameters
<1>0. Interval \in Nat /\ MaxHeld \in Nat
  BY PipelineParameters
<1>1. CASE later = Capacity
  <2>1. Cost * m <= Cost * (Interval * (MaxHeld + 1))
    BY <1>0
  <2>2. Cost * (Interval * (MaxHeld + 1)) = Interval * (Cost * (MaxHeld + 1))
    BY <1>0
  <2>3. Interval * (Cost * (MaxHeld + 1)) <= Interval * Capacity
    <3>1. Cost * (MaxHeld + 1) \in Nat
      BY <1>0
    <3> QED BY <1>0, <3>1 DEF StallFitsBurst
  <2>4. Cost * m \in Nat /\ Interval * Capacity \in Nat /\ Interval * (Cost * (MaxHeld + 1)) \in Nat
    BY <1>0
  <2> QED BY <1>1, <2>1, <2>2, <2>3, <2>4
<1>2. CASE later = tokens + d * Rate
  <2>1. Cost * m <= Cost * (n + d)
    OBVIOUS
  <2>2. Cost * (n + d) = Cost * n + Cost * d
    OBVIOUS
  <2>3. Cost * d <= (Rate * Interval) * d
    <3>1. Rate * Interval \in Nat
      BY <1>0
    <3> QED BY <1>0, <3>1 DEF StallFitsBurst
  <2>4. (Rate * Interval) * d = Interval * (d * Rate)
    BY <1>0
  <2>5. Interval * (tokens + d * Rate) = Interval * tokens + Interval * (d * Rate)
    BY <1>0
  <2>6. /\ Cost * m \in Nat /\ Cost * n \in Nat /\ Cost * d \in Nat
        /\ Interval * tokens \in Nat /\ Interval * (d * Rate) \in Nat
    BY <1>0
  <2> QED BY <1>2, <2>1, <2>2, <2>3, <2>4, <2>5, <2>6
<1> QED BY <1>1, <1>2

(* A slot that begins takes its time off the accumulator (Prepare).        *)
LEMMA SlotBegins ==
  ASSUME NEW e \in Nat, e >= Interval
  PROVE  (e % Interval) \in Nat /\ (e % Interval) < Interval /\ (e % Interval) + Interval <= e
<1>1. Interval \in Nat /\ Interval > 0
  BY PipelineParameters
<1>2. PICK q \in Int : e = Interval * q + (e % Interval)
  <2>1. e = Interval * (e \div Interval) + (e % Interval) /\ e \div Interval \in Int
    BY <1>1
  <2> QED BY <2>1
<1>3. (e % Interval) \in 0..(Interval - 1)
  BY <1>1
<1>4. q >= 1
  <2>1. CASE q <= 0
    <3>1. Interval * q <= 0
      BY <1>1, <2>1
    <3>2. Interval * q \in Int
      BY <1>1
    <3> QED BY <1>1, <1>2, <1>3, <3>1, <3>2
  <2> QED BY <2>1
<1>5. Interval * q >= Interval /\ Interval * q \in Int
  BY <1>1, <1>4
<1> QED BY <1>1, <1>2, <1>3, <1>5

(* A frame adds no more than its length to the slots under way, and never  *)
(* more than the stall allows (Frame).                                     *)
LEMMA FrameFits ==
  ASSUME NEW held \in Nat, held <= MaxHeld, NEW elapsed \in 0..(Interval - 1), NEW d \in Nat
  PROVE  LET e == elapsed + d
             n == Interval * held + elapsed
             fits(m) == m \in Nat /\ m <= n + d /\ m <= Interval * (MaxHeld + 1)
         IN /\ n \in Nat
            /\ held < MaxHeld /\ e >= Interval => fits(Interval * (held + 1) + (e % Interval))
            /\ fits(Interval * held + (IF e >= Interval THEN (e % Interval) ELSE e))
<1> DEFINE e == elapsed + d
           h == Interval * held
           all == Interval * (MaxHeld + 1)
<1>1. Interval \in Nat /\ Interval > 0 /\ MaxHeld \in Nat /\ e \in Nat
  BY PipelineParameters
<1>2. h \in Nat /\ all \in Nat /\ Interval * (held + 1) = h + Interval /\ h + Interval <= all
  <2>1. MaxHeld - held \in Nat
    BY <1>1
  <2>2. Interval * (MaxHeld + 1) = Interval * held + Interval + Interval * (MaxHeld - held)
    BY <1>1
  <2>3. Interval * (MaxHeld - held) \in Nat
    BY <1>1, <2>1
  <2> QED BY <1>1, <2>2, <2>3
<1>3. held < MaxHeld => h + Interval + Interval <= all
  <2> SUFFICES ASSUME held < MaxHeld PROVE h + Interval + Interval <= all
    OBVIOUS
  <2>1. MaxHeld - (held + 1) \in Nat
    BY <1>1
  <2>2. Interval * (MaxHeld + 1) = Interval * held + Interval + Interval + Interval * (MaxHeld - (held + 1))
    BY <1>1
  <2>3. Interval * (MaxHeld - (held + 1)) \in Nat
    BY <1>1, <2>1
  <2> QED BY <1>1, <2>2, <2>3
<1>4. e >= Interval => (e % Interval) \in Nat /\ (e % Interval) < Interval /\ (e % Interval) + Interval <= e
  BY <1>1, SlotBegins
<1> HIDE DEF h, all
<1>5. h + elapsed \in Nat
  BY <1>1, <1>2
<1>6. CASE e >= Interval
  <2>1. (e % Interval) \in Nat /\ (e % Interval) < Interval /\ (e % Interval) + Interval <= elapsed + d
    BY <1>4, <1>6
  <2> DEFINE r == (e % Interval)
  <2> HIDE DEF r
  <2>2. r \in Nat /\ r < Interval /\ r + Interval <= elapsed + d
    BY <2>1 DEF r
  <2>3. /\ h + r \in Nat /\ h + r <= h + elapsed + d /\ h + r <= all
        /\ held < MaxHeld => /\ h + Interval + r \in Nat /\ h + Interval + r <= h + elapsed + d
                             /\ h + Interval + r <= all
    BY <1>1, <1>2, <1>3, <2>2
  <2>4. Interval * (held + 1) + r = h + Interval + r
    BY <1>1, <1>2, <2>2
  <2>5. held < MaxHeld =>
          /\ Interval * (held + 1) + r \in Nat
          /\ Interval * (held + 1) + r <= h + elapsed + d
          /\ Interval * (held + 1) + r <= all
    BY <2>3, <2>4
  <2>6. (IF e >= Interval THEN e % Interval ELSE e) = r
    BY <1>6 DEF r
  <2>7. h + (IF e >= Interval THEN e % Interval ELSE e) = h + r
    BY <2>6
  <2> QED BY <1>5, <2>3, <2>5, <2>7 DEF r, h, all
<1>7. CASE ~(e >= Interval)
  <2>1. h + e \in Nat /\ h + e <= h + elapsed + d /\ h + e <= all
    BY <1>1, <1>2, <1>7
  <2> QED BY <1>5, <1>7, <2>1 DEF h, all
<1> QED BY <1>6, <1>7


AllAdmitted == Typed /\ Paced /\ Numbered /\ HonestInputsAdmitted

(* There is no debt (Refill).                                              *)
LEMMA AvailableTokens == ASSUME Typed, Paced PROVE Available \in Nat
<1>1. PICK d \in Nat : d = 0
  OBVIOUS
<1>2. Refill(admission, now) \in Admissions
  BY <1>1, RefillGrows DEF Typed, Paced
<1> QED BY <1>2, AdmissionParameters DEF Available, Admissions

(* The bucket when nothing happens to it but time.                         *)
LEMMA TimePasses ==
  ASSUME Typed, Paced, NEW d \in Nat, now' = now + d, admission' = admission
  PROVE  /\ Available \in Nat /\ Available' \in Nat
         /\ Available' = Capacity \/ Available' = Available + d * Rate
<1>1. admission \in Admissions /\ admission.refilled <= now /\ now \in Nat /\ now + d \in Nat
  BY DEF Typed, Paced
<1>2. admission.refilled <= now + d
  BY <1>1 DEF Admissions
<1>3. Refill(admission, now) \in Admissions /\ Refill(admission, now + d) \in Admissions
  BY <1>1, <1>2, RefillGrows
<1>4. \/ Refill(admission, now + d).tokens = Capacity
      \/ Refill(admission, now + d).tokens = Refill(admission, now).tokens + d * Rate
  BY <1>1, RefillGrows
<1>5. Available' = Refill(admission, now + d).tokens
  BY DEF Available
<1> QED BY <1>3, <1>4, <1>5, AdmissionParameters DEF Available, Admissions

(* A shorter channel asks for less (Lose, DropOutsideMatch, Pause).        *)
LEMMA FewerSlots ==
  ASSUME NEW held \in Nat, NEW fewer \in Nat, fewer <= held,
         NEW elapsed \in Nat, NEW less \in Nat, less <= elapsed, NEW tokens \in Nat,
         Cost * (Interval * held + elapsed) <= Interval * tokens
  PROVE  Cost * (Interval * fewer + less) <= Interval * tokens
<1>1. Cost \in Nat /\ Interval \in Nat
  BY Parameters
<1>2. Interval * fewer <= Interval * held /\ Interval * fewer \in Nat /\ Interval * held \in Nat
  <2>1. held - fewer \in Nat /\ Interval * held = Interval * fewer + Interval * (held - fewer)
    BY <1>1
  <2>2. Interval * (held - fewer) \in Nat
    BY <1>1, <2>1
  <2> QED BY <1>1, <2>1, <2>2
<1> DEFINE n == Interval * held + elapsed
           m == Interval * fewer + less
<1>3. n \in Nat /\ m \in Nat /\ m <= n
  BY <1>2
<1> HIDE DEF n, m
<1>4. Cost * m <= Cost * n /\ Cost * m \in Nat /\ Cost * n \in Nat
  <2>1. n - m \in Nat /\ Cost * n = Cost * m + Cost * (n - m)
    BY <1>1, <1>3
  <2>2. Cost * (n - m) \in Nat /\ Cost * m \in Nat
    BY <1>1, <1>3, <2>1
  <2> QED BY <2>1, <2>2
<1>5. Interval * tokens \in Nat
  BY <1>1
<1> QED BY <1>4, <1>5 DEF n, m

(* The first packet under way is paid for and new, and the others stay so  *)
(* (ShroomInputAdmissionCheck).                                            *)
LEMMA FirstIsAdmitted ==
  ASSUME Typed, Paced, Numbered, wire # <<>>
  PROVE  LET packet == Head(wire)
             a == Checked(admission, packet.sequence, now)
         IN /\ CheckResult(admission, packet.sequence, now) = "admitted"
            /\ a \in Admissions /\ a.refilled = now /\ a.has /\ a.last = packet.sequence
            /\ Refill(a, now).tokens = Available - Cost
            /\ Available - Cost \in Nat /\ Interval * (Available - Cost) = Interval * Available - Interval * Cost
<1> USE AdmissionParameters
<1> DEFINE packet == Head(wire)
           b == Refill(admission, now)
           a == [b EXCEPT !.tokens = @ - Cost, !.has = TRUE, !.last = packet.sequence]
<1>0. /\ Interval \in Nat /\ Interval > 0 /\ MaxSent \in Nat /\ 2 * MaxSent < SeqSpan
      /\ now \in Nat /\ wire \in Seq(Packets) /\ scheduler.elapsed \in Nat /\ lastInput \in Nat
      /\ admission \in Admissions /\ admission.refilled <= now /\ lastInput <= MaxSent
  BY Parameters DEF Typed, Paced, Schedulers, Numbered
<1>1. /\ b \in Admissions /\ b.initialized /\ b.refilled = now
      /\ b.has = admission.has /\ b.last = admission.last
  BY <1>0, RefillGrows
<1>2. 1 \in DOMAIN wire /\ packet = wire[1] /\ packet \in Packets /\ Len(wire) >= 1 /\ Len(wire) \in Nat
  BY <1>0, TailFacts
<1>3. /\ packet.sequence \in 1..lastInput
      /\ admission.has => admission.last \in 1..lastInput /\ admission.last < packet.sequence
  BY <1>2 DEF Numbered
<1> HIDE DEF packet, b
<1>4. b.tokens \in Nat /\ b.tokens >= Cost
  <2>1. b.tokens \in Nat
    BY <1>1 DEF Admissions
  <2>2. Cost * (Interval * Len(wire) + scheduler.elapsed) <= Interval * b.tokens
    BY DEF Paced, SlotsUnderWay, Available, b
  <2>3. Cost * (Interval * 1 + 0) <= Interval * b.tokens
    <3>1. PICK one \in Nat, none \in Nat : one = 1 /\ none = 0
      OBVIOUS
    <3>2. one <= Len(wire) /\ none <= scheduler.elapsed
      BY <1>0, <1>2, <3>1
    <3>3. Cost * (Interval * one + none) <= Interval * b.tokens
      <4>1. Len(wire) \in Nat /\ scheduler.elapsed \in Nat
        BY <1>0, <1>2
      <4> QED BY <2>1, <2>2, <3>2, <4>1, FewerSlots
    <3> QED BY <3>1, <3>3
  <2>4. CASE b.tokens < Cost
    <3>1. Cost - b.tokens >= 1 /\ Cost - b.tokens \in Nat
      BY <2>1, <2>4
    <3>2. Interval * Cost = Interval * b.tokens + Interval * (Cost - b.tokens)
      BY <1>0, <2>1
    <3>3. Interval * (Cost - b.tokens) >= Interval
      BY <1>0, <3>1
    <3>4. Cost * (Interval * 1 + 0) = Interval * Cost
      BY <1>0
    <3>5. Interval * Cost \in Nat /\ Interval * b.tokens \in Nat /\ Interval * (Cost - b.tokens) \in Nat
      BY <1>0, <2>1, <3>1
    <3> QED BY <1>0, <2>3, <3>2, <3>3, <3>4, <3>5
  <2> QED BY <2>1, <2>4
<1>5. ~Stale(b, packet.sequence)
  <2>1. CASE ~b.has
    BY <1>3, <2>1 DEF Stale
  <2>2. CASE b.has
    <3> DEFINE delta == packet.sequence - b.last
    <3>1. delta \in Nat /\ delta # 0 /\ delta <= MaxSent /\ 2 * delta < SeqSpan
      BY <1>0, <1>1, <1>3, <2>2
    <3>2. delta % SeqSpan = delta
      <4> HIDE DEF delta
      <4> QED BY <3>1
    <3>3. SequenceIsNewer(packet.sequence, b.last)
      BY <3>1, <3>2 DEF SequenceIsNewer
    <3> QED BY <1>3, <3>3 DEF Stale
  <2> QED BY <2>1, <2>2
<1>6. /\ CheckResult(admission, packet.sequence, now) = "admitted"
      /\ Checked(admission, packet.sequence, now) = a
  BY <1>4, <1>5 DEF CheckResult, Checked, b
<1>7. /\ a \in Admissions /\ a.initialized /\ a.has /\ a.refilled = now
      /\ a.last = packet.sequence /\ a.tokens = b.tokens - Cost
  <2>1. packet.sequence \in Nat /\ b.tokens - Cost \in 0..Capacity
    BY <1>0, <1>1, <1>3, <1>4 DEF Admissions
  <2>2. a \in Admissions
    BY <1>1, <2>1 DEF Admissions
  <2>3. a.initialized /\ a.has
    BY <1>1 DEF Admissions
  <2>4. a.refilled = now /\ a.last = packet.sequence /\ a.tokens = b.tokens - Cost
    BY <1>1 DEF Admissions
  <2> QED BY <2>2, <2>3, <2>4
<1> HIDE DEF a
<1>8. Refill(a, now).tokens = b.tokens - Cost
  <2>1. Refill(a, now) = [a EXCEPT !.refilled = now, !.tokens = AtMost(@ + (now - a.refilled) * Rate, Capacity)]
    BY <1>0, <1>7 DEF Refill, Admissions
  <2>2. (now - a.refilled) * Rate = 0
    BY <1>0, <1>7
  <2>3. Refill(a, now).tokens = AtMost(a.tokens + (now - a.refilled) * Rate, Capacity)
    BY <1>7, <2>1 DEF Admissions
  <2>4. a.tokens \in Nat /\ a.tokens <= Capacity
    BY <1>7 DEF Admissions
  <2> QED BY <1>7, <2>2, <2>3, <2>4 DEF AtMost
<1>9. Interval * (b.tokens - Cost) = Interval * b.tokens - Interval * Cost
  BY <1>0, <1>4
<1> QED BY <1>4, <1>6, <1>7, <1>8, <1>9 DEF packet, b, Available

LEMMA AdmittedInductive == ASSUME StallFitsBurst PROVE Spec => []AllAdmitted
<1>1. Init => AllAdmitted
  <2> SUFFICES ASSUME Init PROVE AllAdmitted
    OBVIOUS
  <2>0. /\ Interval \in Nat \ {0} /\ MaxSent \in Nat /\ MaxHeld \in Nat /\ Capacity \in Nat /\ Cost \in Nat
    BY Parameters
  <2>1. scheduler = [elapsed |-> 0, queue |-> <<>>, next |-> 1] /\ wire = <<>> /\ lastInput = 0
        /\ admission = NewAdmission /\ now = 0 /\ acted = <<>> /\ rejected = {}
    BY DEF Init, NewScheduler
  <2>2. Typed
    BY <2>0, <2>1 DEF Typed, Schedulers, Intents
  <2>3. admission \in Admissions /\ admission.refilled <= now
    BY <2>0, <2>1 DEF Admissions, NewAdmission
  <2>4. Available = Capacity
    BY <2>1 DEF Available, Refill, NewAdmission
  <2>5. Cost * SlotsUnderWay <= Interval * Available
    BY <2>0, <2>1, <2>4 DEF SlotsUnderWay
  <2>6. Numbered
    BY <2>0, <2>1 DEF Numbered, NewAdmission
  <2> QED BY <2>0, <2>1, <2>2, <2>3, <2>5, <2>6 DEF AllAdmitted, Paced, HonestInputsAdmitted
<1>2. Typed' /\ AllAdmitted /\ [Next]_vars => AllAdmitted'
  <2> SUFFICES ASSUME Typed', AllAdmitted, [Next]_vars PROVE AllAdmitted'
    OBVIOUS
  <2>0. /\ Interval \in Nat /\ MaxSent \in Nat /\ MaxHeld \in Nat
        /\ Typed /\ Paced /\ Numbered /\ rejected = {}
        /\ wire \in Seq(Packets) /\ Len(wire) \in Nat /\ Len(wire) <= MaxHeld
        /\ scheduler.elapsed \in 0..(Interval - 1) /\ scheduler.elapsed \in Nat /\ lastInput \in Nat /\ now \in Nat
        /\ Cost * (Interval * Len(wire) + scheduler.elapsed) <= Interval * Available
        /\ admission \in Admissions /\ admission.refilled <= now
    BY Parameters DEF AllAdmitted, Typed, Paced, Schedulers, HonestInputsAdmitted, SlotsUnderWay
  <2>1. ASSUME NEW length \in Frames, NEW wanted \in BOOLEAN, NEW goes \in BOOLEAN,
               Frame(length, wanted, goes)
        PROVE  AllAdmitted'
    <3> DEFINE intent == IF Queued(scheduler, wanted).queue = <<>> THEN NoIntent
                         ELSE Head(Queued(scheduler, wanted).queue)
               packet == [sequence |-> lastInput + 1, intent |-> intent]
               e == scheduler.elapsed + length
               n == Interval * Len(wire) + scheduler.elapsed
               fits(m) == m \in Nat /\ m <= n + length /\ m <= Interval * (MaxHeld + 1)
    <3>1. /\ length \in Nat /\ now' = now + length /\ UNCHANGED server
          /\ \/ /\ e >= Interval /\ scheduler'.elapsed = e % Interval
                /\ lastInput < MaxSent /\ lastInput' = lastInput + 1
                /\ Len(wire) < MaxHeld /\ wire' = Append(wire, packet)
             \/ /\ scheduler'.elapsed = (IF e >= Interval THEN e % Interval ELSE e)
                /\ UNCHANGED <<lastInput, wire>>
      BY <2>0, <2>1, FrameFacts
    <3> HIDE DEF intent
    <3>2. admission' = admission /\ rejected' = rejected
      BY <3>1 DEF server
    <3>3. /\ Available \in Nat /\ Available' \in Nat
          /\ Available' = Capacity \/ Available' = Available + length * Rate
      BY <2>0, <3>1, <3>2, TimePasses
    <3>4. /\ n \in Nat
          /\ Len(wire) < MaxHeld /\ e >= Interval => fits(Interval * (Len(wire) + 1) + (e % Interval))
          /\ fits(Interval * Len(wire) + (IF e >= Interval THEN e % Interval ELSE e))
      BY <2>0, <3>1, FrameFits
    <3>5. admission'.refilled <= now'
      BY <2>0, <3>1, <3>2 DEF Admissions
    <3>6. CASE /\ e >= Interval /\ scheduler'.elapsed = e % Interval
               /\ lastInput < MaxSent /\ lastInput' = lastInput + 1
               /\ Len(wire) < MaxHeld /\ wire' = Append(wire, packet)
      <4>1. Len(wire') = Len(wire) + 1 /\ Len(wire) + 1 <= MaxHeld
        BY <2>0, <3>6
      <4>2. fits(SlotsUnderWay')
        BY <3>4, <3>6, <4>1 DEF SlotsUnderWay
      <4>3. Cost * SlotsUnderWay' <= Interval * Available'
        BY <2>0, <3>1, <3>3, <3>4, <4>2, TimePays
      <4>4. Paced'
        BY <2>0, <3>2, <3>5, <4>1, <4>3 DEF Paced
      <4>5. /\ DOMAIN wire' = 1..(Len(wire) + 1) /\ DOMAIN wire = 1..Len(wire)
            /\ \A k \in DOMAIN wire' : wire'[k].sequence = IF k \in DOMAIN wire THEN wire[k].sequence ELSE lastInput + 1
        BY <2>0, <3>6
      <4>6. Numbered'
        <5>1. lastInput' <= MaxSent /\ \A k \in DOMAIN wire' : wire'[k].sequence \in 1..lastInput'
          BY <2>0, <3>6, <4>5 DEF Numbered
        <5>2. \A k, l \in DOMAIN wire' : k < l => wire'[k].sequence < wire'[l].sequence
          <6>1. \A k \in DOMAIN wire : wire[k].sequence \in Nat /\ wire[k].sequence < lastInput + 1
            BY <2>0 DEF Numbered
          <6>2. \A k, l \in DOMAIN wire : k < l => wire[k].sequence < wire[l].sequence
            BY <2>0 DEF Numbered
          <6>3. \A k, l \in DOMAIN wire' : k < l => k \in DOMAIN wire
            BY <2>0, <4>5
          <6> QED BY <4>5, <6>1, <6>2, <6>3
        <5>3. admission.has => /\ admission.last \in 1..lastInput'
                              /\ \A k \in DOMAIN wire' : admission.last < wire'[k].sequence
          <6>1. admission.has => /\ admission.last \in 1..lastInput /\ admission.last < lastInput + 1
                                /\ \A k \in DOMAIN wire : admission.last < wire[k].sequence
            BY <2>0 DEF Numbered
          <6>2. admission.has => admission.last \in 1..lastInput'
            BY <2>0, <3>6, <6>1
          <6>3. admission.has => \A k \in DOMAIN wire' : admission.last < wire'[k].sequence
            BY <4>5, <6>1
          <6> QED BY <6>2, <6>3
        <5> QED BY <3>2, <5>1, <5>2, <5>3 DEF Numbered
      <4> QED BY <2>0, <3>2, <4>4, <4>6 DEF AllAdmitted, HonestInputsAdmitted
    <3>7. CASE /\ scheduler'.elapsed = (IF e >= Interval THEN e % Interval ELSE e)
               /\ UNCHANGED <<lastInput, wire>>
      <4>1. fits(SlotsUnderWay')
        BY <3>4, <3>7 DEF SlotsUnderWay
      <4>2. Cost * SlotsUnderWay' <= Interval * Available'
        BY <2>0, <3>1, <3>3, <3>4, <4>1, TimePays
      <4>3. Paced'
        BY <2>0, <3>2, <3>5, <3>7, <4>2 DEF Paced
      <4> QED BY <2>0, <3>2, <3>7, <4>3 DEF AllAdmitted, HonestInputsAdmitted, Numbered
    <3> QED BY <3>1, <3>6, <3>7
  <2>2. ASSUME now' = now, admission' = admission, rejected' = rejected, lastInput' = lastInput,
               Len(wire') <= Len(wire), scheduler'.elapsed <= scheduler.elapsed, Numbered'
        PROVE  AllAdmitted'
    <3>1. Available' = Available
      BY <2>2 DEF Available
    <3>2. Available \in Nat
      BY <2>0, AvailableTokens
    <3>3. Len(wire') \in Nat /\ scheduler'.elapsed \in Nat
      BY Parameters DEF Typed, Schedulers
    <3>4. Cost * (Interval * Len(wire') + scheduler'.elapsed) <= Interval * Available
      BY <2>0, <2>2, <3>2, <3>3, FewerSlots
    <3>5. Paced'
      BY <2>0, <2>2, <3>1, <3>3, <3>4 DEF Paced, SlotsUnderWay
    <3> QED BY <2>0, <2>2, <3>5 DEF AllAdmitted, HonestInputsAdmitted
  <2>3. ASSUME wire' = Tail(wire), wire # <<>>, lastInput' = lastInput
        PROVE  /\ Len(wire') = Len(wire) - 1
               /\ \A k \in DOMAIN wire' : wire'[k].sequence \in 1..lastInput'
               /\ \A k, l \in DOMAIN wire' : k < l => wire'[k].sequence < wire'[l].sequence
               /\ \A k \in DOMAIN wire' : Head(wire).sequence < wire'[k].sequence
               /\ admission.has => \A k \in DOMAIN wire' : admission.last < wire'[k].sequence
    <3>1. /\ Len(wire') = Len(wire) - 1 /\ 1 \in DOMAIN wire /\ Head(wire) = wire[1]
          /\ wire' \in Seq(Packets)
          /\ \A k \in DOMAIN wire' : k + 1 \in DOMAIN wire /\ wire'[k] = wire[k + 1]
      BY <2>0, <2>3, TailFacts
    <3>2. \A k \in DOMAIN wire' : k \in Nat /\ 1 < k + 1
      BY <3>1
    <3>3. \A k, l \in DOMAIN wire' : k < l => k + 1 < l + 1
      BY <3>2
    <3>4. /\ \A k \in DOMAIN wire' : wire'[k].sequence \in 1..lastInput'
          /\ admission.has => \A k \in DOMAIN wire' : admission.last < wire'[k].sequence
      BY <2>0, <2>3, <3>1 DEF Numbered
    <3>5. /\ \A k, l \in DOMAIN wire' : k < l => wire'[k].sequence < wire'[l].sequence
          /\ \A k \in DOMAIN wire' : Head(wire).sequence < wire'[k].sequence
      <4>1. \A k, l \in DOMAIN wire : k < l => wire[k].sequence < wire[l].sequence
        BY <2>0 DEF Numbered
      <4> HIDE <2>3
      <4> QED BY <3>1, <3>2, <3>3, <4>1
    <3> QED BY <3>1, <3>4, <3>5
  <2>4. CASE Pause
    <3>1. scheduler'.elapsed = 0 /\ UNCHANGED <<now, lastInput, wire, admission, rejected>>
      BY <2>0, <2>4 DEF Pause, Paused, server, Typed, Schedulers
    <3> QED BY <2>0, <2>2, <3>1 DEF Numbered
  <2>5. ASSUME NEW i \in DOMAIN wire, Lose(i) PROVE AllAdmitted'
    <3> DEFINE at(j) == IF j < i THEN j ELSE j + 1
    <3>1. /\ wire' = RemoveAt(wire, i) /\ UNCHANGED <<now, lastInput, scheduler, admission, rejected>>
      BY <2>5 DEF Lose, client, server
    <3>2. /\ Len(wire') = Len(wire) - 1
          /\ \A j \in DOMAIN wire' : j \in Nat /\ at(j) \in DOMAIN wire /\ wire'[j] = wire[at(j)]
      BY <2>0, <3>1, RemoveFacts
    <3>3. i \in Nat /\ \A j, k \in DOMAIN wire' : j < k => at(j) < at(k)
      BY <2>0, <3>2
    <3> HIDE DEF at
    <3>4. Numbered'
      BY <2>0, <3>1, <3>2, <3>3 DEF Numbered
    <3> QED BY <2>0, <2>2, <3>1, <3>2, <3>4
  <2>6. CASE DropOutsideMatch
    <3>1. wire # <<>> /\ wire' = Tail(wire) /\ UNCHANGED <<now, lastInput, scheduler, admission, rejected>>
      BY <2>6 DEF DropOutsideMatch, client, server
    <3>2. Numbered'
      BY <2>0, <2>3, <3>1 DEF Numbered
    <3> QED BY <2>0, <2>2, <2>3, <3>1, <3>2
  <2>7. CASE Receive
    <3> DEFINE packet == Head(wire)
               a == Checked(admission, packet.sequence, now)
    <3>1. /\ wire # <<>> /\ wire' = Tail(wire) /\ UNCHANGED <<now, lastInput, scheduler>>
          /\ admission' = a
          /\ CheckResult(admission, packet.sequence, now) = "admitted" => rejected' = rejected
      BY <2>7 DEF Receive, client
    <3>2. /\ CheckResult(admission, packet.sequence, now) = "admitted"
          /\ a \in Admissions /\ a.refilled = now /\ a.has /\ a.last = packet.sequence
          /\ Refill(a, now).tokens = Available - Cost
          /\ Available - Cost \in Nat /\ Interval * (Available - Cost) = Interval * Available - Interval * Cost
      BY <2>0, <3>1, FirstIsAdmitted
    <3>3. Head(wire).sequence \in 1..lastInput
      BY <2>0, <3>1, TailFacts DEF Numbered
    <3> HIDE DEF packet, a
    <3>4. Numbered'
      BY <2>0, <2>3, <3>1, <3>2, <3>3 DEF Numbered, packet
    <3>5. Available' = Available - Cost
      BY <3>1, <3>2 DEF Available
    <3>6. Len(wire') = Len(wire) - 1 /\ Len(wire) >= 1
      BY <2>0, <2>3, <3>1, TailFacts
    <3>7. Cost * SlotsUnderWay' <= Interval * Available'
      <4>1. SlotsUnderWay' = Interval * (Len(wire) - 1) + scheduler.elapsed
        BY <3>1, <3>6 DEF SlotsUnderWay
      <4>2. Cost * (Interval * (Len(wire) - 1) + scheduler.elapsed)
              = Cost * (Interval * Len(wire) + scheduler.elapsed) - Interval * Cost
        BY <2>0, <3>6, AdmissionParameters
      <4>3. /\ Interval * Cost \in Nat /\ Interval * Available \in Int
            /\ Cost * (Interval * Len(wire) + scheduler.elapsed) \in Nat
        <5>1. Available \in Int
          BY <2>0, AvailableTokens
        <5> QED BY <2>0, <5>1, AdmissionParameters
      <4> QED BY <2>0, <3>2, <3>5, <4>1, <4>2, <4>3
    <3>8. Paced'
      BY <2>0, <3>1, <3>2, <3>6, <3>7 DEF Paced
    <3> QED BY <2>0, <3>1, <3>2, <3>4, <3>8 DEF AllAdmitted, HonestInputsAdmitted
  <2>8. ASSUME NEW s, ReceiveSnapshot(s) PROVE AllAdmitted'
    <3>1. UNCHANGED <<now, scheduler, lastInput, wire, admission, rejected>>
      BY <2>8 DEF ReceiveSnapshot, server
    <3>2. Numbered'
      BY <2>0, <3>1 DEF Numbered
    <3> QED BY <2>0, <2>2, <3>1, <3>2
  <2>9. CASE \/ Resume \/ SendSnapshot \/ UNCHANGED vars
             \/ \E s \in snapshots : LoseSnapshot(s)
    <3>1. UNCHANGED <<now, scheduler, lastInput, wire, admission, rejected>>
      BY <2>9 DEF Resume, SendSnapshot, LoseSnapshot, vars, client, server
    <3>2. Numbered'
      BY <2>0, <3>1 DEF Numbered
    <3> QED BY <2>0, <2>2, <3>1, <3>2
  <2> QED BY <2>1, <2>4, <2>5, <2>6, <2>7, <2>8, <2>9 DEF Next
<1> QED BY <1>1, <1>2, LineInductive, PTL DEF Spec

(* A client that keeps to its slots is never rejected, whatever the        *)
(* network does that holds back no more packets than the burst covers.     *)
THEOREM HonestClientAdmitted == ASSUME StallFitsBurst PROVE Spec => []HonestInputsAdmitted
<1>1. AllAdmitted => HonestInputsAdmitted
  BY DEF AllAdmitted
<1> QED BY <1>1, AdmittedInductive, PTL

-----------------------------------------------------------------------------
(* The relay keeps the limit of talkers                                    *)

(* The relay counts with the sets of this module.                          *)
LEMMA SameSets == \A S : Relay!Cardinality(S) = Cardinality(S) /\ (Relay!IsFiniteSet(S) <=> IsFiniteSet(S))
  BY DEF Relay!Cardinality, Cardinality, Relay!IsFiniteSet, IsFiniteSet

(* What the parameters of the relay are.                                   *)
LEMMA RelayFacts == IsFiniteSet(Peers) /\ MaxTalkers \in Nat /\ Sizes \subseteq Nat
  BY TrafficParameters, SameSets DEF Relay!RelayParameters

(* A lobby counts no more talkers in one table than in another that has    *)
(* all of them, and at most one more when all but one peer agree           *)
(* (CountLobbyTalkers).                                                    *)
LEMMA TalkersCounted ==
  ASSUME NEW a, NEW b, NEW lobby, NEW p \in Peers,
         \A q \in Peers \ {p} : b[q].lobby = lobby /\ b[q].stream /= Relay!NotTalking
                                  => a[q].lobby = lobby /\ a[q].stream /= Relay!NotTalking
  PROVE  /\ Relay!CountLobbyTalkers(a, lobby) \in Nat /\ Relay!CountLobbyTalkers(b, lobby) \in Nat
         /\ Relay!CountLobbyTalkers(b, lobby) <= Relay!CountLobbyTalkers(a, lobby) + 1
         /\ (b[p].lobby = lobby /\ b[p].stream /= Relay!NotTalking
               => a[p].lobby = lobby /\ a[p].stream /= Relay!NotTalking)
              => Relay!CountLobbyTalkers(b, lobby) <= Relay!CountLobbyTalkers(a, lobby)
<1> DEFINE talkers(table) == {q \in Peers : table[q].lobby = lobby /\ table[q].stream /= Relay!NotTalking}
<1>1. \A table : IsFiniteSet(talkers(table)) /\ Cardinality(talkers(table)) \in Nat
  BY FS_Subset, FS_CardinalityType, RelayFacts
<1>2. \A table : Relay!CountLobbyTalkers(table, lobby) = Cardinality(talkers(table))
  BY SameSets DEF Relay!CountLobbyTalkers
<1>3. talkers(b) \in SUBSET (talkers(a) \cup {p})
  OBVIOUS
<1> HIDE DEF talkers
<1>4. /\ IsFiniteSet(talkers(a) \cup {p})
      /\ Cardinality(talkers(a) \cup {p}) <= Cardinality(talkers(a)) + 1
      /\ Cardinality(talkers(a) \cup {p}) \in Nat
  <2>1. IsFiniteSet(talkers(a)) /\ Cardinality(talkers(a)) \in Nat
    BY <1>1
  <2>2. /\ IsFiniteSet(talkers(a) \cup {p})
        /\ Cardinality(talkers(a) \cup {p})
             = IF p \in talkers(a) THEN Cardinality(talkers(a)) ELSE Cardinality(talkers(a)) + 1
    BY <2>1, FS_AddElement
  <2> QED BY <2>1, <2>2
<1>5. Cardinality(talkers(b)) <= Cardinality(talkers(a)) + 1
  <2>1. Cardinality(talkers(b)) <= Cardinality(talkers(a) \cup {p})
    BY <1>3, <1>4, FS_Subset
  <2> QED BY <1>1, <1>4, <2>1
<1>6. ASSUME b[p].lobby = lobby /\ b[p].stream /= Relay!NotTalking
               => a[p].lobby = lobby /\ a[p].stream /= Relay!NotTalking
      PROVE  Cardinality(talkers(b)) <= Cardinality(talkers(a))
  <2>1. talkers(b) \in SUBSET talkers(a)
    BY <1>6 DEF talkers
  <2> QED BY <1>1, <2>1, FS_Subset
<1> QED BY <1>1, <1>2, <1>5, <1>6

(* The record of a peer.                                                   *)
RelayRecords == [ lobby : Lobbies \cup {Relay!NoLobby}, stream : StreamIds \cup {Relay!NotTalking},
             last : FrameArriving \cup {0}, heard : Nat, start : Nat, frames : Nat, bytes : Nat ]

(* The table that the checks see: well formed, with the lobbies of before  *)
(* and no new talker (ExpireTalkers, ResetRateWindowIfNeeded).             *)
LEMMA ExaminedShape ==
  ASSUME Relay!TypeOK, NEW p \in Peers
  PROVE  /\ Relay!Examined(p) \in [Peers -> RelayRecords]
         /\ \A q \in Peers : /\ Relay!Examined(p)[q].lobby = peers[q].lobby
                             /\ Relay!Examined(p)[q].stream /= Relay!NotTalking => peers[q].stream /= Relay!NotTalking
<1>1. Relay!ExpireTalkers \in [Peers -> RelayRecords]
  BY DEF Relay!ExpireTalkers, Relay!TypeOK, RelayRecords
<1>2. \A q \in Peers : /\ Relay!ExpireTalkers[q].lobby = peers[q].lobby
                       /\ Relay!ExpireTalkers[q].stream /= Relay!NotTalking => peers[q].stream /= Relay!NotTalking
  BY DEF Relay!ExpireTalkers, Relay!TypeOK
<1>3. ASSUME NEW peer \in RelayRecords
      PROVE  /\ Relay!Windowed(peer) \in RelayRecords
             /\ Relay!Windowed(peer).lobby = peer.lobby /\ Relay!Windowed(peer).stream = peer.stream
  BY DEF Relay!Windowed, Relay!TypeOK, RelayRecords
<1> QED BY <1>1, <1>2, <1>3 DEF Relay!Examined

(* The relay's records stay well formed whatever a frame says              *)
(* (ShroomVoiceRelayRoute, ShroomVoiceRelaySetPeer).                       *)
LEMMA RelayTypeStep == Relay!TypeOK /\ [Relay!Next]_Relay!vars => Relay!TypeOK'
<1> SUFFICES ASSUME Relay!TypeOK, [Relay!Next]_Relay!vars PROVE Relay!TypeOK'
  OBVIOUS
<1>1. CASE Relay!Advance
  BY <1>1 DEF Relay!Advance, Relay!TypeOK
<1>2. ASSUME NEW p \in Peers, NEW lobby \in Lobbies \cup {Relay!NoLobby}, Relay!SetPeer(p, lobby)
      PROVE  Relay!TypeOK'
  <2>1. Relay!ResetPeer(lobby) \in RelayRecords
    BY DEF Relay!ResetPeer, RelayRecords
  <2> QED BY <1>2, <2>1 DEF Relay!SetPeer, Relay!TypeOK, RelayRecords
<1>3. ASSUME NEW p \in Peers, NEW frame \in Relay!RelayedFrames, Relay!Route(p, frame)
      PROVE  Relay!TypeOK'
  <2>3. /\ relayTime \in Nat /\ frame.size \in Nat
        /\ frame.stream \in StreamIds /\ frame.sequence \in FrameArriving
    BY RelayFacts DEF Relay!RelayedFrames, Relay!TypeOK
  <2>4. ASSUME NEW peer \in RelayRecords PROVE Relay!Accepted(peer, frame) \in RelayRecords
    <3>1. (IF frame.end THEN Relay!NotTalking ELSE frame.stream) \in StreamIds \cup {Relay!NotTalking}
      BY <2>3
    <3>2. peer.frames + 1 \in Nat /\ peer.bytes + frame.size \in Nat
      BY <2>3 DEF RelayRecords
    <3> QED BY <2>3, <3>1, <3>2 DEF Relay!Accepted, RelayRecords
  <2>5. Relay!Examined(p) \in [Peers -> RelayRecords]
    BY ExaminedShape
  <2>6. peers' \in [Peers -> RelayRecords]
    BY <1>3, <2>4, <2>5 DEF Relay!Route
  <2> QED BY <1>3, <2>6 DEF Relay!Route, Relay!TypeOK, RelayRecords
<1>4. CASE UNCHANGED Relay!vars
  BY <1>4 DEF Relay!vars, Relay!TypeOK
<1> QED BY <1>1, <1>2, <1>3, <1>4 DEF Relay!Next

(* The records of the relay are well formed in every behaviour.            *)
THEOREM RelayTypeCorrect == Relay!Spec => []Relay!TypeOK
<1>1. Relay!Init => Relay!TypeOK
  BY DEF Relay!Init, Relay!TypeOK, Relay!ResetPeer
<1> QED BY <1>1, RelayTypeStep, PTL DEF Relay!Spec

(* A frame that is not accepted changes no talker, and one that is has     *)
(* found its sender talking or a place for one more talker                 *)
(* (the last two checks of ShroomVoiceRelayRoute).                         *)
LEMMA RouteBounded ==
  ASSUME Relay!TypeOK, Relay!TalkersBounded,
         NEW p \in Peers, NEW frame \in Relay!RelayedFrames, Relay!Route(p, frame), NEW lobby \in Lobbies
  PROVE  Relay!CountLobbyTalkers(peers', lobby) <= MaxTalkers
<1> DEFINE next == [Relay!Examined(p) EXCEPT ![p] = Relay!Accepted(@, frame)]
<1>1. \A q \in Peers : /\ Relay!Examined(p)[q].lobby = peers[q].lobby
                       /\ Relay!Examined(p)[q].stream /= Relay!NotTalking => peers[q].stream /= Relay!NotTalking
  BY ExaminedShape
<1>2. /\ Relay!CountLobbyTalkers(Relay!Examined(p), lobby) <= Relay!CountLobbyTalkers(peers, lobby)
      /\ Relay!CountLobbyTalkers(Relay!Examined(p), lobby) \in Nat
      /\ Relay!CountLobbyTalkers(peers, lobby) \in Nat
  BY <1>1, TalkersCounted
<1>3. Relay!CountLobbyTalkers(Relay!Examined(p), lobby) <= MaxTalkers
  BY <1>2, RelayFacts DEF Relay!TalkersBounded
<1>4. CASE Relay!Result(Relay!Examined(p), p, frame) # "accepted"
  BY <1>3, <1>4 DEF Relay!Route
<1>5. CASE Relay!Result(Relay!Examined(p), p, frame) = "accepted"
  <2>1. peers' = next
    BY <1>5 DEF Relay!Route
  <2>2. \/ Relay!Examined(p)[p].stream /= Relay!NotTalking
        \/ ~(Relay!CountLobbyTalkers(Relay!Examined(p), Relay!Examined(p)[p].lobby) >= MaxTalkers)
    BY <1>5 DEF Relay!Result
  <2>3. /\ \A q \in Peers \ {p} : next[q] = Relay!Examined(p)[q]
        /\ next[p].lobby = Relay!Examined(p)[p].lobby
    <3>1. Relay!Accepted(Relay!Examined(p)[p], frame).lobby = Relay!Examined(p)[p].lobby
      BY ExaminedShape DEF Relay!Accepted, RelayRecords
    <3> QED BY <3>1, ExaminedShape
  <2> HIDE DEF next
  <2>4. /\ Relay!CountLobbyTalkers(next, lobby) \in Nat
        /\ Relay!CountLobbyTalkers(next, lobby) <= Relay!CountLobbyTalkers(Relay!Examined(p), lobby) + 1
        /\ Relay!Examined(p)[p].stream /= Relay!NotTalking \/ Relay!Examined(p)[p].lobby /= lobby
             => Relay!CountLobbyTalkers(next, lobby) <= Relay!CountLobbyTalkers(Relay!Examined(p), lobby)
    BY <2>3, TalkersCounted
  <2>5. CASE Relay!Examined(p)[p].stream /= Relay!NotTalking \/ Relay!Examined(p)[p].lobby /= lobby
    BY <1>2, <1>3, <2>1, <2>4, <2>5, RelayFacts
  <2>6. CASE Relay!Examined(p)[p].stream = Relay!NotTalking /\ Relay!Examined(p)[p].lobby = lobby
    BY <1>2, <2>1, <2>2, <2>4, <2>6, RelayFacts
  <2> QED BY <2>5, <2>6
<1> QED BY <1>4, <1>5

(* No step of the relay takes a lobby over the limit.                      *)
LEMMA TalkersStep ==
  Relay!TypeOK /\ Relay!TalkersBounded /\ [Relay!Next]_Relay!vars => Relay!TalkersBounded'
<1> SUFFICES ASSUME Relay!TypeOK, Relay!TalkersBounded, [Relay!Next]_Relay!vars, NEW lobby \in Lobbies
             PROVE  Relay!CountLobbyTalkers(peers', lobby) <= MaxTalkers
  BY DEF Relay!TalkersBounded
<1>1. CASE Relay!Advance \/ UNCHANGED Relay!vars
  <2>1. peers' = peers
    BY <1>1 DEF Relay!Advance, Relay!vars
  <2> QED BY <2>1 DEF Relay!TalkersBounded
<1>2. ASSUME NEW p \in Peers, NEW place \in Lobbies \cup {Relay!NoLobby}, Relay!SetPeer(p, place)
      PROVE  Relay!CountLobbyTalkers(peers', lobby) <= MaxTalkers
  <2>1. /\ \A q \in Peers \ {p} : peers'[q] = peers[q]
        /\ peers'[p].stream = Relay!NotTalking
    BY <1>2 DEF Relay!SetPeer, Relay!ResetPeer, Relay!TypeOK
  <2>2. /\ Relay!CountLobbyTalkers(peers', lobby) <= Relay!CountLobbyTalkers(peers, lobby)
        /\ Relay!CountLobbyTalkers(peers, lobby) \in Nat /\ Relay!CountLobbyTalkers(peers', lobby) \in Nat
    BY <2>1, TalkersCounted
  <2> QED BY <2>2, RelayFacts DEF Relay!TalkersBounded
<1>3. ASSUME NEW p \in Peers, NEW frame \in Relay!RelayedFrames, Relay!Route(p, frame)
      PROVE  Relay!CountLobbyTalkers(peers', lobby) <= MaxTalkers
  BY <1>3, RouteBounded
<1> QED BY <1>1, <1>2, <1>3 DEF Relay!Next

(* However talkers start, stop, fall silent and change lobby, a lobby      *)
(* never has more than MaxTalkers of them at once                          *)
(* (ShroomVoiceRelayRoute, CountLobbyTalkers).                             *)
THEOREM TalkersStayBounded == Relay!Spec => []TalkersBounded
<1>1. Relay!Init => Relay!TalkersBounded
  <2> SUFFICES ASSUME Relay!Init, NEW lobby \in Lobbies PROVE Relay!CountLobbyTalkers(peers, lobby) <= MaxTalkers
    BY DEF Relay!TalkersBounded
  <2> DEFINE talkers == {p \in Peers : peers[p].lobby = lobby /\ peers[p].stream /= Relay!NotTalking}
  <2>1. talkers = {}
    BY DEF Relay!Init, Relay!ResetPeer
  <2>2. Relay!CountLobbyTalkers(peers, lobby) = Cardinality(talkers)
    BY SameSets DEF Relay!CountLobbyTalkers
  <2> HIDE DEF talkers
  <2> QED BY <2>1, <2>2, FS_EmptySet, RelayFacts
<1> QED BY <1>1, RelayTypeCorrect, TalkersStep, PTL DEF Relay!Spec, TalkersBounded

-----------------------------------------------------------------------------
(* Streams of a client are whole                                           *)

(* The frames a client says.                                               *)
SpokenFrames == [run : Nat, stream : Nat, sequence : Nat, start : BOOLEAN, end : BOOLEAN]

(* Every stream of s goes from its START on without a gap, and nothing of  *)
(* it follows its END: StreamsAreWhole of any sequence of frames.          *)
WholeStreams(s) ==
  \A i \in 1..Len(s) :
    IF i > 1 /\ s[i].run = s[i - 1].run /\ s[i].stream = s[i - 1].stream
    THEN s[i].sequence = s[i - 1].sequence + 1 /\ ~s[i].start /\ ~s[i - 1].end
    ELSE s[i].start /\ s[i].sequence = 0

(* The runtime and the locals of a worker: records whose counters are      *)
(* numbers.                                                                *)
RuntimeFields == {"session", "test", "running", "lost", "transmitting", "retry", "runs"}
WorkerFields == {"alive", "turn", "transmit", "active", "stream", "next", "pending"}
IsRuntime(r) == r = [field \in RuntimeFields |-> r[field]] /\ r.runs \in Nat
IsWorker(w) ==
  w = [field \in WorkerFields |-> w[field]] /\ w.stream \in Nat /\ w.next \in Nat /\ w.pending \in Seq(SpokenFrames)

(* What has been said, handed to the network or not: the frames sent, then *)
(* those in the queue, then the one that waits for room in it.             *)
Said == (sent \o outbound) \o worker.pending

(* The state has the shape of the program's.                               *)
VoiceShape ==
  IsRuntime(runtime) /\ IsWorker(worker) /\ sent \in Seq(SpokenFrames) /\ outbound \in Seq(SpokenFrames)

(* How the parts of the runtime belong together: a worker lives just while *)
(* it runs, it runs in a session or for a test and never for both, and     *)
(* during a test nothing is said.                                          *)
VoiceUses ==
  /\ worker.alive = runtime.running
  /\ runtime.running => runtime.session \/ runtime.test
  /\ runtime.test => ~runtime.session
  /\ runtime.transmitting => runtime.session
  /\ runtime.test => ~worker.transmit /\ ~worker.active /\ outbound = <<>> /\ worker.pending = <<>>

(* A worker that goes on saying s: no frame of s is of a later run, or of  *)
(* this run and a later stream, and the stream that is open is the one of  *)
(* the last frame, which was not its END.                                  *)
Follows(s, w, runs) ==
  /\ \A i \in 1..Len(s) : s[i].run <= runs /\ (w.alive /\ s[i].run = runs => s[i].stream <= w.stream)
  /\ w.active => /\ Len(s) > 0 /\ w.alive /\ s[Len(s)].run = runs /\ s[Len(s)].stream = w.stream
                 /\ s[Len(s)].sequence + 1 = w.next /\ ~s[Len(s)].end

(* The inductive part: all that has been said is whole, and the worker     *)
(* goes on where it ends. Of the frames sent alone nothing follows, since  *)
(* those under way were cut before them.                                   *)
SaidInStreams == WholeStreams(Said) /\ Follows(Said, worker, runtime.runs)

(* Concatenation is associative, and appending commutes with it.           *)
LEMMA JoinedSequences ==
  ASSUME NEW S, NEW a \in Seq(S), NEW b \in Seq(S), NEW c \in Seq(S)
  PROVE  /\ (a \o b) \o c \in Seq(S) /\ a \o <<>> = a /\ (a \o b) \o c = a \o (b \o c)
         /\ \A x \in S : a \o Append(b, x) = Append(a \o b, x) /\ a \o <<x>> = Append(a, x)
OBVIOUS

(* What was said first is whole if all of it is.                           *)
LEMMA WholePrefix ==
  ASSUME NEW a \in Seq(SpokenFrames), NEW b \in Seq(SpokenFrames), WholeStreams(a \o b)
  PROVE  WholeStreams(a)
<1>1. \A i \in 1..Len(a) : i \in 1..Len(a \o b) /\ (a \o b)[i] = a[i] /\ (i > 1 => (a \o b)[i - 1] = a[i - 1])
  OBVIOUS
<1> QED BY <1>1 DEF WholeStreams

(* A frame that goes on with the stream of the last one, or starts one of  *)
(* its own, keeps it whole.                                                *)
LEMMA WholeAppend ==
  ASSUME NEW a \in Seq(SpokenFrames), NEW f \in SpokenFrames, WholeStreams(a),
         IF Len(a) > 0 /\ f.run = a[Len(a)].run /\ f.stream = a[Len(a)].stream
         THEN f.sequence = a[Len(a)].sequence + 1 /\ ~f.start /\ ~a[Len(a)].end
         ELSE f.start /\ f.sequence = 0
  PROVE  WholeStreams(Append(a, f))
<1> DEFINE b == Append(a, f)
<1>1. /\ Len(a) \in Nat /\ Len(b) = Len(a) + 1 /\ b[Len(b)] = f
      /\ \A i \in 1..Len(a) : b[i] = a[i]
  OBVIOUS
<1> HIDE DEF b
<1>2. ASSUME NEW i \in 1..Len(b)
      PROVE  IF i > 1 /\ b[i].run = b[i - 1].run /\ b[i].stream = b[i - 1].stream
             THEN b[i].sequence = b[i - 1].sequence + 1 /\ ~b[i].start /\ ~b[i - 1].end
             ELSE b[i].start /\ b[i].sequence = 0
  <2>1. CASE i = Len(b)
    BY <1>1, <2>1
  <2>2. CASE i # Len(b)
    <3>1. i \in 1..Len(a) /\ b[i] = a[i] /\ (i > 1 => b[i - 1] = a[i - 1])
      BY <1>1, <2>2
    <3> QED BY <3>1 DEF WholeStreams
  <2> QED BY <2>1, <2>2
<1> QED BY <1>2 DEF WholeStreams, b

(* A new worker has no stream open and nothing pending (WorkerMain).       *)
LEMMA WorkerFacts ==
  ASSUME NEW alive
  PROVE  /\ IsWorker(Streams!NewWorker(alive))
         /\ Streams!NewWorker(alive).alive = alive /\ Streams!NewWorker(alive).pending = <<>>
         /\ ~Streams!NewWorker(alive).active /\ ~Streams!NewWorker(alive).transmit
BY DEF IsWorker, Streams!NewWorker, WorkerFields

(* Whatever the main thread makes of the runtime, what was said stays      *)
(* whole: either the worker goes on and the frames move from the queue to  *)
(* the network, or the worker is stopped, the frames it had queued are     *)
(* dropped, and a worker that starts belongs to a new run (StopRuntime,    *)
(* StartRuntime).                                                          *)
LEMMA BecomesFacts ==
  ASSUME VoiceShape, VoiceUses, SaidInStreams, NEW r, IsRuntime(r),
         NEW stopped \in BOOLEAN, NEW sends \in BOOLEAN, Streams!Becomes(r, stopped, sends),
         r.runs >= runtime.runs,
         r.running => r.runs = IF stopped \/ ~runtime.running THEN runtime.runs + 1 ELSE runtime.runs,
         r.running => r.session \/ r.test, r.test => ~r.session, r.transmitting => r.session,
         sends \/ (r.running /\ ~stopped /\ runtime.running => outbound = <<>>),
         r.test => runtime.test \/ stopped \/ ~runtime.running
  PROVE  (VoiceShape /\ VoiceUses /\ SaidInStreams)'
<1>1. CASE r.running /\ ~stopped /\ runtime.running
  <2>1. /\ runtime' = r /\ worker' = worker /\ outbound' = <<>>
        /\ sent' = IF sends THEN sent \o outbound ELSE sent
    BY <1>1 DEF Streams!Becomes
  <2>2. sent' = sent \o outbound /\ sent' \in Seq(SpokenFrames)
    BY <1>1, <2>1, JoinedSequences DEF VoiceShape
  <2>3. Said' = Said
    <3>1. sent \o outbound \in Seq(SpokenFrames)
      BY DEF VoiceShape
    <3>2. (sent \o outbound) \o <<>> = sent \o outbound
      BY <3>1
    <3>3. Said' = ((sent \o outbound) \o <<>>) \o worker.pending
      BY <2>1, <2>2 DEF Said
    <3> QED BY <3>2, <3>3 DEF Said
  <2>4. VoiceShape'
    BY <2>1, <2>2 DEF VoiceShape
  <2>5. VoiceUses'
    BY <1>1, <2>1 DEF VoiceUses
  <2>6. SaidInStreams'
    BY <1>1, <2>1, <2>3 DEF SaidInStreams
  <2> QED BY <2>4, <2>5, <2>6
<1>2. CASE ~(r.running /\ ~stopped /\ runtime.running)
  <2>1. runtime' = r /\ worker' = Streams!NewWorker(r.running) /\ outbound' = <<>> /\ sent' = sent
    BY <1>2 DEF Streams!Becomes
  <2>2. Said' = sent
    BY <2>1, WorkerFacts, JoinedSequences DEF Said, VoiceShape
  <2>3. VoiceShape'
    BY <2>1, WorkerFacts DEF VoiceShape
  <2>4. VoiceUses'
    BY <2>1, WorkerFacts DEF VoiceUses
  <2> DEFINE rest == outbound \o worker.pending
  <2>8. rest \in Seq(SpokenFrames) /\ Said = sent \o rest
    <3>0. PICK p : p = worker.pending
      OBVIOUS
    <3>1. p \in Seq(SpokenFrames) /\ outbound \in Seq(SpokenFrames) /\ sent \in Seq(SpokenFrames)
      BY <3>0 DEF VoiceShape, IsWorker
    <3>2. outbound \o p \in Seq(SpokenFrames) /\ (sent \o outbound) \o p = sent \o (outbound \o p)
      BY <3>1, JoinedSequences
    <3> QED BY <3>0, <3>2 DEF Said
  <2> HIDE DEF rest
  <2>5. WholeStreams(sent)
    BY <2>8, WholePrefix DEF SaidInStreams, VoiceShape
  <2>6. ASSUME NEW i \in 1..Len(sent)
        PROVE  sent[i].run <= runtime.runs /\ sent[i].run \in Nat
    <3>1. i \in 1..Len(Said) /\ Said[i] = sent[i]
      BY <2>8 DEF VoiceShape
    <3>2. sent[i] \in SpokenFrames
      BY DEF VoiceShape
    <3> QED BY <3>1, <3>2 DEF SaidInStreams, Follows, SpokenFrames
  <2>7. Follows(sent, worker', r.runs)
    BY <1>2, <2>1, <2>6, WorkerFacts DEF Follows, VoiceShape, IsRuntime
  <2> QED BY <2>1, <2>2, <2>3, <2>4, <2>5, <2>7 DEF SaidInStreams
<1> QED BY <1>1, <1>2

(* The same when the worker is stopped and no frame is handed out.         *)
LEMMA BecomesStopped ==
  ASSUME VoiceShape, VoiceUses, SaidInStreams, NEW r, IsRuntime(r), Streams!Becomes(r, TRUE, FALSE),
         r.runs >= runtime.runs,
         r.running => r.runs = runtime.runs + 1 /\ (r.session \/ r.test),
         r.test => ~r.session, r.transmitting => r.session
  PROVE  (VoiceShape /\ VoiceUses /\ SaidInStreams)'
<1>1. PICK stopped \in BOOLEAN : stopped = TRUE
  OBVIOUS
<1>2. PICK sends \in BOOLEAN : sends = FALSE
  OBVIOUS
<1>3. Streams!Becomes(r, stopped, sends)
  BY <1>1, <1>2
<1>4. /\ r.running => r.runs = IF stopped \/ ~runtime.running THEN runtime.runs + 1 ELSE runtime.runs
      /\ sends \/ (r.running /\ ~stopped /\ runtime.running => outbound = <<>>)
      /\ r.test => runtime.test \/ stopped \/ ~runtime.running
      /\ r.running => r.session \/ r.test
  BY <1>1
<1> QED BY <1>3, <1>4, BecomesFacts

(* The runtime t is r stopped; or r started once more; or r as far as      *)
(* streams are concerned.                                                  *)
Halts(r, t) ==
  /\ IsRuntime(t) /\ t.running = FALSE /\ t.transmitting = FALSE /\ t.session = r.session
  /\ t.test = r.test /\ t.runs = r.runs
Starts(r, t) ==
  /\ IsRuntime(t) /\ t.running = TRUE /\ t.transmitting = r.transmitting /\ t.session = r.session
  /\ t.test = r.test /\ t.runs = r.runs + 1
Keeps(r, t) ==
  /\ IsRuntime(t) /\ t.running = r.running /\ t.transmitting = r.transmitting /\ t.session = r.session
  /\ t.test = r.test /\ t.runs = r.runs

(* What StopRuntime changes.                                               *)
LEMMA StoppedFacts == ASSUME NEW r, IsRuntime(r) PROVE Halts(r, Streams!Stopped(r))
<1>1. PICK t : t = Streams!Stopped(r)
  OBVIOUS
<1>2. t = [r EXCEPT !.running = FALSE, !.transmitting = FALSE]
  BY <1>1 DEF Streams!Stopped
<1>3. Halts(r, t)
  BY <1>2 DEF IsRuntime, RuntimeFields, Halts
<1> QED BY <1>1, <1>3

(* What StartRuntime changes.                                              *)
LEMMA StartedFacts == ASSUME NEW r, IsRuntime(r) PROVE Starts(r, Streams!Started(r))
<1>1. PICK t : t = Streams!Started(r)
  OBVIOUS
<1>2. PICK n \in Nat : n = r.runs + 1
  BY DEF IsRuntime
<1>3. t = [r EXCEPT !.running = TRUE, !.lost = FALSE, !.runs = n]
  BY <1>1, <1>2 DEF Streams!Started, IsRuntime, RuntimeFields
<1>4. IsRuntime(t) /\ t.running = TRUE /\ t.runs = n
  BY <1>3 DEF IsRuntime, RuntimeFields
<1>5. t.transmitting = r.transmitting /\ t.session = r.session /\ t.test = r.test
  BY <1>3 DEF IsRuntime, RuntimeFields
<1> QED BY <1>1, <1>2, <1>4, <1>5 DEF Starts

(* A lost device stops the runtime, and nothing else does in an update     *)
(* (ShroomVoiceUpdate).                                                    *)
LEMMA RecoveredFacts ==
  ASSUME NEW r, IsRuntime(r)
  PROVE  Streams!Recovered(r) = r \/ Halts(r, Streams!Recovered(r))
<1>1. CASE r.running /\ r.lost
  <2>1. PICK q : q = Streams!Stopped(r)
    OBVIOUS
  <2>2. PICK t : t = Streams!Recovered(r)
    OBVIOUS
  <2>3. t = [q EXCEPT !.lost = FALSE, !.retry = voiceTime + RecoveryDelay]
    BY <1>1, <2>1, <2>2 DEF Streams!Recovered
  <2>4. Halts(r, q)
    BY <2>1, StoppedFacts
  <2>5. Halts(r, t)
    BY <2>3, <2>4 DEF IsRuntime, RuntimeFields, Halts
  <2> QED BY <2>2, <2>5
<1>2. CASE ~(r.running /\ r.lost)
  BY <1>2 DEF Streams!Recovered
<1> QED BY <1>1, <1>2

(* A start needs a runtime that does not run and that somebody uses        *)
(* (ShroomVoiceUpdate).                                                    *)
LEMMA RestartedFacts ==
  ASSUME NEW r, IsRuntime(r), NEW starts
  PROVE  \/ Keeps(r, Streams!Restarted(r, starts))
         \/ ~r.running /\ (r.session \/ r.test) /\ Starts(r, Streams!Restarted(r, starts))
<1>1. CASE r.running \/ ~(r.session \/ r.test) \/ voiceTime < r.retry
  BY <1>1 DEF Streams!Restarted, Keeps
<1>2. CASE ~(r.running \/ ~(r.session \/ r.test) \/ voiceTime < r.retry) /\ starts
  <2>1. Streams!Restarted(r, starts) = Streams!Started(r)
    BY <1>2 DEF Streams!Restarted
  <2> QED BY <1>2, <2>1, StartedFacts
<1>3. CASE ~(r.running \/ ~(r.session \/ r.test) \/ voiceTime < r.retry) /\ ~starts
  <2>1. PICK t : t = [r EXCEPT !.retry = voiceTime + RecoveryDelay]
    OBVIOUS
  <2>2. Streams!Restarted(r, starts) = t
    BY <1>3, <2>1 DEF Streams!Restarted
  <2>3. Keeps(r, t)
    BY <2>1 DEF IsRuntime, RuntimeFields, Keeps
  <2> QED BY <2>2, <2>3
<1> QED BY <1>1, <1>2, <1>3

(* The key transmits in a session only (ShroomVoiceUpdate).                *)
LEMMA TransmittingFacts ==
  ASSUME NEW r, IsRuntime(r), NEW key
  PROVE  LET t == Streams!Transmitting(r, key)
         IN  /\ IsRuntime(t) /\ t.session = r.session /\ t.test = r.test /\ t.running = r.running
             /\ t.runs = r.runs /\ (t.transmitting => r.session)
BY DEF IsRuntime, Streams!Transmitting, RuntimeFields

(* A frame of the game with voice: the session opens or closes, the device *)
(* recovers, the runtime starts again, and in between nothing said gets    *)
(* out of order (GameUpdateVoice).                                         *)
LEMMA UpdateStep ==
  ASSUME VoiceShape, VoiceUses, SaidInStreams,
         NEW session \in BOOLEAN, NEW key \in BOOLEAN, NEW starts \in BOOLEAN,
         Streams!GameUpdateVoice(session, key, starts)
  PROVE  (VoiceShape /\ VoiceUses /\ SaidInStreams)'
<1>1. PICK r0 : r0 = [runtime EXCEPT !.session = session]
  OBVIOUS
<1>2. PICK r1 : r1 = IF session THEN r0 ELSE Streams!Stopped(r0)
  OBVIOUS
<1>3. PICK r2 : r2 = Streams!Recovered(r1)
  OBVIOUS
<1>4. PICK r3 : r3 = Streams!Restarted(r2, starts)
  OBVIOUS
<1>5. PICK r : r = Streams!Transmitting(r3, key)
  OBVIOUS
<1>6. PICK stopped \in BOOLEAN : stopped = (r1 /= r0 \/ r2 /= r1)
  OBVIOUS
<1>7. ~runtime.test /\ Streams!Becomes(r, stopped, TRUE)
  BY <1>1, <1>2, <1>3, <1>4, <1>5, <1>6 DEF Streams!GameUpdateVoice
<1>8. /\ IsRuntime(r0) /\ r0.session = session /\ r0.test = runtime.test /\ r0.running = runtime.running
      /\ r0.runs = runtime.runs
  BY <1>1 DEF VoiceShape, IsRuntime, RuntimeFields
<1>9. /\ IsRuntime(r1) /\ r1.session = session /\ r1.test = runtime.test /\ r1.runs = runtime.runs
      /\ session => r1 = r0
      /\ ~session => r1.running = FALSE
  BY <1>2, <1>8, StoppedFacts DEF Halts
<1>16. r2 = r1 \/ Halts(r1, r2)
  BY <1>3, <1>9, RecoveredFacts
<1>10. /\ IsRuntime(r2) /\ r2.session = session /\ r2.test = runtime.test /\ r2.runs = runtime.runs
       /\ r2 = r1 \/ r2.running = FALSE
  BY <1>9, <1>16 DEF Halts
<1>17. Keeps(r2, r3) \/ (~r2.running /\ (r2.session \/ r2.test) /\ Starts(r2, r3))
  BY <1>4, <1>10, RestartedFacts
<1>11. /\ IsRuntime(r3) /\ r3.session = session /\ r3.test = runtime.test
       /\ \/ r3.running = r2.running /\ r3.runs = r2.runs
          \/ ~r2.running /\ (r2.session \/ r2.test) /\ r3.running = TRUE /\ r3.runs = r2.runs + 1
  BY <1>10, <1>17 DEF Keeps, Starts
<1>12. /\ IsRuntime(r) /\ r.session = session /\ r.test = runtime.test /\ r.running = r3.running
       /\ r.runs = r3.runs /\ (r.transmitting => session)
  BY <1>5, <1>11, TransmittingFacts
<1>13. r2.running => r2 = r1 /\ session /\ r1 = r0 /\ runtime.running /\ ~stopped
  BY <1>6, <1>8, <1>9, <1>10
<1>14. runtime.running /\ ~stopped => r2.running
  BY <1>6, <1>8, <1>9, <1>10
<1>15. runtime.runs \in Nat
  BY DEF VoiceShape, IsRuntime
<1>18. /\ r.runs >= runtime.runs
       /\ r.running => r.runs = IF stopped \/ ~runtime.running THEN runtime.runs + 1 ELSE runtime.runs
  BY <1>10, <1>11, <1>12, <1>13, <1>14, <1>15
<1>19. r.running => r.session \/ r.test
  BY <1>9, <1>10, <1>11, <1>12, <1>13
<1>20. ~r.test /\ (r.transmitting => r.session)
  BY <1>7, <1>12
<1> QED BY <1>7, <1>12, <1>18, <1>19, <1>20, BecomesFacts

(* The inductive invariant.                                                *)
VoiceInvariant == VoiceShape /\ VoiceUses /\ SaidInStreams

(* The microphone test starts a run of its own and says nothing            *)
(* (ShroomVoiceBeginMicTest, ShroomVoiceUpdate, ShroomVoiceEndMicTest).    *)
LEMMA TestStep ==
  ASSUME VoiceInvariant, NEW starts \in BOOLEAN,
         Streams!BeginMicTest(starts) \/ Streams!TestUpdate(starts) \/ Streams!EndMicTest
  PROVE  VoiceInvariant'
<1> USE DEF VoiceInvariant
<1>0. IsRuntime(runtime) /\ runtime.runs \in Nat
  BY DEF VoiceShape, IsRuntime
<1>1. CASE Streams!BeginMicTest(starts)
  <2>1. PICK r0 : r0 = [runtime EXCEPT !.retry = 0]
    OBVIOUS
  <2>2. PICK r1 : r1 = [r0 EXCEPT !.test = TRUE]
    OBVIOUS
  <2>3. PICK r : r = IF starts THEN Streams!Started(r1) ELSE r0
    OBVIOUS
  <2>4. ~runtime.session /\ ~runtime.test /\ Streams!Becomes(r, TRUE, FALSE)
    BY <1>1, <2>1, <2>2, <2>3 DEF Streams!BeginMicTest
  <2>5. Keeps(runtime, r0)
    BY <1>0, <2>1 DEF Keeps, IsRuntime, RuntimeFields
  <2>6. /\ IsRuntime(r1) /\ r1.test = TRUE /\ r1.session = r0.session
        /\ r1.transmitting = r0.transmitting /\ r1.runs = r0.runs
    BY <2>2, <2>5 DEF Keeps, IsRuntime, RuntimeFields
  <2>7. CASE starts
    <3>1. Starts(r1, r)
      BY <2>3, <2>6, <2>7, StartedFacts
    <3>2. /\ IsRuntime(r) /\ r.runs = runtime.runs + 1 /\ r.test = TRUE /\ ~r.session
          /\ r.transmitting = runtime.transmitting
      BY <2>4, <2>5, <2>6, <3>1 DEF Keeps, Starts
    <3>3. r.transmitting => r.session
      BY <2>4, <3>2 DEF VoiceUses
    <3>4. Streams!Becomes(r, TRUE, FALSE)
      BY <2>4
    <3>5. r.runs >= runtime.runs /\ (r.running => r.runs = runtime.runs + 1 /\ (r.session \/ r.test))
      BY <1>0, <3>2
    <3>6. r.test => ~r.session
      BY <3>2
    <3> QED BY <3>2, <3>3, <3>4, <3>5, <3>6, BecomesStopped
  <2>8. CASE ~starts
    <3>1. r = r0 /\ ~runtime.running
      BY <2>3, <2>4, <2>8 DEF VoiceUses
    <3>2. /\ IsRuntime(r) /\ r.runs = runtime.runs /\ ~r.running /\ ~r.test /\ ~r.session
          /\ r.transmitting = runtime.transmitting
      BY <2>4, <2>5, <3>1 DEF Keeps
    <3>3. r.transmitting => r.session
      BY <2>4, <3>2 DEF VoiceUses
    <3>4. Streams!Becomes(r, TRUE, FALSE)
      BY <2>4
    <3>5. r.runs >= runtime.runs /\ (r.running => r.runs = runtime.runs + 1 /\ (r.session \/ r.test))
      BY <1>0, <3>2
    <3>6. r.test => ~r.session
      BY <3>2
    <3> QED BY <3>2, <3>3, <3>4, <3>5, <3>6, BecomesStopped
  <2> QED BY <2>7, <2>8
<1>2. CASE Streams!TestUpdate(starts)
  <2>1. PICK r1 : r1 = Streams!Recovered(runtime)
    OBVIOUS
  <2>2. PICK r2 : r2 = Streams!Restarted(r1, starts)
    OBVIOUS
  <2>3. PICK r : r = Streams!Transmitting(r2, FALSE)
    OBVIOUS
  <2>4. PICK stopped \in BOOLEAN : stopped = (r1 /= runtime)
    OBVIOUS
  <2>5. runtime.test /\ Streams!Becomes(r, stopped, FALSE)
    BY <1>2, <2>1, <2>2, <2>3, <2>4 DEF Streams!TestUpdate
  <2>6. r1 = runtime \/ Halts(runtime, r1)
    BY <1>0, <2>1, RecoveredFacts
  <2>7. /\ IsRuntime(r1) /\ r1.test = runtime.test /\ r1.session = runtime.session /\ r1.runs = runtime.runs
        /\ r1 = runtime \/ r1.running = FALSE
    BY <1>0, <2>6 DEF Halts
  <2>8. Keeps(r1, r2) \/ (~r1.running /\ (r1.session \/ r1.test) /\ Starts(r1, r2))
    BY <2>2, <2>7, RestartedFacts
  <2>9. /\ IsRuntime(r2) /\ r2.session = runtime.session /\ r2.test = runtime.test
        /\ \/ r2.running = r1.running /\ r2.runs = runtime.runs
           \/ ~r1.running /\ r2.running = TRUE /\ r2.runs = runtime.runs + 1
    BY <2>7, <2>8 DEF Keeps, Starts
  <2>10. /\ IsRuntime(r) /\ r.session = runtime.session /\ r.test = runtime.test /\ r.running = r2.running
         /\ r.runs = r2.runs /\ (r.transmitting => runtime.session)
    BY <2>3, <2>9, TransmittingFacts
  <2>11. r1.running => r1 = runtime /\ runtime.running /\ ~stopped
    BY <2>4, <2>7
  <2>12. runtime.running /\ ~stopped => r1.running
    BY <2>4
  <2>13. /\ r.runs >= runtime.runs
         /\ r.running => r.runs = IF stopped \/ ~runtime.running THEN runtime.runs + 1 ELSE runtime.runs
    BY <1>0, <2>9, <2>10, <2>11, <2>12
  <2>14. outbound = <<>> /\ (r.running => r.session \/ r.test) /\ (r.test => ~r.session)
         /\ (r.transmitting => r.session)
    BY <2>5, <2>10 DEF VoiceUses
  <2> QED BY <2>5, <2>10, <2>13, <2>14, BecomesFacts
<1>3. CASE Streams!EndMicTest
  <2>1. PICK r0 : r0 = [runtime EXCEPT !.test = FALSE]
    OBVIOUS
  <2>2. PICK r : r = Streams!Stopped(r0)
    OBVIOUS
  <2>3. Streams!Becomes(r, TRUE, FALSE)
    BY <1>3, <2>1, <2>2 DEF Streams!EndMicTest
  <2>4. IsRuntime(r0) /\ r0.test = FALSE /\ r0.runs = runtime.runs
    BY <1>0, <2>1 DEF IsRuntime, RuntimeFields
  <2>5. Halts(r0, r)
    BY <2>2, <2>4, StoppedFacts
  <2>6. IsRuntime(r) /\ r.runs = runtime.runs /\ r.running = FALSE /\ r.transmitting = FALSE /\ r.test = FALSE
    BY <2>4, <2>5 DEF Halts
  <2>7. r.runs >= runtime.runs /\ (r.running => r.runs = runtime.runs + 1 /\ (r.session \/ r.test))
    BY <1>0, <2>6
  <2>8. (r.test => ~r.session) /\ (r.transmitting => r.session) /\ IsRuntime(r)
    BY <2>6
  <2> QED BY <2>3, <2>7, <2>8, BecomesStopped
<1> QED BY <1>1, <1>2, <1>3

(* Only the stream, its next number and whether it is open say how a       *)
(* worker goes on.                                                         *)
LEMMA FollowsSame ==
  ASSUME NEW s \in Seq(SpokenFrames), NEW w, NEW v, NEW runs, Follows(s, w, runs),
         v.alive = w.alive, v.active = w.active, v.stream = w.stream, v.next = w.next
  PROVE  Follows(s, v, runs)
BY DEF Follows

(* The steps that say nothing: capturing, losing the device, reading the   *)
(* key.                                                                    *)
LEMMA QuietStep ==
  ASSUME VoiceInvariant,
         \/ Streams!Capture \/ Streams!LoseDevice \/ Streams!WorkerReads
         \/ Streams!Advance \/ UNCHANGED Streams!vars
  PROVE  VoiceInvariant'
<1> USE DEF VoiceInvariant
<1>1. CASE Streams!Capture \/ Streams!Advance \/ UNCHANGED Streams!vars
  <2>1. runtime' = runtime /\ worker' = worker /\ outbound' = outbound /\ sent' = sent
    BY <1>1 DEF Streams!Capture, Streams!Advance, Streams!vars
  <2> QED BY <2>1 DEF VoiceShape, VoiceUses, SaidInStreams, Said
<1>2. CASE Streams!LoseDevice
  <2>1. PICK r : r = [runtime EXCEPT !.lost = TRUE]
    OBVIOUS
  <2>2. runtime' = r /\ worker' = worker /\ outbound' = outbound /\ sent' = sent
    BY <1>2, <2>1 DEF Streams!LoseDevice
  <2>3. Keeps(runtime, r)
    BY <2>1 DEF Keeps, VoiceShape, IsRuntime, RuntimeFields
  <2> QED BY <2>2, <2>3 DEF Keeps, VoiceShape, VoiceUses, SaidInStreams, Said
<1>3. CASE Streams!WorkerReads
  <2>1. PICK w : w = [worker EXCEPT !.turn = "work", !.transmit = runtime.transmitting]
    OBVIOUS
  <2>2. runtime' = runtime /\ worker' = w /\ outbound' = outbound /\ sent' = sent
    BY <1>3, <2>1 DEF Streams!WorkerReads
  <2>3. /\ IsWorker(w) /\ w.alive = worker.alive /\ w.active = worker.active /\ w.stream = worker.stream
        /\ w.next = worker.next /\ w.pending = worker.pending /\ w.transmit = runtime.transmitting
    BY <2>1 DEF VoiceShape, IsWorker, WorkerFields
  <2>4. Said' = Said /\ Said \in Seq(SpokenFrames)
    BY <2>2, <2>3, JoinedSequences DEF Said, VoiceShape, IsWorker
  <2>5. Follows(Said, w, runtime.runs)
    BY <2>3, <2>4, FollowsSame DEF SaidInStreams
  <2> QED BY <2>2, <2>3, <2>4, <2>5 DEF VoiceShape, VoiceUses, SaidInStreams
<1> QED BY <1>1, <1>2, <1>3

(* What a worker says next, a START with the number 0 in a stream of its   *)
(* own or the next number of the stream that is open, keeps all of it      *)
(* whole (QueueEncoded).                                                   *)
LEMMA SaidAppend ==
  ASSUME NEW s \in Seq(SpokenFrames), NEW f \in SpokenFrames, NEW w, NEW v, NEW runs \in Nat, IsWorker(w),
         WholeStreams(s), Follows(s, w, runs), w.alive, v.alive, f.run = runs, f.stream = v.stream,
         v.next = f.sequence + 1, v.active => ~f.end,
         \/ ~w.active /\ f.start /\ f.sequence = 0 /\ f.stream = w.stream + 1
         \/ w.active /\ ~f.start /\ f.sequence = w.next /\ f.stream = w.stream
  PROVE  WholeStreams(Append(s, f)) /\ Follows(Append(s, f), v, runs)
<1>1. f.stream \in Nat /\ f.sequence \in Nat /\ w.stream \in Nat /\ w.next \in Nat
  BY DEF SpokenFrames, IsWorker
<1>2. Len(s) \in Nat /\ \A i \in 1..Len(s) : s[i] \in SpokenFrames
  OBVIOUS
<1>3. \A i \in 1..Len(s) : s[i].run \in Nat /\ s[i].stream \in Nat /\ s[i].sequence \in Nat
  BY <1>2 DEF SpokenFrames
<1>4. ASSUME ~w.active PROVE WholeStreams(Append(s, f))
  <2>1. f.start /\ f.sequence = 0 /\ f.stream = w.stream + 1
    BY <1>4
  <2>2. ASSUME Len(s) > 0, f.run = s[Len(s)].run PROVE f.stream # s[Len(s)].stream
    <3>1. Len(s) \in 1..Len(s)
      BY <1>2, <2>2
    <3>2. s[Len(s)].stream <= w.stream /\ s[Len(s)].stream \in Nat
      BY <1>3, <2>2, <3>1 DEF Follows
    <3> QED BY <1>1, <2>1, <3>2
  <2>3. ~(Len(s) > 0 /\ f.run = s[Len(s)].run /\ f.stream = s[Len(s)].stream)
    BY <2>2
  <2>4. IF Len(s) > 0 /\ f.run = s[Len(s)].run /\ f.stream = s[Len(s)].stream
        THEN f.sequence = s[Len(s)].sequence + 1 /\ ~f.start /\ ~s[Len(s)].end
        ELSE f.start /\ f.sequence = 0
    BY <2>1, <2>3
  <2> QED BY <2>4, WholeAppend
<1>5. ASSUME w.active PROVE WholeStreams(Append(s, f))
  <2>1. ~f.start /\ f.sequence = w.next /\ f.stream = w.stream
    BY <1>5
  <2>2. /\ Len(s) > 0 /\ s[Len(s)].run = runs /\ s[Len(s)].stream = w.stream
        /\ s[Len(s)].sequence + 1 = w.next /\ ~s[Len(s)].end
    BY <1>5 DEF Follows
  <2>3. /\ Len(s) > 0 /\ f.run = s[Len(s)].run /\ f.stream = s[Len(s)].stream
        /\ f.sequence = s[Len(s)].sequence + 1
    BY <1>1, <2>1, <2>2
  <2>4. IF Len(s) > 0 /\ f.run = s[Len(s)].run /\ f.stream = s[Len(s)].stream
        THEN f.sequence = s[Len(s)].sequence + 1 /\ ~f.start /\ ~s[Len(s)].end
        ELSE f.start /\ f.sequence = 0
    BY <2>1, <2>2, <2>3
  <2> QED BY <2>4, WholeAppend
<1>6. WholeStreams(Append(s, f))
  BY <1>4, <1>5
<1>7. PICK t : t = Append(s, f)
  OBVIOUS
<1>8. Len(t) = Len(s) + 1 /\ t[Len(t)] = f /\ \A i \in 1..Len(s) : t[i] = s[i]
  BY <1>7
<1>9. f.stream >= w.stream
  BY <1>1
<1>10. ASSUME NEW i \in 1..Len(t)
       PROVE  t[i].run <= runs /\ (t[i].run = runs => t[i].stream <= v.stream)
  <2>1. CASE i = Len(t)
    BY <1>1, <1>8, <2>1
  <2>2. CASE i # Len(t)
    <3>1. i \in 1..Len(s) /\ t[i] = s[i]
      BY <1>2, <1>8, <2>2
    <3>2. s[i].run <= runs /\ (s[i].run = runs => s[i].stream <= w.stream) /\ s[i].stream \in Nat
      BY <1>3, <3>1 DEF Follows
    <3> QED BY <1>1, <1>9, <3>1, <3>2
  <2> QED BY <2>1, <2>2
<1>11. v.active => /\ Len(t) > 0 /\ v.alive /\ t[Len(t)].run = runs /\ t[Len(t)].stream = v.stream
                   /\ t[Len(t)].sequence + 1 = v.next /\ ~t[Len(t)].end
  BY <1>2, <1>8
<1>12. Follows(t, v, runs)
  BY <1>10, <1>11 DEF Follows
<1> QED BY <1>6, <1>7, <1>12

(* A turn of the worker: the pending frame goes out first, then at most    *)
(* one frame is said, which becomes pending when there is no room          *)
(* (WorkerMain).                                                           *)
LEMMA WorkStep ==
  ASSUME VoiceInvariant, Streams!WorkerWorks
  PROVE  VoiceInvariant'
<1> USE DEF VoiceInvariant
<1>10. PICK free \in BOOLEAN : free = (worker.pending = <<>> \/ Streams!Flushes)
  OBVIOUS
<1>11. PICK queue : queue = IF Streams!Flushes THEN outbound \o worker.pending ELSE outbound
  OBVIOUS
<1>12. PICK left : left = IF Streams!Flushes THEN <<>> ELSE worker.pending
  OBVIOUS
<1>1. /\ IsWorker(worker) /\ worker.pending \in Seq(SpokenFrames)
      /\ sent \in Seq(SpokenFrames) /\ outbound \in Seq(SpokenFrames)
      /\ runtime.runs \in Nat /\ worker.stream \in Nat /\ worker.next \in Nat /\ IsRuntime(runtime)
  BY DEF VoiceShape, IsRuntime, IsWorker
<1>2. queue \in Seq(SpokenFrames) /\ left \in Seq(SpokenFrames) /\ (sent \o queue) \o left = Said
  <2>1. PICK p : p = worker.pending
    OBVIOUS
  <2>2. p \in Seq(SpokenFrames)
    BY <1>1, <2>1
  <2>3. CASE Streams!Flushes
    <3>1. PICK q : q = outbound \o p
      OBVIOUS
    <3>2. q \in Seq(SpokenFrames) /\ (sent \o outbound) \o p = sent \o q
      <4>1. sent \in Seq(SpokenFrames) /\ outbound \in Seq(SpokenFrames)
        BY <1>1
      <4>2. outbound \o p \in Seq(SpokenFrames) /\ (sent \o outbound) \o p = sent \o (outbound \o p)
        BY <2>2, <4>1, JoinedSequences
      <4> QED BY <3>1, <4>2
    <3>3. sent \o q \in Seq(SpokenFrames)
      BY <1>1, <3>2
    <3>4. (sent \o q) \o <<>> = sent \o q
      BY <3>3
    <3> QED BY <1>11, <1>12, <2>1, <2>3, <3>1, <3>2, <3>4 DEF Said
  <2>4. CASE ~Streams!Flushes
    BY <1>1, <1>11, <1>12, <2>4 DEF Said
  <2> QED BY <2>3, <2>4
<1>7. PICK result : result = Streams!Encoded(free, queue)
  OBVIOUS
<1>3. /\ worker.alive /\ runtime' = runtime /\ sent' = sent
      /\ outbound' = result.queue
      /\ worker' = [result.worker EXCEPT !.turn = "read",
                      !.pending = IF result.worker = worker /\ Streams!Flushes THEN <<>> ELSE @]
  BY <1>7, <1>10, <1>11 DEF Streams!WorkerWorks
<1>4. Said \in Seq(SpokenFrames)
  BY <1>1, JoinedSequences DEF Said
<1>5. CASE ~Streams!Speaks(free)
  <2>1. result = [queue |-> queue, worker |-> worker]
    BY <1>5, <1>7 DEF Streams!Encoded
  <2>2. PICK w : w = [worker EXCEPT !.turn = "read", !.pending = left]
    OBVIOUS
  <2>3. outbound' = queue /\ worker' = w
    <3>1. result.worker = worker /\ result.queue = queue
      BY <2>1
    <3>2. worker' = [worker EXCEPT !.turn = "read", !.pending = IF Streams!Flushes THEN <<>> ELSE worker.pending]
      BY <1>3, <3>1
    <3> QED BY <1>3, <1>12, <2>2, <3>1, <3>2
  <2>4. /\ IsWorker(w) /\ w.pending = left /\ w.alive = worker.alive /\ w.active = worker.active
        /\ w.stream = worker.stream /\ w.next = worker.next /\ w.transmit = worker.transmit
    BY <1>1, <1>2, <2>2 DEF IsWorker, WorkerFields
  <2>5. Said' = Said
    BY <1>2, <1>3, <2>3, <2>4 DEF Said
  <2>6. Follows(Said, w, runtime.runs)
    BY <1>4, <2>4, FollowsSame DEF SaidInStreams
  <2>7. runtime.test => queue = <<>> /\ left = <<>>
    BY <1>11, <1>12 DEF VoiceUses, Streams!Flushes
  <2>8. VoiceUses'
    <3>1. /\ worker'.alive = worker.alive /\ worker'.active = worker.active /\ worker'.transmit = worker.transmit
          /\ worker'.pending = left /\ outbound' = queue /\ runtime' = runtime
      BY <1>3, <2>3, <2>4
    <3> QED BY <2>7, <3>1 DEF VoiceUses
  <2> QED BY <1>2, <1>3, <2>3, <2>4, <2>5, <2>6, <2>8 DEF VoiceShape, SaidInStreams
<1>6. CASE Streams!Speaks(free)
  <2>1. free /\ left = <<>> /\ sent \o queue = Said
    <3>1. free /\ left = <<>>
      BY <1>6, <1>10, <1>12 DEF Streams!Speaks
    <3>2. sent \o queue \in Seq(SpokenFrames)
      BY <1>1, <1>2
    <3>3. (sent \o queue) \o <<>> = sent \o queue
      BY <3>2
    <3> QED BY <1>2, <3>1, <3>3
  <2>2. PICK opens \in BOOLEAN : opens = (worker.transmit /\ ~worker.active)
    OBVIOUS
  <2>3. PICK closes \in BOOLEAN : closes = (~worker.transmit /\ worker.active)
    OBVIOUS
  <2>4. PICK stream \in Nat : stream = IF opens THEN worker.stream + 1 ELSE worker.stream
    BY <1>1
  <2>5. PICK number \in Nat : number = IF opens THEN 0 ELSE worker.next
    BY <1>1
  <2>6. PICK next \in Nat : next = number + 1
    BY <2>5
  <2>7. PICK frame : frame = [run |-> runtime.runs, stream |-> stream, sequence |-> number,
                              start |-> opens, end |-> closes]
    OBVIOUS
  <2>8. frame \in SpokenFrames
    BY <1>1, <2>7 DEF SpokenFrames
  <2>9. PICK fits \in BOOLEAN : fits = IF Len(queue) < OutboundCapacity THEN TRUE ELSE FALSE
    OBVIOUS
  <2>10. PICK over : over = IF fits THEN <<>> ELSE <<frame>>
    OBVIOUS
  <2>11. PICK active \in BOOLEAN : active = ~closes
    BY <2>3
  <2>12. PICK q : q = IF fits THEN Append(queue, frame) ELSE queue
    OBVIOUS
  <2>13. PICK u : u = [worker EXCEPT !.stream = stream, !.next = next, !.active = active, !.pending = over]
    OBVIOUS
  <2>14. result = [queue |-> q, worker |-> u]
    BY <1>6, <1>7, <2>2, <2>3, <2>4, <2>5, <2>6, <2>7, <2>9, <2>10, <2>11, <2>12, <2>13 DEF Streams!Encoded
  <2>15. PICK v : v = [u EXCEPT !.turn = "read"]
    OBVIOUS
  <2>16. /\ u.stream = stream /\ u.next = next /\ u.pending = over /\ u = [field \in WorkerFields |-> u[field]]
    BY <1>1, <2>13 DEF IsWorker, WorkerFields
  <2>17. u # worker
    BY <1>1, <2>2, <2>4, <2>5, <2>6, <2>16
  <2>18. worker' = v /\ outbound' = q
    <3>1. result.worker = u /\ result.queue = q
      BY <2>14
    <3>2. worker' = [u EXCEPT !.turn = "read", !.pending = u.pending]
      BY <1>3, <2>17, <3>1
    <3>3. worker' = v
      <4>1. [u EXCEPT !.turn = "read", !.pending = u.pending] = [u EXCEPT !.turn = "read"]
        BY <2>16 DEF WorkerFields
      <4> QED BY <2>15, <3>2, <4>1
    <3> QED BY <1>3, <3>1, <3>3
  <2>19. over \in Seq(SpokenFrames) /\ q \in Seq(SpokenFrames)
    BY <1>2, <2>8, <2>10, <2>12
  <2>20. /\ IsWorker(v) /\ v.stream = stream /\ v.next = next /\ v.pending = over
         /\ v.alive = worker.alive /\ v.active = active /\ v.transmit = worker.transmit
    BY <1>1, <2>13, <2>15, <2>19 DEF IsWorker, WorkerFields
  <2>21. Said' = Append(Said, frame)
    <3>1. Said' = (sent \o q) \o over
      BY <1>3, <2>18, <2>20 DEF Said
    <3>2. CASE fits
      <4>1. over = <<>> /\ q = Append(queue, frame)
        BY <2>10, <2>12, <3>2
      <4>2. sent \o q = Append(Said, frame) /\ sent \o q \in Seq(SpokenFrames)
        <5>1. sent \o Append(queue, frame) = Append(sent \o queue, frame)
          <6>1. sent \in Seq(SpokenFrames) /\ queue \in Seq(SpokenFrames)
            BY <1>1, <1>2
          <6> QED BY <2>8, <6>1, JoinedSequences
        <5>2. Append(sent \o queue, frame) = Append(Said, frame)
          BY <2>1
        <5>3. sent \o q = Append(Said, frame)
          BY <4>1, <5>1, <5>2
        <5>4. sent \in Seq(SpokenFrames) /\ q \in Seq(SpokenFrames)
          BY <1>1, <2>19
        <5>5. sent \o q \in Seq(SpokenFrames)
          BY <5>4
        <5> QED BY <5>3, <5>5
      <4>3. (sent \o q) \o <<>> = sent \o q
        BY <4>2
      <4> QED BY <3>1, <4>1, <4>2, <4>3
    <3>3. CASE ~fits
      <4>1. over = <<frame>> /\ q = queue
        BY <2>10, <2>12, <3>3
      <4>2. Said \o <<frame>> = Append(Said, frame)
        BY <1>4, <2>8
      <4> QED BY <2>1, <3>1, <4>1, <4>2
    <3> QED BY <3>2, <3>3
  <2>22. /\ frame.run = runtime.runs /\ frame.stream = stream /\ frame.sequence = number
         /\ frame.start = opens /\ frame.end = closes
    BY <2>7
  <2>23. (worker.transmit \/ worker.active) /\ ~runtime.test
    BY <1>6 DEF Streams!Speaks, VoiceUses
  <2>24. \/ ~worker.active /\ opens /\ number = 0 /\ stream = worker.stream + 1
         \/ worker.active /\ ~opens /\ number = worker.next /\ stream = worker.stream
    BY <2>2, <2>4, <2>5, <2>23
  <2>25. WholeStreams(Append(Said, frame)) /\ Follows(Append(Said, frame), v, runtime.runs)
    BY <1>1, <1>3, <1>4, <2>6, <2>8, <2>11, <2>20, <2>22, <2>24, SaidAppend DEF SaidInStreams
  <2>26. SaidInStreams'
    BY <1>3, <2>18, <2>21, <2>25 DEF SaidInStreams
  <2>27. VoiceShape'
    BY <1>1, <1>3, <2>18, <2>19, <2>20 DEF VoiceShape
  <2>28. VoiceUses'
    BY <1>3, <2>18, <2>20, <2>23 DEF VoiceUses
  <2> QED BY <2>26, <2>27, <2>28
<1> QED BY <1>5, <1>6

(* Nothing is said in the beginning.                                       *)
LEMMA VoiceBegins == Streams!Init => VoiceInvariant
<1> SUFFICES ASSUME Streams!Init PROVE VoiceInvariant
  OBVIOUS
<1>1. /\ worker = Streams!NewWorker(FALSE) /\ outbound = <<>> /\ sent = <<>>
      /\ runtime = [session |-> FALSE, test |-> FALSE, running |-> FALSE, lost |-> FALSE,
                     transmitting |-> FALSE, retry |-> 0, runs |-> 0]
  BY DEF Streams!Init
<1>2. IsRuntime(runtime)
  BY <1>1 DEF IsRuntime, RuntimeFields
<1>3. VoiceShape
  <2>1. <<>> \in Seq(SpokenFrames)
    OBVIOUS
  <2> QED BY <1>1, <1>2, <2>1, WorkerFacts DEF VoiceShape
<1>4. VoiceUses
  BY <1>1, WorkerFacts DEF VoiceUses
<1>5. Said = <<>>
  <2>1. worker.pending = <<>>
    BY <1>1, WorkerFacts
  <2>2. (<<>> \o <<>>) \o <<>> = <<>>
    OBVIOUS
  <2> QED BY <1>1, <2>1, <2>2 DEF Said
<1>6. PICK s : s = Said
  OBVIOUS
<1>7. Len(s) = 0 /\ 1..0 = {} /\ ~worker.active
  <2>1. ~worker.active
    BY <1>1, WorkerFacts
  <2>2. Len(s) = 0 /\ 1..0 = {}
    BY <1>5, <1>6
  <2> QED BY <2>1, <2>2
<1>8. WholeStreams(s) /\ Follows(s, worker, runtime.runs)
  BY <1>7 DEF WholeStreams, Follows
<1> QED BY <1>3, <1>4, <1>6, <1>8 DEF VoiceInvariant, SaidInStreams

(* The frames sent are the beginning of what was said.                     *)
LEMMA SentIsWhole == VoiceInvariant => Streams!StreamsAreWhole
<1> SUFFICES ASSUME VoiceInvariant PROVE Streams!StreamsAreWhole
  OBVIOUS
<1> DEFINE rest == outbound \o worker.pending
<1>1. rest \in Seq(SpokenFrames) /\ Said = sent \o rest /\ sent \in Seq(SpokenFrames)
  <2>0. PICK p : p = worker.pending
    OBVIOUS
  <2>1. p \in Seq(SpokenFrames) /\ outbound \in Seq(SpokenFrames) /\ sent \in Seq(SpokenFrames)
    BY <2>0 DEF VoiceInvariant, VoiceShape, IsWorker
  <2>2. outbound \o p \in Seq(SpokenFrames) /\ (sent \o outbound) \o p = sent \o (outbound \o p)
    BY <2>1, JoinedSequences
  <2> QED BY <2>0, <2>1, <2>2 DEF Said
<1> HIDE DEF rest
<1>2. WholeStreams(sent)
  BY <1>1, WholePrefix DEF VoiceInvariant, SaidInStreams
<1>3. DOMAIN sent = 1..Len(sent)
  BY <1>1
<1> QED BY <1>2, <1>3 DEF WholeStreams, Streams!StreamsAreWhole

(* However the queues fill up, the device is lost and comes back, and the  *)
(* key is released and pressed again or overtaken by a restart: the frames *)
(* a client sends form streams that each go from START on without a gap,   *)
(* and nothing follows their END (WorkerMain, QueueEncoded, StopRuntime).  *)
THEOREM StreamsStayWhole == Streams!Spec => []StreamsAreWhole
<1>1. VoiceInvariant /\ [Streams!Next]_Streams!vars => VoiceInvariant'
  <2> SUFFICES ASSUME VoiceInvariant, [Streams!Next]_Streams!vars PROVE VoiceInvariant'
    OBVIOUS
  <2>1. CASE \/ Streams!Capture \/ Streams!LoseDevice \/ Streams!WorkerReads
             \/ Streams!Advance \/ UNCHANGED Streams!vars
    BY <2>1, QuietStep
  <2>2. CASE Streams!WorkerWorks
    BY <2>2, WorkStep
  <2>3. ASSUME NEW session \in BOOLEAN, NEW key \in BOOLEAN, NEW starts \in BOOLEAN,
               Streams!GameUpdateVoice(session, key, starts)
        PROVE  VoiceInvariant'
    BY <2>3, UpdateStep DEF VoiceInvariant
  <2>4. ASSUME NEW starts \in BOOLEAN, Streams!BeginMicTest(starts) \/ Streams!TestUpdate(starts)
        PROVE  VoiceInvariant'
    BY <2>4, TestStep
  <2>5. CASE Streams!EndMicTest
    <3>1. TRUE \in BOOLEAN
      OBVIOUS
    <3> QED BY <2>5, <3>1, TestStep
  <2> QED BY <2>1, <2>2, <2>3, <2>4, <2>5 DEF Streams!Next
<1> QED BY <1>1, VoiceBegins, SentIsWhole, PTL DEF Streams!Spec, StreamsAreWhole

-----------------------------------------------------------------------------
(* A voice is heard in the order it was spoken                             *)

(* The parameters of the playback.                                         *)
LEMMA PlaybackFacts ==
  /\ MaxLoss \in Nat /\ MaxSpoken \in Nat /\ VoiceSpan \in Nat /\ MaxSpoken + MaxLoss < VoiceSpan
  /\ FirstSequence \in 0..(VoiceSpan - 1)
BY TrafficParameters DEF Playback!PlaybackParameters

(* The place of a number in its stream, as PlayedOnce counts it.           *)
Moment(sequence) == (sequence - FirstSequence) % VoiceSpan

(* What the queue to the worker, a jitter buffer and a remote hold.        *)
HeardFrames ==
  [kind : {"frame"}, start : BOOLEAN, end : BOOLEAN, stream : Nat, sequence : 0..(VoiceSpan - 1)]
Items == HeardFrames \cup [kind : {"mute"}, muted : BOOLEAN]
Buffers ==
  [initialized : BOOLEAN, stream : Nat, expected : 0..(VoiceSpan - 1), first : Nat, frames : SUBSET HeardFrames,
   loss : 0..MaxLoss, started : BOOLEAN, ended : BOOLEAN]
Speakers == [stream : Nat, next : 0..(VoiceSpan - 1), talking : BOOLEAN, spoken : 0..MaxSpoken]

HearingShape ==
  /\ heardTime \in Nat /\ speaker \in Speakers /\ inbound \in Seq(Items)
  /\ remote \in [known : BOOLEAN, muted : BOOLEAN, decoder : BOOLEAN, jitter : Buffers]
  /\ activity \in [known : BOOLEAN, muted : BOOLEAN]
  /\ played \in Seq(Nat \X (0..(VoiceSpan - 1)))

(* What is still to be played of a stream comes after what was played.     *)
After(stream, moment) ==
  played # <<>> =>
    \/ played[Len(played)][1] < stream
    \/ played[Len(played)][1] = stream /\ Moment(played[Len(played)][2]) < moment

(* A frame was spoken by s.                                                *)
WasSpoken(frame, s) == frame.stream <= s.stream /\ Moment(frame.sequence) < s.spoken

(* The speaker, while it talks, has a number for each frame of its stream. *)
SpeakerCounts == speaker.talking => Moment(speaker.next) <= speaker.spoken

(* A stream that waits to start in the queue is one the worker has not     *)
(* begun, and streams wait in the order they were spoken in.               *)
IsStart(item) == item.kind = "frame" /\ item.start
QueueInOrder ==
  /\ \A i \in DOMAIN inbound : inbound[i].kind = "frame" => WasSpoken(inbound[i], speaker)
  /\ \A i \in DOMAIN inbound :
       IsStart(inbound[i]) =>
         /\ remote.jitter.initialized => remote.jitter.stream < inbound[i].stream
         /\ played # <<>> => played[Len(played)][1] < inbound[i].stream
  /\ \A i, k \in DOMAIN inbound :
       i < k /\ IsStart(inbound[i]) /\ IsStart(inbound[k]) => inbound[i].stream < inbound[k].stream

(* What the buffer waits for comes after what was played, and is ahead of  *)
(* what was spoken only by the losses concealed in a row.                  *)
BufferInOrder ==
  /\ \A f \in remote.jitter.frames : Moment(f.sequence) < speaker.spoken
  /\ remote.jitter.initialized =>
       /\ remote.jitter.stream <= speaker.stream
       /\ Moment(remote.jitter.expected) <= speaker.spoken + remote.jitter.loss
       /\ After(remote.jitter.stream, Moment(remote.jitter.expected))

PlayedInOrder ==
  /\ Playback!PlayedOnce
  /\ played # <<>> => played[Len(played)][1] <= speaker.stream

Hearing == HearingShape /\ SpeakerCounts /\ QueueInOrder /\ BufferInOrder /\ PlayedInOrder

(* A remainder within one turn.                                            *)
LEMMA Remainders ==
  ASSUME NEW n \in Nat, NEW a \in Int
  PROVE  /\ a >= 0 /\ a < n => a % n = a
         /\ a < 0 /\ -n <= a => a % n = a + n
         /\ a = n /\ n > 0 => a % n = 0
OBVIOUS

(* Numbers count on through the wrap as long as the stream is shorter than *)
(* the span (SequenceDelta compares what Moment tells apart).              *)
LEMMA MomentFacts ==
  ASSUME NEW x \in 0..(VoiceSpan - 1)
  PROVE  /\ Moment(x) \in 0..(VoiceSpan - 1) /\ (x + 1) % VoiceSpan \in 0..(VoiceSpan - 1)
         /\ Moment(x) + 1 < VoiceSpan => Moment((x + 1) % VoiceSpan) = Moment(x) + 1
         /\ Moment(FirstSequence) = 0
<1>1. Moment(x) = IF x >= FirstSequence THEN x - FirstSequence ELSE x - FirstSequence + VoiceSpan
  BY PlaybackFacts, Remainders DEF Moment
<1>2. (x + 1) % VoiceSpan = IF x + 1 = VoiceSpan THEN 0 ELSE x + 1
  BY PlaybackFacts, Remainders
<1>3. ASSUME NEW y \in 0..(VoiceSpan - 1)
      PROVE  Moment(y) = IF y >= FirstSequence THEN y - FirstSequence ELSE y - FirstSequence + VoiceSpan
  BY PlaybackFacts, Remainders DEF Moment
<1>4. (x + 1) % VoiceSpan \in 0..(VoiceSpan - 1)
  BY <1>2, PlaybackFacts
<1>5. Moment(FirstSequence) = 0
  BY <1>3, PlaybackFacts
<1> QED BY <1>1, <1>2, <1>3, <1>4, <1>5, PlaybackFacts

(* A frame enters the buffer of its stream or starts one                   *)
(* (ShroomVoiceJitterPush).                                                *)
LEMMA PushFacts ==
  ASSUME heardTime \in Nat, NEW j \in Buffers, NEW frame \in HeardFrames
  PROVE  LET b == Playback!Push(j, frame).jitter
         IN  /\ b \in Buffers
             /\ frame.start => /\ b.initialized /\ b.stream = frame.stream /\ b.expected = frame.sequence
                               /\ b.loss = 0 /\ b.frames \subseteq {frame}
             /\ ~frame.start => /\ b.initialized = j.initialized /\ b.stream = j.stream /\ b.expected = j.expected
                                /\ b.loss = j.loss /\ b.frames \subseteq j.frames \cup {frame}
<1> DEFINE into == IF frame.start THEN Playback!StartStream(frame) ELSE j
           b == Playback!Push(j, frame).jitter
<1>1. /\ into \in Buffers
      /\ frame.start => /\ into.initialized /\ into.stream = frame.stream /\ into.expected = frame.sequence
                        /\ into.loss = 0 /\ into.frames = {}
      /\ ~frame.start => into = j
  <2>1. PICK r : r = Playback!Reset
    OBVIOUS
  <2>2. r \in Buffers /\ r.loss = 0 /\ r.frames = {}
    BY <2>1, PlaybackFacts DEF Playback!Reset, Buffers
  <2>3. frame.stream \in Nat /\ frame.sequence \in 0..(VoiceSpan - 1)
    BY DEF HeardFrames
  <2>4. Playback!StartStream(frame)
          = [r EXCEPT !.initialized = TRUE, !.stream = frame.stream, !.expected = frame.sequence, !.first = heardTime]
    BY <2>1 DEF Playback!StartStream
  <2> QED BY <2>2, <2>3, <2>4 DEF Buffers
<1>2. \/ b = into
      \/ b = [into EXCEPT !.frames = @ \cup {frame}, !.ended = @ \/ frame.end]
  BY DEF Playback!Push
<1> HIDE DEF into, b
<1>3. CASE b = into
  BY <1>1, <1>3 DEF b
<1>4. CASE b = [into EXCEPT !.frames = @ \cup {frame}, !.ended = @ \/ frame.end]
  <2>1. /\ b.initialized = into.initialized /\ b.stream = into.stream /\ b.expected = into.expected
        /\ b.loss = into.loss /\ b.frames = into.frames \cup {frame}
    BY <1>1, <1>4 DEF Buffers
  <2>2. b \in Buffers
    <3>1. (into.ended \/ frame.end) \in BOOLEAN
      OBVIOUS
    <3> QED BY <1>1, <1>4, <3>1 DEF Buffers
  <2> QED BY <1>1, <2>1, <2>2 DEF b
<1> QED BY <1>2, <1>3, <1>4

(* A turn of the playback finishes the stream, waits, or moves on by one.  *)
MovesOn(pop, j) ==
  /\ pop.jitter \in Buffers /\ pop.jitter.initialized /\ pop.jitter.stream = j.stream
  /\ pop.jitter.frames \subseteq j.frames
  /\ pop.jitter.expected = (j.expected + 1) % VoiceSpan
  /\ \/ pop.jitter.loss = 0 /\ \E f \in j.frames : f.sequence = j.expected
     \/ pop.jitter.loss = j.loss + 1
Turns(pop, j) ==
  \/ pop.kind = "finished"
  \/ pop.kind = "wait" /\ pop.jitter = j
  \/ j.initialized /\ pop.kind \in {"frame", "fec", "plc"} /\ (pop.ended \/ MovesOn(pop, j))

(* It moves on with the frame that is due, or with one more loss concealed *)
(* (ShroomVoiceJitterPopNext).                                             *)
LEMMA PopFacts ==
  ASSUME NEW j \in Buffers
  PROVE  Turns(Playback!Pop(j), j)
<1> DEFINE due == {f \in j.frames : f.sequence = j.expected}
           begun == [j EXCEPT !.started = TRUE]
           pop == Playback!Pop(j)
           onward == Playback!Following(j, FALSE)
           lost == Playback!Following(j, TRUE)
           ends == pop.kind = "finished" \/ (pop.kind = "wait" /\ pop.jitter = j)
           plays == j.initialized /\ pop.kind = "frame" /\ due # {}
             /\ (pop.ended \/ pop.jitter = [begun EXCEPT !.frames = @ \ due, !.expected = onward, !.loss = 0])
           conceals == j.initialized /\ pop.kind \in {"fec", "plc"} /\ ~(j.loss + 1 > MaxLoss)
             /\ pop.jitter = [begun EXCEPT !.expected = lost, !.loss = @ + 1]
           waits == /\ ~j.started /\ Playback!Cardinality(j.frames) < TargetFrames
                    /\ ~j.ended /\ heardTime - j.first < StartDelay
<1>1. onward = (j.expected + 1) % VoiceSpan /\ lost = (j.expected + 1) % VoiceSpan /\ onward \in 0..(VoiceSpan - 1)
  BY MomentFacts DEF Playback!Following, Buffers
<1>2. begun \in Buffers /\ begun.initialized = j.initialized /\ begun.stream = j.stream /\ begun.frames = j.frames
      /\ begun.loss = j.loss
  BY DEF Buffers
<1>3. ends \/ plays \/ conceals
  <2>1. CASE ~j.initialized
    BY <2>1 DEF Playback!Pop
  <2>2. CASE j.initialized /\ waits
    BY <2>2 DEF Playback!Pop
  <2>3. CASE j.initialized /\ ~waits /\ due # {}
    <3>1. pop = [kind |-> "frame", ended |-> \E f \in due : f.end,
                 jitter |-> IF \E f \in due : f.end THEN Playback!Reset
                            ELSE [begun EXCEPT !.frames = @ \ due, !.expected = onward, !.loss = 0]]
      BY <2>3 DEF Playback!Pop
    <3> QED BY <2>3, <3>1
  <2>4. CASE j.initialized /\ ~waits /\ due = {}
    <3>1. CASE j.loss + 1 > MaxLoss
      <4>1. pop.kind = "finished"
        BY <2>4, <3>1 DEF Playback!Pop
      <4> QED BY <4>1
    <3>2. CASE ~(j.loss + 1 > MaxLoss)
      <4>1. pop.kind \in {"fec", "plc"} /\ pop.jitter = [begun EXCEPT !.expected = lost, !.loss = @ + 1]
        BY <2>4, <3>2 DEF Playback!Pop
      <4> QED BY <2>4, <3>2, <4>1
    <3> QED BY <3>1, <3>2
  <2> QED BY <2>1, <2>2, <2>3, <2>4
<1> SUFFICES Turns(pop, j)
  OBVIOUS
<1> HIDE DEF begun, due, pop, onward, lost
<1>4. CASE ends
  BY <1>4 DEF Turns
<1>5. CASE plays
  <2>1. \E f \in j.frames : f.sequence = j.expected
    BY <1>5 DEF due
  <2>2. CASE pop.ended
    BY <1>5, <2>2 DEF Turns
  <2>3. CASE pop.jitter = [begun EXCEPT !.frames = @ \ due, !.expected = onward, !.loss = 0]
    <3>1. begun.frames \ due \subseteq j.frames
      BY <1>2
    <3>2. /\ pop.jitter \in Buffers /\ pop.jitter.initialized = begun.initialized /\ pop.jitter.stream = begun.stream
          /\ pop.jitter.frames = begun.frames \ due /\ pop.jitter.expected = onward /\ pop.jitter.loss = 0
      <4>1. 0 \in 0..MaxLoss /\ begun.frames \ due \in SUBSET HeardFrames
        BY <1>2, PlaybackFacts DEF Buffers
      <4> QED BY <1>1, <1>2, <2>3, <4>1 DEF Buffers
    <3> QED BY <1>1, <1>2, <1>5, <2>1, <3>1, <3>2 DEF MovesOn, Turns
  <2> QED BY <1>5, <2>2, <2>3
<1>6. CASE conceals
  <2>1. j.loss + 1 \in 0..MaxLoss
    BY <1>6, PlaybackFacts DEF Buffers
  <2>2. PICK n : n = j.loss + 1
    OBVIOUS
  <2>3. pop.jitter = [begun EXCEPT !.expected = lost, !.loss = n] /\ n \in 0..MaxLoss
    BY <1>2, <1>6, <2>1, <2>2
  <2>4. /\ pop.jitter \in Buffers /\ pop.jitter.initialized = begun.initialized /\ pop.jitter.stream = begun.stream
        /\ pop.jitter.frames = begun.frames /\ pop.jitter.expected = lost /\ pop.jitter.loss = n
    BY <1>1, <1>2, <2>3 DEF Buffers
  <2> QED BY <1>1, <1>2, <1>6, <2>2, <2>4 DEF MovesOn, Turns
<1> HIDE DEF ends, plays, conceals
<1> QED BY <1>3, <1>4, <1>5, <1>6

(* What is spoken next comes after all that is queued, buffered or played  *)
(* (ShroomVoiceSubmitFrame).                                               *)
LEMMA SpeakStep ==
  ASSUME Hearing, NEW end \in BOOLEAN, NEW lost \in BOOLEAN, Playback!Speak(end, lost)
  PROVE  Hearing'
<1> DEFINE frame == [kind |-> "frame", start |-> ~speaker.talking, end |-> end /\ speaker.talking,
                     stream |-> IF speaker.talking THEN speaker.stream ELSE speaker.stream + 1,
                     sequence |-> IF speaker.talking THEN speaker.next ELSE FirstSequence]
<1> USE DEF Hearing
<1>1. /\ speaker.stream \in Nat /\ speaker.next \in 0..(VoiceSpan - 1) /\ speaker.talking \in BOOLEAN
      /\ speaker.spoken \in Nat /\ speaker.spoken + 1 \in 0..MaxSpoken
  BY PlaybackFacts DEF HearingShape, Speakers, Playback!Speak
<1>2. /\ frame \in HeardFrames /\ frame.stream >= speaker.stream /\ (frame.start => frame.stream > speaker.stream)
      /\ IsStart(frame) = frame.start /\ frame.kind = "frame"
  <2>1. /\ frame.start = ~speaker.talking /\ frame.end = (end /\ speaker.talking)
        /\ frame.stream = (IF speaker.talking THEN speaker.stream ELSE speaker.stream + 1)
        /\ frame.kind = "frame"
    OBVIOUS
  <2>2. (~speaker.talking) \in BOOLEAN /\ (end /\ speaker.talking) \in BOOLEAN
    OBVIOUS
  <2>3. /\ (IF speaker.talking THEN speaker.stream ELSE speaker.stream + 1) \in Nat
        /\ (IF speaker.talking THEN speaker.next ELSE FirstSequence) \in 0..(VoiceSpan - 1)
    BY <1>1, PlaybackFacts
  <2>4. frame \in HeardFrames
    BY <2>2, <2>3 DEF HeardFrames
  <2> HIDE DEF frame
  <2>5. frame.stream >= speaker.stream /\ (~speaker.talking => frame.stream > speaker.stream)
    BY <1>1, <2>1
  <2>6. IsStart(frame) = frame.start
    BY <2>1, <2>4 DEF IsStart, HeardFrames
  <2> QED BY <2>1, <2>4, <2>5, <2>6
<1>3. /\ speaker' = [stream |-> frame.stream, next |-> (frame.sequence + 1) % VoiceSpan,
                     talking |-> ~frame.end, spoken |-> speaker.spoken + 1]
      /\ inbound' = inbound \/ inbound' = Append(inbound, frame)
      /\ UNCHANGED <<heardTime, remote, activity, uses, played>>
  BY DEF Playback!Speak
<1>4. Moment(frame.sequence) \in Nat /\ Moment(frame.sequence) <= speaker.spoken
  <2>1. frame.sequence \in 0..(VoiceSpan - 1)
    BY <1>2 DEF HeardFrames
  <2>2. CASE speaker.talking
    BY <1>1, <2>1, <2>2, MomentFacts DEF SpeakerCounts
  <2>3. CASE ~speaker.talking
    BY <1>1, <2>1, <2>3, MomentFacts
  <2> QED BY <2>2, <2>3
<1> HIDE DEF frame
<1>5. /\ speaker'.stream = frame.stream /\ speaker'.spoken = speaker.spoken + 1
      /\ speaker'.next = (frame.sequence + 1) % VoiceSpan /\ speaker' \in Speakers
  <2>1. (frame.sequence + 1) % VoiceSpan \in 0..(VoiceSpan - 1) /\ frame.stream \in Nat /\ (~frame.end) \in BOOLEAN
    BY <1>2, MomentFacts DEF HeardFrames
  <2> QED BY <1>1, <1>3, <2>1 DEF Speakers
<1>6. SpeakerCounts'
  <2>1. Moment((frame.sequence + 1) % VoiceSpan) = Moment(frame.sequence) + 1
    BY <1>1, <1>2, <1>4, MomentFacts, PlaybackFacts DEF HeardFrames
  <2> QED BY <1>1, <1>4, <1>5, <2>1 DEF SpeakerCounts, Moment
<1>7. HearingShape'
  <2>1. inbound' \in Seq(Items)
    <3>1. frame \in Items /\ inbound \in Seq(Items)
      BY <1>2 DEF HearingShape, Items
    <3>2. Append(inbound, frame) \in Seq(Items)
      BY <3>1, AppendFacts
    <3> QED BY <1>3, <3>1, <3>2
  <2> QED BY <1>3, <1>5, <2>1 DEF HearingShape
<1>8. ASSUME NEW f, WasSpoken(f, speaker), f.stream \in Nat, Moment(f.sequence) \in Int
      PROVE  WasSpoken(f, speaker')
  BY <1>1, <1>2, <1>5, <1>8 DEF WasSpoken, HeardFrames
<1>9. QueueInOrder'
  <2>1. /\ inbound \in Seq(Items) /\ DOMAIN inbound = 1..Len(inbound) /\ Len(inbound) \in Nat
        /\ \A i \in DOMAIN inbound : inbound[i].kind = "frame" =>
             /\ inbound[i].stream \in Nat /\ Moment(inbound[i].sequence) \in Int
    BY MomentFacts DEF HearingShape, Items, HeardFrames
  <2>2. /\ DOMAIN inbound' = DOMAIN inbound \/ DOMAIN inbound' = 1..(Len(inbound) + 1)
        /\ \A i \in DOMAIN inbound' : inbound'[i] = IF i \in DOMAIN inbound THEN inbound[i] ELSE frame
        /\ \A i \in DOMAIN inbound' : i \notin DOMAIN inbound => i = Len(inbound) + 1
    BY <1>2, <1>3, <2>1, AppendFacts DEF Items
  <2>3. WasSpoken(frame, speaker')
    BY <1>1, <1>2, <1>4, <1>5 DEF WasSpoken, HeardFrames
  <2>4. \A i \in DOMAIN inbound' : inbound'[i].kind = "frame" => WasSpoken(inbound'[i], speaker')
    BY <1>8, <2>1, <2>2, <2>3 DEF QueueInOrder
  <2>5. ASSUME NEW i \in DOMAIN inbound', IsStart(inbound'[i])
        PROVE  /\ remote.jitter.initialized => remote.jitter.stream < inbound'[i].stream
               /\ played # <<>> => played[Len(played)][1] < inbound'[i].stream
    <3>1. CASE i \in DOMAIN inbound
      BY <2>2, <2>5, <3>1 DEF QueueInOrder
    <3>2. CASE i \notin DOMAIN inbound
      <4>1. inbound'[i] = frame /\ frame.stream > speaker.stream /\ frame.stream \in Nat
        BY <1>2, <2>2, <2>5, <3>2 DEF HeardFrames
      <4>2. remote.jitter.stream \in Nat /\ (played # <<>> => played[Len(played)][1] \in Nat)
        BY DEF HearingShape, Buffers
      <4> QED BY <1>1, <4>1, <4>2 DEF BufferInOrder, PlayedInOrder
    <3> QED BY <3>1, <3>2
  <2>6. ASSUME NEW i \in DOMAIN inbound', NEW k \in DOMAIN inbound', i < k, IsStart(inbound'[i]), IsStart(inbound'[k])
        PROVE  inbound'[i].stream < inbound'[k].stream
    <3>1. i \in DOMAIN inbound
      BY <2>1, <2>2, <2>6
    <3>2. CASE k \in DOMAIN inbound
      BY <2>2, <2>6, <3>1, <3>2 DEF QueueInOrder
    <3>3. CASE k \notin DOMAIN inbound
      <4>1. inbound'[k] = frame /\ frame.stream > speaker.stream /\ frame.stream \in Nat
        BY <1>2, <2>2, <2>6, <3>3 DEF HeardFrames
      <4>2. inbound'[i] = inbound[i] /\ inbound[i].stream <= speaker.stream /\ inbound[i].stream \in Nat
        BY <2>1, <2>2, <2>6, <3>1 DEF QueueInOrder, WasSpoken, IsStart
      <4> QED BY <1>1, <4>1, <4>2
    <3> QED BY <3>2, <3>3
  <2>7. remote' = remote /\ played' = played
    BY <1>3
  <2> QED BY <2>4, <2>5, <2>6, <2>7 DEF QueueInOrder, IsStart, WasSpoken, Moment
<1>10. BufferInOrder' /\ PlayedInOrder'
  <2>1. /\ \A f \in remote.jitter.frames : Moment(f.sequence) \in Nat
        /\ remote.jitter.stream \in Nat /\ Moment(remote.jitter.expected) \in Nat /\ remote.jitter.loss \in Nat
    <3>1. remote.jitter \in Buffers
      BY DEF HearingShape
    <3>2. \A f \in remote.jitter.frames : f.sequence \in 0..(VoiceSpan - 1)
      BY <3>1 DEF Buffers, HeardFrames
    <3>3. /\ remote.jitter.stream \in Nat /\ remote.jitter.expected \in 0..(VoiceSpan - 1)
          /\ remote.jitter.loss \in Nat
      BY <3>1, PlaybackFacts DEF Buffers
    <3>4. 0..(VoiceSpan - 1) \subseteq Nat
      BY PlaybackFacts
    <3> QED BY <3>2, <3>3, <3>4, MomentFacts
  <2>2. played # <<>> => played[Len(played)][1] \in Nat
    BY DEF HearingShape
  <2>3. frame.stream \in Nat /\ remote' = remote /\ played' = played
    BY <1>2, <1>3 DEF HeardFrames
  <2>4. remote.jitter.initialized => Moment(remote.jitter.expected) <= speaker'.spoken + remote.jitter.loss
    BY <1>1, <1>5, <2>1 DEF BufferInOrder
  <2>5. BufferInOrder'
    BY <1>1, <1>2, <1>5, <2>1, <2>3, <2>4 DEF BufferInOrder, After, Moment
  <2>6. PlayedInOrder'
    BY <1>1, <1>2, <1>5, <2>2, <2>3 DEF PlayedInOrder, Playback!PlayedOnce, Playback!Absolute
  <2> QED BY <2>5, <2>6
<1> QED BY <1>6, <1>7, <1>9, <1>10

-------------------------------------------------------------------------

(* What the queue and a remote hold, one by one.                           *)
LEMMA HearingFacts ==
  ASSUME HearingShape
  PROVE  /\ remote.jitter \in Buffers /\ inbound \in Seq(Items) /\ DOMAIN inbound = 1..Len(inbound)
         /\ Len(inbound) \in Nat /\ Len(played) \in Nat
         /\ \A i \in DOMAIN inbound : inbound[i] \in Items
         /\ \A f \in remote.jitter.frames : f \in HeardFrames
         /\ played # <<>> => played[Len(played)][1] \in Nat /\ played[Len(played)][2] \in 0..(VoiceSpan - 1)
BY DEF HearingShape, Buffers

(* A remote that is made anew waits for nothing.                           *)
LEMMA ResetFacts ==
  /\ Playback!NoRemote \in [known : BOOLEAN, muted : BOOLEAN, decoder : BOOLEAN, jitter : Buffers]
  /\ ~Playback!NoRemote.jitter.initialized /\ Playback!NoRemote.jitter.frames = {}
<1>1. PICK r : r = Playback!Reset
  OBVIOUS
<1>2. r \in Buffers /\ ~r.initialized /\ r.frames = {}
  BY <1>1, PlaybackFacts DEF Playback!Reset, Buffers
<1> QED BY <1>1, <1>2 DEF Playback!NoRemote

(* The mute switch and the restart of the runtime play nothing: at most    *)
(* they forget what was queued and buffered (ShroomVoiceSetPlayerMuted,    *)
(* StopRuntime, ShroomVoiceSetSessionActive).                              *)
LEMMA SwitchStep ==
  ASSUME Hearing, Playback!SetPlayerMuted \/ Playback!Restart \/ Playback!EndSession \/ UNCHANGED Playback!vars
  PROVE  Hearing'
<1> USE DEF Hearing
<1>1. CASE UNCHANGED Playback!vars
  BY <1>1 DEF Playback!vars, HearingShape, SpeakerCounts, QueueInOrder, BufferInOrder, PlayedInOrder, After,
              IsStart, WasSpoken, Moment, Playback!PlayedOnce, Playback!Absolute
<1>2. CASE Playback!Restart \/ Playback!EndSession
  <2>1. /\ inbound' = <<>> /\ remote' = Playback!NoRemote
        /\ activity' = activity \/ activity' = Playback!NoActivity
        /\ UNCHANGED <<heardTime, speaker, played>>
    BY <1>2 DEF Playback!Restart, Playback!EndSession
  <2>2. HearingShape'
    <3>1. inbound' \in Seq(Items)
      BY <2>1
    <3>2. activity' \in [known : BOOLEAN, muted : BOOLEAN]
      <4>1. activity \in [known : BOOLEAN, muted : BOOLEAN] /\ Playback!NoActivity \in [known : BOOLEAN, muted : BOOLEAN]
        BY DEF HearingShape, Playback!NoActivity
      <4>2. activity' = activity \/ activity' = Playback!NoActivity
        BY <2>1
      <4> QED BY <4>1, <4>2
    <3>3. remote' \in [known : BOOLEAN, muted : BOOLEAN, decoder : BOOLEAN, jitter : Buffers]
      BY <2>1, ResetFacts
    <3> QED BY <2>1, <3>1, <3>2, <3>3 DEF HearingShape
  <2>3. SpeakerCounts' /\ PlayedInOrder'
    BY <2>1 DEF SpeakerCounts, PlayedInOrder, Moment, Playback!PlayedOnce, Playback!Absolute
  <2>4. DOMAIN inbound' = {}
    BY <2>1
  <2>5. QueueInOrder'
    BY <2>4 DEF QueueInOrder
  <2>6. BufferInOrder'
    BY <2>1, ResetFacts DEF BufferInOrder
  <2> QED BY <2>2, <2>3, <2>5, <2>6
<1>3. CASE Playback!SetPlayerMuted
  <2> DEFINE item == [kind |-> "mute", muted |-> ~activity.muted]
  <2>1. item \in Items /\ item.kind # "frame" /\ ~IsStart(item)
    <3>1. (~activity.muted) \in BOOLEAN
      OBVIOUS
    <3> QED BY <3>1 DEF Items, IsStart
  <2>2. /\ inbound' = inbound \/ inbound' = Append(inbound, item)
        /\ activity' = activity \/ activity' = [known |-> TRUE, muted |-> ~activity.muted]
        /\ UNCHANGED <<heardTime, speaker, remote, played>>
    BY <1>3 DEF Playback!SetPlayerMuted
  <2> HIDE DEF item
  <2>3. inbound' \in Seq(Items)
    <3>1. inbound \in Seq(Items)
      BY DEF HearingShape
    <3>2. Append(inbound, item) \in Seq(Items)
      BY <2>1, <3>1
    <3> QED BY <2>2, <3>1, <3>2
  <2>4. activity' \in [known : BOOLEAN, muted : BOOLEAN]
    <3>1. activity \in [known : BOOLEAN, muted : BOOLEAN]
      BY DEF HearingShape
    <3>2. CASE activity' = activity
      BY <3>1, <3>2
    <3>3. CASE activity' = [known |-> TRUE, muted |-> ~activity.muted]
      <4>1. PICK m \in BOOLEAN : m = ~activity.muted
        OBVIOUS
      <4>2. activity' = [known |-> TRUE, muted |-> m]
        BY <3>3, <4>1
      <4>3. [known |-> TRUE, muted |-> m] \in [known : BOOLEAN, muted : BOOLEAN]
        BY <4>1
      <4> QED BY <4>2, <4>3
    <3> QED BY <2>2, <3>2, <3>3
  <2>5. HearingShape'
    BY <2>2, <2>3, <2>4 DEF HearingShape
  <2>6. SpeakerCounts' /\ PlayedInOrder' /\ BufferInOrder'
    BY <2>2 DEF SpeakerCounts, PlayedInOrder, BufferInOrder, After, Moment, Playback!PlayedOnce, Playback!Absolute
  <2>7. \A i \in DOMAIN inbound' : \/ i \in DOMAIN inbound /\ inbound'[i] = inbound[i]
                                   \/ inbound'[i] = item
    BY <2>1, <2>2, AppendFacts, HearingFacts
  <2>8. \A i \in DOMAIN inbound' :
          inbound'[i].kind = "frame" => i \in DOMAIN inbound /\ inbound'[i] = inbound[i]
    BY <2>1, <2>7
  <2>9. speaker' = speaker /\ remote' = remote /\ played' = played
    BY <2>2
  <2>10. QueueInOrder'
    <3>1. \A i \in DOMAIN inbound' : inbound'[i].kind = "frame" => WasSpoken(inbound'[i], speaker)
      BY <2>8 DEF QueueInOrder
    <3>2. \A i \in DOMAIN inbound' : IsStart(inbound'[i]) => i \in DOMAIN inbound /\ inbound'[i] = inbound[i]
      BY <2>8 DEF IsStart
    <3> QED BY <2>9, <3>1, <3>2 DEF QueueInOrder, IsStart, WasSpoken, Moment
  <2> QED BY <2>5, <2>6, <2>10
<1> QED BY <1>1, <1>2, <1>3

(* The worker takes an item: a stream that starts is newer than the one it *)
(* ends, and a frame of the stream under way changes nothing of what is    *)
(* due (ProcessInbound, HandleInboundFrame).                               *)
LEMMA InboundStep ==
  ASSUME Hearing, Playback!ProcessInbound
  PROVE  Hearing'
<1> DEFINE item == Head(inbound)
           rest == Tail(inbound)
<1> USE DEF Hearing
<1>1. /\ inbound # <<>> /\ inbound' = rest /\ UNCHANGED <<heardTime, speaker, uses, played>>
      /\ IF item.kind = "mute"
         THEN remote' = [remote EXCEPT !.known = TRUE, !.muted = item.muted] /\ UNCHANGED activity
         ELSE /\ remote' = Playback!AfterFrame(remote, item)
              /\ activity' = [activity EXCEPT !.known = @ \/ Playback!Accepted(remote, item)]
  BY DEF Playback!ProcessInbound
<1>2. /\ item \in Items /\ item = inbound[1] /\ 1 \in DOMAIN inbound /\ rest \in Seq(Items)
      /\ \A i \in DOMAIN rest : i + 1 \in DOMAIN inbound /\ rest[i] = inbound[i + 1] /\ i \in Nat /\ i >= 1
  BY <1>1, HearingFacts, TailFacts
<1> HIDE DEF item, rest
<1> DEFINE fresh == item.kind = "frame" /\ item.start
           b == remote'.jitter
<1>3. /\ remote' \in [known : BOOLEAN, muted : BOOLEAN, decoder : BOOLEAN, jitter : Buffers]
      /\ activity' \in [known : BOOLEAN, muted : BOOLEAN]
      /\ fresh => /\ b.initialized /\ b.stream = item.stream /\ b.expected = item.sequence
                  /\ b.frames \subseteq {item} /\ b.loss = 0
      /\ ~fresh => /\ b.initialized = remote.jitter.initialized /\ b.stream = remote.jitter.stream
                   /\ b.expected = remote.jitter.expected /\ b.loss = remote.jitter.loss
                   /\ b.frames \subseteq remote.jitter.frames \cup {item}
                   /\ item.kind # "frame" => b.frames = remote.jitter.frames
  <2>1. remote \in [known : BOOLEAN, muted : BOOLEAN, decoder : BOOLEAN, jitter : Buffers]
        /\ activity \in [known : BOOLEAN, muted : BOOLEAN]
    BY DEF HearingShape
  <2>2. CASE item.kind = "mute"
    <3>1. item.muted \in BOOLEAN /\ item.kind # "frame"
      BY <1>2, <2>2 DEF Items, HeardFrames
    <3> QED BY <1>1, <2>1, <2>2, <3>1
  <2>3. CASE item.kind # "mute"
    <3>1. item \in HeardFrames /\ item.kind = "frame" /\ item.start \in BOOLEAN
      BY <1>2, <2>3 DEF Items, HeardFrames
    <3>2. activity' \in [known : BOOLEAN, muted : BOOLEAN]
      <4>1. (activity.known \/ Playback!Accepted(remote, item)) \in BOOLEAN
        OBVIOUS
      <4> QED BY <1>1, <2>1, <2>3, <4>1
    <3>3. PICK p : p = Playback!Push(remote.jitter, item).jitter
      OBVIOUS
    <3>4. /\ p \in Buffers
          /\ item.start => /\ p.initialized /\ p.stream = item.stream /\ p.expected = item.sequence
                           /\ p.loss = 0 /\ p.frames \subseteq {item}
          /\ ~item.start => /\ p.initialized = remote.jitter.initialized /\ p.stream = remote.jitter.stream
                            /\ p.expected = remote.jitter.expected
                            /\ p.loss = remote.jitter.loss /\ p.frames \subseteq remote.jitter.frames \cup {item}
      BY <2>1, <3>1, <3>3, PushFacts DEF HearingShape
    <3>5. CASE ~remote.known /\ ~item.start
      <4>1. remote' = remote
        BY <1>1, <2>3, <3>5 DEF Playback!AfterFrame
      <4> QED BY <2>1, <3>1, <3>2, <3>5, <4>1
    <3>6. CASE remote.known \/ item.start
      <4>1. remote' = [remote EXCEPT !.known = TRUE, !.decoder = TRUE, !.jitter = p]
        BY <1>1, <2>3, <3>3, <3>6 DEF Playback!AfterFrame
      <4>2. b = p /\ remote' \in [known : BOOLEAN, muted : BOOLEAN, decoder : BOOLEAN, jitter : Buffers]
        BY <2>1, <3>4, <4>1
      <4> QED BY <3>1, <3>2, <3>4, <4>2
    <3> QED BY <3>5, <3>6
  <2> QED BY <2>2, <2>3
<1>4. HearingShape'
  BY <1>1, <1>2, <1>3 DEF HearingShape
<1>5. /\ item.kind = "frame" => WasSpoken(item, speaker)
      /\ fresh => (played # <<>> => played[Len(played)][1] < item.stream)
  BY <1>2 DEF QueueInOrder, IsStart
<1>6. speaker' = speaker /\ played' = played
  BY <1>1
<1>7. SpeakerCounts' /\ PlayedInOrder'
  BY <1>6 DEF SpeakerCounts, PlayedInOrder, Moment, Playback!PlayedOnce, Playback!Absolute
<1>8. BufferInOrder'
  <2>1. \A f \in b.frames : Moment(f.sequence) < speaker.spoken
    BY <1>3, <1>5 DEF BufferInOrder, WasSpoken
  <2>2. CASE fresh
    <3>1. item.stream <= speaker.stream /\ Moment(item.sequence) < speaker.spoken
      BY <1>5, <2>2 DEF WasSpoken
    <3>2. Moment(item.sequence) \in Nat /\ speaker.spoken \in Nat
      <4>1. item.sequence \in 0..(VoiceSpan - 1)
        BY <1>2, <2>2 DEF Items, HeardFrames
      <4>2. speaker.spoken \in Nat
        BY PlaybackFacts DEF HearingShape, Speakers
      <4> QED BY <4>1, <4>2, MomentFacts
    <3>3. After(item.stream, Moment(item.sequence))
      BY <1>5, <2>2 DEF After
    <3>4. /\ b.stream <= speaker.stream /\ Moment(b.expected) <= speaker.spoken + b.loss
          /\ After(b.stream, Moment(b.expected))
      BY <1>3, <2>2, <3>1, <3>2, <3>3
    <3> QED BY <1>6, <2>1, <3>4 DEF BufferInOrder, After, Moment
  <2>3. CASE ~fresh
    <3>1. b.initialized => /\ b.stream <= speaker.stream /\ Moment(b.expected) <= speaker.spoken + b.loss
                           /\ After(b.stream, Moment(b.expected))
      BY <1>3, <2>3 DEF BufferInOrder
    <3> QED BY <1>6, <2>1, <3>1 DEF BufferInOrder, After, Moment
  <2> QED BY <2>2, <2>3
<1>9. QueueInOrder'
  <2>1. \A i \in DOMAIN rest : rest[i].kind = "frame" => WasSpoken(rest[i], speaker)
    BY <1>2 DEF QueueInOrder
  <2>2. ASSUME NEW i \in DOMAIN rest, IsStart(rest[i])
        PROVE  /\ b.initialized => b.stream < rest[i].stream
               /\ played # <<>> => played[Len(played)][1] < rest[i].stream
    <3>1. i + 1 \in DOMAIN inbound /\ rest[i] = inbound[i + 1] /\ 1 < i + 1
      BY <1>2
    <3>2. CASE fresh
      BY <1>2, <1>3, <2>2, <3>1, <3>2 DEF QueueInOrder, IsStart
    <3>3. CASE ~fresh
      BY <1>3, <2>2, <3>1, <3>3 DEF QueueInOrder
    <3> QED BY <3>2, <3>3
  <2>3. ASSUME NEW i \in DOMAIN rest, NEW k \in DOMAIN rest, i < k, IsStart(rest[i]), IsStart(rest[k])
        PROVE  rest[i].stream < rest[k].stream
    <3>1. /\ i + 1 \in DOMAIN inbound /\ k + 1 \in DOMAIN inbound /\ i + 1 < k + 1
          /\ rest[i] = inbound[i + 1] /\ rest[k] = inbound[k + 1]
      BY <1>2, <2>3
    <3> QED BY <2>3, <3>1 DEF QueueInOrder
  <2> QED BY <1>1, <1>6, <2>1, <2>2, <2>3 DEF QueueInOrder, IsStart, WasSpoken, Moment
<1> QED BY <1>4, <1>7, <1>8, <1>9

-------------------------------------------------------------------------

(* A turn of the playback: what is due is played once, and is then behind  *)
(* what the buffer waits for (ProcessPlayback).                            *)
LEMMA PlaybackStep ==
  ASSUME Hearing, Playback!ProcessPlayback
  PROVE  Hearing'
<1> DEFINE j == remote.jitter
           pop == Playback!Pop(j)
           moment == <<j.stream, j.expected>>
           ready == remote.known /\ remote.decoder
           plays == ready /\ pop.kind \in {"frame", "fec", "plc"}
<1> USE DEF Hearing
<1>1. /\ heardTime' = heardTime + 1 /\ UNCHANGED <<speaker, inbound, activity, uses>>
      /\ played' = IF plays THEN Append(played, moment) ELSE played
      /\ remote' = IF ~ready THEN remote
                   ELSE IF pop.kind = "finished" \/ pop.ended THEN Playback!NoRemote
                   ELSE [remote EXCEPT !.jitter = pop.jitter]
  BY DEF Playback!ProcessPlayback
<1>2. j \in Buffers /\ Turns(pop, j)
  BY HearingFacts, PopFacts
<1>3. remote \in [known : BOOLEAN, muted : BOOLEAN, decoder : BOOLEAN, jitter : Buffers]
      /\ speaker \in Speakers /\ speaker.spoken \in Nat /\ speaker.spoken <= MaxSpoken
  BY PlaybackFacts DEF HearingShape, Speakers
<1> HIDE DEF pop, ready
(* What the worker keeps of the remote: nothing, what it had, or, after a  *)
(* moment was played, the buffer moved on.                                 *)
<1>4. /\ remote' \in [known : BOOLEAN, muted : BOOLEAN, decoder : BOOLEAN, jitter : Buffers]
      /\ \/ ~remote'.jitter.initialized /\ remote'.jitter.frames = {}
         \/ ~plays /\ remote'.jitter = j
         \/ plays /\ MovesOn(pop, j) /\ remote'.jitter = pop.jitter
      /\ plays => j.initialized
  <2>1. CASE ~ready
    BY <1>1, <1>3, <2>1
  <2>2. CASE ready /\ (pop.kind = "finished" \/ pop.ended)
    <3>1. remote' = Playback!NoRemote
      BY <1>1, <2>2
    <3>2. plays => j.initialized
      BY <1>2 DEF Turns
    <3> QED BY <3>1, <3>2, ResetFacts
  <2>3. CASE ready /\ ~(pop.kind = "finished" \/ pop.ended)
    <3>1. remote' = [remote EXCEPT !.jitter = pop.jitter]
      BY <1>1, <2>3
    <3>2. CASE pop.kind = "wait" /\ pop.jitter = j
      BY <1>2, <1>3, <3>1, <3>2
    <3>3. CASE j.initialized /\ pop.kind \in {"frame", "fec", "plc"} /\ MovesOn(pop, j)
      <4>1. pop.jitter \in Buffers
        BY <3>3 DEF MovesOn
      <4> QED BY <1>3, <2>3, <3>1, <3>3, <4>1
    <3> QED BY <1>2, <2>3, <3>2, <3>3 DEF Turns
  <2> QED BY <2>1, <2>2, <2>3
<1> HIDE DEF plays
<1>5. /\ moment \in Nat \X (0..(VoiceSpan - 1)) /\ moment[1] = j.stream /\ moment[2] = j.expected
      /\ played \in Seq(Nat \X (0..(VoiceSpan - 1)))
  BY <1>2 DEF Buffers, HearingShape
<1>6. /\ played' \in Seq(Nat \X (0..(VoiceSpan - 1)))
      /\ plays => /\ played' # <<>> /\ Len(played') = Len(played) + 1 /\ played'[Len(played')] = moment
                  /\ \A i \in 1..Len(played) : played'[i] = played[i]
      /\ ~plays => played' = played
      /\ Len(played) \in Nat /\ (played # <<>> => Len(played) \in 1..Len(played))
  <2>1. CASE plays
    <3>1. played' = Append(played, moment)
      BY <1>1, <2>1
    <3> HIDE DEF moment
    <3>2. played' \in Seq(Nat \X (0..(VoiceSpan - 1))) /\ Len(played') = Len(played) + 1 /\ Len(played) \in Nat
      BY <1>5, <3>1, AppendFacts
    <3>3. played'[Len(played) + 1] = moment /\ \A i \in 1..Len(played) : played'[i] = played[i]
      BY <1>5, <3>1, AppendFacts
    <3> QED BY <2>1, <3>2, <3>3
  <2>2. CASE ~plays
    <3>1. played' = played
      BY <1>1, <2>2
    <3> QED BY <1>5, <2>2, <3>1
  <2> QED BY <2>1, <2>2
<1> HIDE DEF moment, j
<1>7. /\ j.stream \in Nat /\ j.expected \in 0..(VoiceSpan - 1) /\ j.loss \in 0..MaxLoss
      /\ Moment(j.expected) \in Nat
      /\ j.initialized => /\ j.stream <= speaker.stream /\ Moment(j.expected) <= speaker.spoken + j.loss
                          /\ After(j.stream, Moment(j.expected))
      /\ \A f \in j.frames : Moment(f.sequence) < speaker.spoken
  <2>1. j.stream \in Nat /\ j.expected \in 0..(VoiceSpan - 1) /\ j.loss \in 0..MaxLoss
    BY <1>2 DEF Buffers
  <2>2. Moment(j.expected) \in Nat
    BY <2>1, MomentFacts, PlaybackFacts
  <2> QED BY <2>1, <2>2 DEF BufferInOrder, j
<1>8. HearingShape'
  <2>1. heardTime' \in Nat
    BY <1>1 DEF HearingShape
  <2> QED BY <1>1, <1>4, <1>6, <2>1 DEF HearingShape
<1>9. SpeakerCounts'
  BY <1>1 DEF SpeakerCounts, Moment
<1>10. PlayedInOrder'
  <2>1. CASE ~plays
    BY <1>1, <1>6, <2>1 DEF PlayedInOrder, Playback!PlayedOnce, Playback!Absolute
  <2>2. CASE plays
    <3>1. played'[Len(played')][1] <= speaker'.stream
      BY <1>1, <1>4, <1>5, <1>6, <1>7, <2>2
    <3>2. ASSUME NEW i \in 1..(Len(played') - 1)
          PROVE  \/ played'[i][1] < played'[i + 1][1]
                 \/ played'[i][1] = played'[i + 1][1] /\ Moment(played'[i][2]) < Moment(played'[i + 1][2])
      <4>1. i \in 1..Len(played) /\ played'[i] = played[i]
        <5>1. Len(played') - 1 = Len(played)
          BY <1>6, <2>2
        <5> QED BY <1>6, <2>2, <5>1
      <4>2. CASE i = Len(played)
        <5>1. played # <<>> /\ played'[i + 1] = moment /\ played'[i] = played[Len(played)]
          BY <1>6, <2>2, <4>1, <4>2
        <5> QED BY <1>4, <1>5, <1>7, <2>2, <5>1 DEF After
      <4>3. CASE i # Len(played)
        <5>1. i \in 1..(Len(played) - 1) /\ i + 1 \in 1..Len(played) /\ played'[i + 1] = played[i + 1]
          <6>1. i \in 1..(Len(played) - 1) /\ i + 1 \in 1..Len(played)
            BY <1>6, <4>1, <4>3
          <6> QED BY <1>6, <2>2, <6>1
        <5> QED BY <4>1, <5>1 DEF PlayedInOrder, Playback!PlayedOnce, Playback!Absolute, Moment
      <4> QED BY <4>2, <4>3
    <3> QED BY <3>1, <3>2 DEF PlayedInOrder, Playback!PlayedOnce, Playback!Absolute, Moment
  <2> QED BY <2>1, <2>2
<1>11. QueueInOrder'
  <2>1. inbound' = inbound /\ speaker' = speaker
    BY <1>1
  <2>2. ASSUME NEW i \in DOMAIN inbound, IsStart(inbound[i])
        PROVE  /\ remote'.jitter.initialized => remote'.jitter.stream < inbound[i].stream
               /\ played' # <<>> => played'[Len(played')][1] < inbound[i].stream
    <3>1. /\ j.initialized => j.stream < inbound[i].stream
          /\ played # <<>> => played[Len(played)][1] < inbound[i].stream
      BY <2>2 DEF QueueInOrder, j
    <3>2. remote'.jitter.initialized => remote'.jitter.stream = j.stream /\ j.initialized
      BY <1>4 DEF MovesOn
    <3> QED BY <1>4, <1>5, <1>6, <3>1, <3>2
  <2> QED BY <2>1, <2>2 DEF QueueInOrder, IsStart, WasSpoken, Moment
<1>12. BufferInOrder'
  <2>1. CASE ~remote'.jitter.initialized /\ remote'.jitter.frames = {}
    BY <2>1 DEF BufferInOrder
  <2>2. CASE ~plays /\ remote'.jitter = j
    BY <1>1, <1>6, <1>7, <2>2 DEF BufferInOrder, After, Moment
  <2>3. CASE plays /\ MovesOn(pop, j) /\ remote'.jitter = pop.jitter
    <3> DEFINE b == remote'.jitter
    <3>1. /\ b.initialized /\ b.stream = j.stream /\ b.frames \subseteq j.frames
          /\ b.expected = (j.expected + 1) % VoiceSpan
          /\ (b.loss = 0 /\ \E f \in j.frames : f.sequence = j.expected) \/ b.loss = j.loss + 1
          /\ b.loss \in 0..MaxLoss
      BY <2>3 DEF MovesOn, Buffers
    <3> HIDE DEF b
    <3>2. Moment(j.expected) + 1 <= speaker.spoken + b.loss
      <4>1. CASE b.loss = 0 /\ \E f \in j.frames : f.sequence = j.expected
        BY <1>3, <1>7, <4>1
      <4>2. CASE b.loss = j.loss + 1
        BY <1>3, <1>4, <1>7, <2>3, <4>2, PlaybackFacts
      <4> QED BY <3>1, <4>1, <4>2
    <3>3. Moment(j.expected) + 1 < VoiceSpan
      BY <1>3, <1>7, <3>1, <3>2, PlaybackFacts
    <3>4. Moment(b.expected) = Moment(j.expected) + 1
      BY <1>7, <3>1, <3>3, MomentFacts
    <3>5. \A f \in b.frames : Moment(f.sequence) < speaker.spoken
      BY <1>7, <3>1
    <3>6. b.stream <= speaker.stream /\ Moment(b.expected) <= speaker.spoken + b.loss
      BY <1>4, <1>7, <2>3, <3>1, <3>2, <3>4
    <3>7. played' # <<>> =>
            \/ played'[Len(played')][1] < b.stream
            \/ played'[Len(played')][1] = b.stream /\ Moment(played'[Len(played')][2]) < Moment(b.expected)
      <4>1. played'[Len(played')][1] = j.stream /\ played'[Len(played')][2] = j.expected
        BY <1>5, <1>6, <2>3
      <4>2. Moment(j.expected) < Moment(b.expected)
        BY <1>7, <3>4
      <4> QED BY <3>1, <4>1, <4>2
    <3> QED BY <1>1, <3>5, <3>6, <3>7 DEF BufferInOrder, After, Moment, b
  <2> QED BY <1>4, <2>1, <2>2, <2>3
<1> QED BY <1>8, <1>9, <1>10, <1>11, <1>12

(* Nothing is queued, buffered or played at first.                         *)
LEMMA HearingBegins == Playback!Init => Hearing
<1> SUFFICES ASSUME Playback!Init PROVE Hearing
  OBVIOUS
<1>1. /\ heardTime = 0 /\ speaker = [stream |-> 0, next |-> 0, talking |-> FALSE, spoken |-> 0]
      /\ inbound = <<>> /\ remote = Playback!NoRemote /\ activity = Playback!NoActivity /\ played = <<>>
  BY DEF Playback!Init
<1>2. HearingShape
  BY <1>1, ResetFacts, PlaybackFacts DEF HearingShape, Playback!NoActivity, Speakers
<1>3. SpeakerCounts /\ BufferInOrder
  BY <1>1, ResetFacts DEF SpeakerCounts, BufferInOrder
<1>4. DOMAIN inbound = {} /\ Len(played) = 0 /\ 1..(0 - 1) = {}
  BY <1>1
<1>5. QueueInOrder /\ PlayedInOrder
  BY <1>1, <1>4 DEF QueueInOrder, PlayedInOrder, Playback!PlayedOnce
<1> QED BY <1>2, <1>3, <1>5 DEF Hearing

(* A voice is heard in the order it was spoken, no moment of it twice:     *)
(* what is lost, comes late, is concealed or interrupted, and wherever the *)
(* numbers of its frames wrap, playback only goes on (ProcessPlayback,     *)
(* ShroomVoiceJitterPopNext).                                              *)
THEOREM HeardInOrder == Playback!Spec => []PlayedOnce
<1>1. Hearing /\ [Playback!Next]_Playback!vars => Hearing'
  <2> SUFFICES ASSUME Hearing, [Playback!Next]_Playback!vars PROVE Hearing'
    OBVIOUS
  <2>1. CASE Playback!SetPlayerMuted \/ Playback!Restart \/ Playback!EndSession \/ UNCHANGED Playback!vars
    BY <2>1, SwitchStep
  <2>2. ASSUME NEW end \in BOOLEAN, NEW lost \in BOOLEAN, Playback!Speak(end, lost)
        PROVE  Hearing'
    BY <2>2, SpeakStep
  <2>3. CASE Playback!ProcessInbound
    BY <2>3, InboundStep
  <2>4. CASE Playback!ProcessPlayback
    BY <2>4, PlaybackStep
  <2> QED BY <2>1, <2>2, <2>3, <2>4 DEF Playback!Next
<1>2. Hearing => PlayedOnce
  BY DEF Hearing, PlayedInOrder, PlayedOnce
<1> QED BY <1>1, <1>2, HearingBegins, PTL DEF Playback!Spec

-----------------------------------------------------------------------------
(* Keyframes repair what the channel of the collectibles loses             *)

(* The parameters of the replication.                                      *)
LEMMA ReplicaFacts ==
  IsFiniteSet(WorldSlots) /\ WorldSlots \subseteq Nat /\ PacketRecords \in Nat \ {0}
<1>1. \A S : Collectibles!IsFiniteSet(S) <=> IsFiniteSet(S)
  BY DEF Collectibles!IsFiniteSet, IsFiniteSet
<1> QED BY <1>1, TrafficParameters DEF Collectibles!ReplicationParameters

(* What a client can show, and whether two clients show the same of a      *)
(* slot.                                                                   *)
Shows == UNION {[S -> Values] : S \in SUBSET WorldSlots}
Same(m, n, s) == (s \in DOMAIN m <=> s \in DOMAIN n) /\ (s \in DOMAIN m => m[s] = n[s])

(* The slots a batch tells of that leads from before to after, and the     *)
(* chunk in which it tells of a slot.                                      *)
Told(key, before, after) == IF key THEN DOMAIN after ELSE {s \in WorldSlots : ~Same(before, after, s)}
ChunkOf(s, told) == Collectibles!PlaceOf(s, told) \div PacketRecords + 1

(* Two that show the same of every slot show the same.                     *)
LEMMA SameShown == ASSUME NEW m \in Shows, NEW n \in Shows, \A s \in WorldSlots : Same(m, n, s) PROVE m = n
<1>1. PICK S \in SUBSET WorldSlots : m \in [S -> Values]
  BY DEF Shows
<1>2. PICK T \in SUBSET WorldSlots : n \in [T -> Values]
  BY DEF Shows
<1>3. S = T
  BY <1>1, <1>2 DEF Same
<1>4. \A s \in S : m[s] = n[s]
  BY <1>1 DEF Same
<1> QED BY <1>1, <1>2, <1>3, <1>4

(* The place of a slot among those that are told of.                       *)
LEMMA PlaceFacts ==
  ASSUME NEW told, told \subseteq WorldSlots
  PROVE  /\ IsFiniteSet(told) /\ Cardinality(told) \in Nat /\ (Cardinality(told) = 0 <=> told = {})
         /\ \A S : Collectibles!Cardinality(S) = Cardinality(S)
         /\ \A s \in told : /\ Collectibles!PlaceOf(s, told) \in Nat
                            /\ Collectibles!PlaceOf(s, told) < Cardinality(told)
<1>1. IsFiniteSet(told)
  BY ReplicaFacts, FS_Subset
<1>2. Cardinality(told) \in Nat /\ (Cardinality(told) = 0 <=> told = {})
  BY <1>1, FS_CardinalityType, FS_EmptySet
<1>3. \A S : Collectibles!Cardinality(S) = Cardinality(S)
  BY DEF Collectibles!Cardinality, Cardinality
<1>4. ASSUME NEW s \in told
      PROVE  /\ Collectibles!PlaceOf(s, told) \in Nat
             /\ Collectibles!PlaceOf(s, told) < Cardinality(told)
  <2> DEFINE lower == {t \in told : t < s}
  <2>1. lower \in SUBSET told /\ s \notin lower
    BY ReplicaFacts
  <2>2. Collectibles!PlaceOf(s, told) = Cardinality(lower)
    BY <1>3 DEF Collectibles!PlaceOf
  <2> HIDE DEF lower
  <2>3. IsFiniteSet(lower) /\ Cardinality(lower) <= Cardinality(told) /\ Cardinality(lower) # Cardinality(told)
    BY <1>1, <2>1, FS_Subset
  <2>4. Cardinality(lower) \in Nat
    BY <2>3, FS_CardinalityType
  <2> QED BY <1>2, <2>2, <2>3, <2>4
<1> QED BY <1>1, <1>2, <1>3, <1>4

(* Chunks by rounding up and down.                                         *)
LEMMA Rounding ==
  ASSUME NEW n \in Nat, NEW p \in Nat \ {0}
  PROVE  /\ (n + p - 1) \div p \in Nat /\ (n > 0 => (n + p - 1) \div p > 0)
         /\ \A a \in Nat : /\ a \div p \in Nat /\ (a < n => a \div p < (n + p - 1) \div p)
                           /\ \A i \in Nat : (i - 1) * p <= a /\ a < i * p <=> i = a \div p + 1
<1>1. ASSUME NEW a \in Nat
      PROVE  a \div p \in Nat /\ (a \div p) * p <= a /\ a < (a \div p) * p + p
  OBVIOUS
<1>2. ASSUME NEW q \in Int, NEW c \in Int, q * p < c * p PROVE q < c
  <2>1. SUFFICES ASSUME c <= q PROVE FALSE
    OBVIOUS
  <2>2. PICK d \in Nat : q = c + d
    BY <2>1, q - c \in Nat
  <2>3. q * p = c * p + d * p /\ d * p >= 0
    BY <2>2
  <2> QED BY <1>2, <2>3
<1> DEFINE c == (n + p - 1) \div p
<1>3. n + p - 1 \in Nat
  OBVIOUS
<1>4. c \in Nat /\ c * p <= n + p - 1 /\ n + p - 1 < c * p + p
  BY <1>1, <1>3
<1> HIDE DEF c
<1>5. n > 0 => c > 0
  <2>1. CASE c = 0
    BY <1>4, <2>1
  <2> QED BY <1>4, <2>1
<1>6. ASSUME NEW a \in Nat
      PROVE  a \div p \in Nat /\ (a < n => a \div p < c)
  <2>1. a \div p \in Nat /\ (a \div p) * p <= a
    BY <1>1
  <2>2. ASSUME a < n PROVE a \div p < c
    <3> DEFINE q == a \div p
    <3>1. q \in Nat /\ q * p \in Int /\ c * p \in Int /\ q * p <= a
      BY <1>4, <2>1
    <3> HIDE DEF q
    <3>2. q * p < c * p
      BY <1>4, <2>2, <3>1
    <3>3. q < c
      BY <1>2, <1>4, <3>1, <3>2
    <3> QED BY <3>3 DEF q
  <2> QED BY <2>1, <2>2
<1>7. ASSUME NEW a \in Nat, NEW i \in Nat
      PROVE  (i - 1) * p <= a /\ a < i * p <=> i = a \div p + 1
  <2> DEFINE q == a \div p
  <2>1. q \in Nat /\ q * p <= a /\ a < q * p + p
    BY <1>1
  <2> HIDE DEF q
  <2>2. (q + 1) * p = q * p + p /\ q * p \in Int /\ i * p \in Int /\ (i - 1) * p \in Int
    BY <2>1
  <2>3. ASSUME (i - 1) * p <= a, a < i * p PROVE i = q + 1
    <3>1. (i - 1) * p < (q + 1) * p /\ q * p < i * p
      BY <2>1, <2>2, <2>3
    <3>2. i - 1 < q + 1
      BY <1>2, <2>1, <3>1
    <3>3. q < i
      BY <1>2, <2>1, <3>1
    <3> QED BY <2>1, <3>2, <3>3
  <2>4. ASSUME i = q + 1 PROVE (i - 1) * p <= a /\ a < i * p
    BY <2>1, <2>2, <2>4
  <2> QED BY <2>3, <2>4 DEF q
<1> QED BY <1>4, <1>5, <1>6, <1>7 DEF c

(* Every slot a batch tells of is in one of its chunks.                    *)
LEMMA ChunkFacts ==
  ASSUME NEW told, told \subseteq WorldSlots
  PROVE  /\ Collectibles!ChunkCount(told) \in Nat \ {0}
         /\ \A s \in told : ChunkOf(s, told) \in 1..Collectibles!ChunkCount(told) /\ ~(ChunkOf(s, told) < 1)
         /\ \A i \in Nat : Collectibles!Chunk(i, told) = {s \in told : ChunkOf(s, told) = i}
<1> DEFINE n == Cardinality(told)
           place(s) == Collectibles!PlaceOf(s, told)
<1>1. n \in Nat /\ (n = 0 <=> told = {}) /\ \A s \in told : place(s) \in Nat /\ place(s) < n
  BY PlaceFacts
<1>2. Collectibles!ChunkCount(told) = IF told = {} THEN 1 ELSE (n + PacketRecords - 1) \div PacketRecords
  BY PlaceFacts DEF Collectibles!ChunkCount
<1> HIDE DEF n
<1>3. Collectibles!ChunkCount(told) \in Nat \ {0}
  BY <1>1, <1>2, Rounding, ReplicaFacts
<1>4. ASSUME NEW s \in told PROVE ChunkOf(s, told) \in 1..Collectibles!ChunkCount(told)
  <2>1. place(s) \in Nat /\ place(s) < n /\ told # {}
    BY <1>1
  <2> HIDE DEF place
  <2>2. place(s) \div PacketRecords \in Nat /\ place(s) \div PacketRecords < (n + PacketRecords - 1) \div PacketRecords
    BY <1>1, <2>1, Rounding, ReplicaFacts
  <2>3. ChunkOf(s, told) = place(s) \div PacketRecords + 1
    BY DEF ChunkOf, place
  <2> QED BY <1>2, <1>3, <2>1, <2>2, <2>3
<1>5. ASSUME NEW i \in Nat
      PROVE  Collectibles!Chunk(i, told) = {s \in told : ChunkOf(s, told) = i}
  <2>1. \A s \in told : ((i - 1) * PacketRecords <= place(s) /\ place(s) < i * PacketRecords) <=> ChunkOf(s, told) = i
    BY <1>1, Rounding, ReplicaFacts DEF ChunkOf
  <2> QED BY <2>1 DEF Collectibles!Chunk
<1> QED BY <1>3, <1>4, <1>5

(* A packet of the batch that leads a client from before to after.         *)
Carries(p, before, after) ==
  LET told == Told(p.key, before, after)
  IN  /\ p.key \/ told # {}
      /\ p.count = Collectibles!ChunkCount(told) /\ p.index \in 1..p.count
      /\ DOMAIN p.records = Collectibles!Chunk(p.index, told)
      /\ \A s \in DOMAIN p.records :
           IF s \in DOMAIN after THEN p.records[s].op \in {"spawn", "update"} /\ p.records[s].value = after[s]
           ELSE p.records[s].op = "remove"

WorldPackets ==
  [tick : Nat \ {0}, key : BOOLEAN, index : Nat, count : Nat,
   records : UNION {[S -> [op : {"spawn", "update", "remove"}, value : Values]] : S \in SUBSET WorldSlots}]

ReplicaShape ==
  /\ worldTime \in Nat /\ world \in [WorldSlots -> [value : Values, shown : BOOLEAN]]
  /\ believed.known \in Shows /\ items \in Shows /\ channel \in Seq(WorldPackets)
  /\ intact \in BOOLEAN
  /\ state \in [latest : Nat, pending : BOOLEAN, tick : Nat, count : Nat, chunks : SUBSET Nat, listed : SUBSET WorldSlots]

(* The channel holds the packets of a tick together, in the order of their *)
(* chunks, and each batch starts where the one before it ends; the last    *)
(* one ends at what the server believes the client shows.                  *)
Batches(before, after) ==
  /\ before \in [DOMAIN channel -> Shows] /\ after \in [DOMAIN channel -> Shows]
  /\ \A i \in DOMAIN channel : Carries(channel[i], before[i], after[i]) /\ channel[i].tick <= worldTime
  /\ \A i, j \in DOMAIN channel : i < j =>
       /\ channel[i].tick <= channel[j].tick
       /\ channel[i].tick = channel[j].tick =>
            /\ channel[i].key = channel[j].key /\ channel[i].index < channel[j].index
            /\ before[i] = before[j] /\ after[i] = after[j]
  /\ \A i \in DOMAIN channel : i + 1 \in DOMAIN channel =>
       IF channel[i].tick = channel[i + 1].tick THEN channel[i + 1].index = channel[i].index + 1
       ELSE /\ channel[i].index = channel[i].count /\ channel[i + 1].index = 1
            /\ before[i + 1] = after[i]
  /\ channel # <<>> => /\ channel[Len(channel)].index = channel[Len(channel)].count
                       /\ after[Len(channel)] = believed.known

(* A keyframe under way is the one of the packets of its tick that are     *)
(* still to come; what it listed is what the client shows.                 *)
KeyframeOpen(after) ==
  /\ state.tick <= state.latest /\ state.latest <= worldTime
  /\ \A i \in DOMAIN channel : state.latest <= channel[i].tick
  /\ \A i \in DOMAIN channel : channel[i].tick = state.tick =>
       /\ channel[i].key /\ state.pending /\ state.count = channel[i].count
       /\ state.chunks \subseteq 1..(channel[i].index - 1) /\ state.listed \subseteq DOMAIN after[i]
       /\ \A s \in DOMAIN after[i] : ChunkOf(s, DOMAIN after[i]) \in state.chunks =>
            s \in state.listed /\ Same(items, after[i], s)

(* A client that lost nothing shows the last batch up to the next packet.  *)
UpToNext(before, after) ==
  IF channel = <<>> THEN items = believed.known
  ELSE LET p == channel[1]
           told == Told(p.key, before[1], after[1])
       IN  /\ \A s \in WorldSlots : Same(items, IF s \in told /\ ChunkOf(s, told) < p.index THEN after[1] ELSE before[1], s)
           /\ p.key /\ p.index > 1 => state.tick = p.tick /\ state.chunks = 1..(p.index - 1)

Replicated(before, after) ==
  Batches(before, after) /\ KeyframeOpen(after) /\ (intact => UpToNext(before, after))

Replication == ReplicaShape /\ \E before, after : Replicated(before, after)

(* Nothing is under way at first.                                          *)
LEMMA ReplicationBegins == Collectibles!Init => Replication
<1> SUFFICES ASSUME Collectibles!Init PROVE Replication
  OBVIOUS
<1>1. /\ worldTime = 0 /\ world \in [WorldSlots -> [value : Values, shown : BOOLEAN]]
      /\ believed.known = <<>> /\ items = <<>> /\ channel = <<>> /\ intact = TRUE
      /\ state = [latest |-> 0, pending |-> FALSE, tick |-> 0, count |-> 0, chunks |-> {}, listed |-> {}]
  BY DEF Collectibles!Init
<1>2. <<>> \in [{} -> Values] /\ <<>> \in [{} -> Shows]
  OBVIOUS
<1>3. <<>> \in Shows
  BY <1>2 DEF Shows
<1>4. ReplicaShape
  BY <1>1, <1>3 DEF ReplicaShape
<1>5. DOMAIN channel = {}
  BY <1>1
<1>6. Batches(<<>>, <<>>) /\ KeyframeOpen(<<>>) /\ UpToNext(<<>>, <<>>)
  BY <1>1, <1>2, <1>5 DEF Batches, KeyframeOpen, UpToNext
<1> QED BY <1>4, <1>6 DEF Replication, Replicated

(* The slots a batch tells of.                                             *)
LEMMA ToldFacts ==
  ASSUME NEW key \in BOOLEAN, NEW before \in Shows, NEW after \in Shows
  PROVE  /\ Told(key, before, after) \subseteq WorldSlots /\ DOMAIN before \subseteq WorldSlots /\ DOMAIN after \subseteq WorldSlots
         /\ \A s \in DOMAIN after : after[s] \in Values
         /\ ~key => \A s \in WorldSlots \ Told(key, before, after) : Same(before, after, s)
<1>1. DOMAIN after \subseteq WorldSlots /\ DOMAIN before \subseteq WorldSlots /\ \A s \in DOMAIN after : after[s] \in Values
  BY DEF Shows
<1> QED BY <1>1 DEF Told

(* What a packet does to what a client shows (ApplyRecord).                *)
LEMMA AppliedFacts ==
  ASSUME NEW p \in WorldPackets, NEW before \in Shows, NEW after \in Shows, NEW told, NEW m \in Shows, NEW n,
         told = Told(p.key, before, after), Carries(p, before, after), n = Collectibles!Applied(m, p.records)
  PROVE  /\ n \in Shows /\ DOMAIN p.records = {s \in told : ChunkOf(s, told) = p.index}
         /\ \A s \in WorldSlots : IF s \in told /\ ChunkOf(s, told) = p.index THEN Same(n, after, s) ELSE Same(n, m, s)
<1>0. p.key \in BOOLEAN /\ p.index \in Nat
  BY DEF WorldPackets
<1>1. told \subseteq WorldSlots /\ DOMAIN m \subseteq WorldSlots /\ \A s \in DOMAIN m : m[s] \in Values
  BY <1>0, ToldFacts
<1>2. DOMAIN p.records = {s \in told : ChunkOf(s, told) = p.index}
  BY <1>0, <1>1, ChunkFacts DEF Carries
<1>3. \A s \in DOMAIN p.records :
        /\ p.records[s].value \in Values
        /\ s \in DOMAIN after => p.records[s].op \in {"spawn", "update"} /\ p.records[s].value = after[s]
        /\ s \notin DOMAIN after => p.records[s].op = "remove"
  <2>1. PICK S \in SUBSET WorldSlots : p.records \in [S -> [op : {"spawn", "update", "remove"}, value : Values]]
    BY DEF WorldPackets
  <2> QED BY <2>1 DEF Carries
<1>4. DOMAIN n = (DOMAIN m \ {s \in DOMAIN p.records : s \notin DOMAIN after})
                   \cup {s \in DOMAIN p.records : s \in DOMAIN after}
  <2>1. {s \in DOMAIN p.records : p.records[s].op \in {"remove"}} = {s \in DOMAIN p.records : s \notin DOMAIN after}
    BY <1>3
  <2>2. {s \in DOMAIN p.records : p.records[s].op \in {"spawn", "update"}} = {s \in DOMAIN p.records : s \in DOMAIN after}
    BY <1>3
  <2> QED BY <2>1, <2>2 DEF Collectibles!Applied
<1>5. \A s \in DOMAIN n : n[s] = IF s \in DOMAIN p.records THEN p.records[s].value ELSE m[s]
  BY <1>4 DEF Collectibles!Applied
<1>6. n = [s \in DOMAIN n |-> n[s]]
  BY DEF Collectibles!Applied
<1>7. DOMAIN n \subseteq WorldSlots /\ \A s \in DOMAIN n : n[s] \in Values
  BY <1>1, <1>2, <1>3, <1>4, <1>5
<1>8. n \in [DOMAIN n -> Values] /\ DOMAIN n \in SUBSET WorldSlots
  BY <1>6, <1>7
<1>9. n \in Shows
  BY <1>8 DEF Shows
<1>10. ASSUME NEW s \in WorldSlots
       PROVE  IF s \in DOMAIN p.records THEN Same(n, after, s) ELSE Same(n, m, s)
  BY <1>3, <1>4, <1>5 DEF Same
<1> QED BY <1>2, <1>9, <1>10

(* What the server does for a slot that is told of                         *)
(* (ShroomWorldReplicationBuild).                                          *)
LEMMA OperationFacts ==
  ASSUME NEW s \in WorldSlots, ReplicaShape, NEW due \in BOOLEAN, due = Collectibles!KeyframeDue,
         NEW old \in Shows, old = believed.known, NEW new \in Shows, DOMAIN new = {t \in WorldSlots : world'[t].shown},
         \A t \in DOMAIN new : new[t] = world'[t].value
  PROVE  /\ Collectibles!Operation(s) # "none" <=> s \in Told(due, old, new)
         /\ Collectibles!Operation(s) # "none" =>
              IF s \in DOMAIN new THEN Collectibles!Operation(s) \in {"spawn", "update"}
              ELSE Collectibles!Operation(s) = "remove"
<1> DEFINE current == s \in DOMAIN new
           known == s \in DOMAIN old
           same == new[s] = old[s]
           o == Collectibles!Operation(s)
<1>1. o = CASE current /\ (due \/ ~known) -> "spawn"
            [] current /\ ~due /\ known /\ new[s] # old[s] -> "update"
            [] ~current /\ ~due /\ known -> "remove"
            [] OTHER -> "none"
  BY DEF Collectibles!Operation, Collectibles!Current, Collectibles!Known
<1>2. s \in Told(due, old, new) <=> IF due THEN current ELSE ~((known <=> current) /\ (known => old[s] = new[s]))
  BY DEF Told, Same
<1> HIDE DEF o
<1>3. CASE due
  <2>1. o = IF current THEN "spawn" ELSE "none"
    BY <1>1, <1>3
  <2> QED BY <1>2, <1>3, <2>1 DEF o
<1>4. CASE ~due
  <2>1. o = IF current THEN IF ~known THEN "spawn" ELSE IF new[s] # old[s] THEN "update" ELSE "none"
            ELSE IF known THEN "remove" ELSE "none"
    BY <1>1, <1>4
  <2> QED BY <1>2, <1>4, <2>1 DEF o
<1> QED BY <1>3, <1>4

(* A batch that is sent (SendWorldState).                                  *)
LEMMA BatchFacts ==
  ASSUME ReplicaShape, Collectibles!Send, NEW old, old = believed.known, NEW new, new = believed'.known,
         NEW batch, batch = Collectibles!Packets(Collectibles!Records)
  PROVE  /\ worldTime' = worldTime + 1 /\ world' \in [WorldSlots -> [value : Values, shown : BOOLEAN]]
         /\ new \in Shows /\ channel' = channel \o batch /\ UNCHANGED <<items, state, intact>>
         /\ batch \in Seq(WorldPackets) /\ (batch = <<>> => new = old)
         /\ \A i \in DOMAIN batch :
              /\ Carries(batch[i], old, new) /\ batch[i].index = i /\ batch[i].count = Len(batch)
              /\ batch[i].tick = worldTime + 1 /\ batch[i].key = batch[1].key
<1>1. PICK slot \in WorldSlots, value \in Values, shown \in BOOLEAN :
        world' = [world EXCEPT ![slot] = [value |-> value, shown |-> shown]]
  BY DEF Collectibles!Send
<1>2. /\ worldTime' = worldTime + 1 /\ worldTime \in Nat
      /\ world' \in [WorldSlots -> [value : Values, shown : BOOLEAN]]
      /\ channel' = channel \o batch /\ UNCHANGED <<items, state, intact>>
  BY <1>1 DEF ReplicaShape, Collectibles!Send
<1>3. new = [s \in {t \in WorldSlots : world'[t].shown} |-> world'[s].value]
  BY DEF Collectibles!Send, Collectibles!Current
<1>4. {t \in WorldSlots : world'[t].shown} \in SUBSET WorldSlots /\ new \in [{t \in WorldSlots : world'[t].shown} -> Values]
  BY <1>2, <1>3
<1>5. new \in Shows /\ old \in Shows
  BY <1>4 DEF Shows, ReplicaShape
<1>6. PICK due \in BOOLEAN : due = Collectibles!KeyframeDue
  BY DEF Collectibles!KeyframeDue
<1> DEFINE told == Told(due, old, new)
           records == Collectibles!Records
           n == Collectibles!ChunkCount(told)
<1>7. \A s \in WorldSlots :
        /\ Collectibles!Operation(s) # "none" <=> s \in told
        /\ s \in told => IF s \in DOMAIN new THEN Collectibles!Operation(s) \in {"spawn", "update"}
                         ELSE Collectibles!Operation(s) = "remove"
  BY <1>3, <1>5, <1>6, OperationFacts
<1>8. told \subseteq WorldSlots /\ DOMAIN new \subseteq WorldSlots
  BY <1>5, ToldFacts
<1>9. /\ DOMAIN records = told
      /\ \A s \in told : records[s] = [op |-> Collectibles!Operation(s), value |-> world'[s].value]
  <2>1. {s \in WorldSlots : Collectibles!Operation(s) # "none"} = told
    <3> HIDE DEF told
    <3> QED BY <1>7, <1>8
  <2>2. records = [s \in {t \in WorldSlots : Collectibles!Operation(t) # "none"} |->
                     [op |-> Collectibles!Operation(s), value |-> world'[s].value]]
    BY DEF Collectibles!Records
  <2> HIDE DEF records, told
  <2> QED BY <2>1, <2>2
<1> HIDE DEF records, told
<1>10. \A s \in told : /\ records[s] \in [op : {"spawn", "update", "remove"}, value : Values]
                       /\ IF s \in DOMAIN new THEN records[s].op \in {"spawn", "update"} /\ records[s].value = new[s]
                          ELSE records[s].op = "remove"
  <2> SUFFICES ASSUME NEW s \in told
               PROVE  /\ records[s] \in [op : {"spawn", "update", "remove"}, value : Values]
                      /\ IF s \in DOMAIN new THEN records[s].op \in {"spawn", "update"} /\ records[s].value = new[s]
                         ELSE records[s].op = "remove"
    OBVIOUS
  <2>1. s \in WorldSlots /\ world'[s].value \in Values /\ (s \in DOMAIN new => new[s] = world'[s].value)
    BY <1>2, <1>3, <1>8
  <2>2. records[s] = [op |-> Collectibles!Operation(s), value |-> world'[s].value]
    BY <1>9
  <2>3. IF s \in DOMAIN new THEN Collectibles!Operation(s) \in {"spawn", "update"}
        ELSE Collectibles!Operation(s) = "remove"
    BY <1>7, <2>1
  <2> QED BY <2>1, <2>2, <2>3
<1>11. n \in Nat \ {0} /\ \A i \in Nat : Collectibles!Chunk(i, told) \subseteq told
  <2>1. \A i \in Nat : Collectibles!Chunk(i, told) = {s \in told : ChunkOf(s, told) = i}
    BY <1>8, ChunkFacts
  <2> QED BY <1>8, <2>1, ChunkFacts
<1> HIDE DEF n
<1>12. CASE ~due /\ told = {}
  <2>1. batch = <<>>
    BY <1>6, <1>9, <1>12 DEF Collectibles!Packets, records
  <2>2. \A s \in WorldSlots : Same(old, new, s)
    BY <1>5, <1>12, ToldFacts DEF told
  <2>3. new = old
    BY <1>5, <2>2, SameShown
  <2> QED BY <1>2, <1>5, <2>1, <2>3
<1>13. CASE due \/ told # {}
  <2> DEFINE part(i) == Collectibles!Restrict(records, Collectibles!Chunk(i, told))
  <2>1. batch = [i \in 1..n |-> [tick |-> worldTime + 1, key |-> due, index |-> i, count |-> n, records |-> part(i)]]
    BY <1>2, <1>6, <1>9, <1>13 DEF Collectibles!Packets, records, n
  <2>2. ASSUME NEW i \in 1..n
        PROVE  /\ DOMAIN part(i) = Collectibles!Chunk(i, told)
               /\ \A s \in DOMAIN part(i) : part(i)[s] = records[s] /\ s \in told
               /\ part(i) \in UNION {[S -> [op : {"spawn", "update", "remove"}, value : Values]] : S \in SUBSET WorldSlots}
    <3>1. part(i) = [s \in Collectibles!Chunk(i, told) |-> records[s]]
      BY DEF Collectibles!Restrict
    <3>2. Collectibles!Chunk(i, told) \in SUBSET WorldSlots /\ Collectibles!Chunk(i, told) \subseteq told
      BY <1>8, <1>11
    <3>3. part(i) \in [Collectibles!Chunk(i, told) -> [op : {"spawn", "update", "remove"}, value : Values]]
      BY <1>10, <3>1, <3>2
    <3> QED BY <3>1, <3>2, <3>3
  <2> HIDE DEF part
  <2>3. ASSUME NEW i \in 1..n
        PROVE  /\ batch[i] \in WorldPackets /\ batch[i].index = i /\ batch[i].count = n
               /\ batch[i].tick = worldTime + 1 /\ batch[i].key = due
               /\ batch[i].records = part(i)
    BY <1>2, <1>11, <2>1, <2>2 DEF WorldPackets
  <2>4. batch \in Seq(WorldPackets) /\ DOMAIN batch = 1..n /\ Len(batch) = n
    BY <1>11, <2>1, <2>3
  <2>5. ASSUME NEW i \in 1..n PROVE Carries(batch[i], old, new)
    <3>1. Told(batch[i].key, old, new) = told
      BY <2>3 DEF told
    <3> QED BY <1>10, <1>13, <2>2, <2>3, <3>1 DEF Carries, n
  <2>6. 1 \in 1..n /\ batch # <<>>
    BY <1>11, <2>4
  <2> QED BY <1>2, <1>5, <2>3, <2>4, <2>5, <2>6
<1> QED BY <1>12, <1>13

(* A batch that is sent starts where the one before it ends.               *)
LEMMA SendReplicates == ASSUME Replication, Collectibles!Send PROVE Replication'
<1>1. PICK before, after : Replicated(before, after)
  BY DEF Replication
<1>2. ReplicaShape /\ Batches(before, after) /\ KeyframeOpen(after) /\ (intact => UpToNext(before, after))
  BY <1>1 DEF Replication, Replicated
<1>3. PICK old, new, batch :
        old = believed.known /\ new = believed'.known /\ batch = Collectibles!Packets(Collectibles!Records)
  OBVIOUS
<1>4. /\ worldTime' = worldTime + 1 /\ world' \in [WorldSlots -> [value : Values, shown : BOOLEAN]]
      /\ new \in Shows /\ channel' = channel \o batch /\ UNCHANGED <<items, state, intact>>
      /\ batch \in Seq(WorldPackets) /\ (batch = <<>> => new = old)
      /\ \A i \in DOMAIN batch :
           /\ Carries(batch[i], old, new) /\ batch[i].index = i /\ batch[i].count = Len(batch)
           /\ batch[i].tick = worldTime + 1 /\ batch[i].key = batch[1].key
  BY <1>2, <1>3, BatchFacts
<1>5. /\ worldTime \in Nat /\ channel \in Seq(WorldPackets) /\ old \in Shows /\ items \in Shows
      /\ state \in [latest : Nat, pending : BOOLEAN, tick : Nat, count : Nat, chunks : SUBSET Nat, listed : SUBSET WorldSlots]
  BY <1>2, <1>3 DEF ReplicaShape
<1>6. ReplicaShape'
  <2>1. channel' \in Seq(WorldPackets)
    BY <1>4, <1>5
  <2> QED BY <1>2, <1>3, <1>4, <1>5, <2>1 DEF ReplicaShape
<1>7. CASE batch = <<>>
  <2>1. channel' = channel /\ believed'.known = believed.known
    BY <1>3, <1>4, <1>5, <1>7
  <2>2. Batches(before, after)' /\ KeyframeOpen(after)' /\ (intact => UpToNext(before, after))'
    <3>1. Batches(before, after)'
      <4>1. \A i \in DOMAIN channel : channel[i].tick \in Nat
        <5>1. \A i \in DOMAIN channel : channel[i] \in WorldPackets
          BY <1>5, ElementFacts
        <5> QED BY <5>1 DEF WorldPackets
      <4>2. \A i \in DOMAIN channel : Carries(channel[i], before[i], after[i]) /\ channel[i].tick <= worldTime'
        BY <1>2, <1>4, <1>5, <4>1 DEF Batches
      <4> QED BY <1>2, <2>1, <4>2 DEF Batches
    <3>2. KeyframeOpen(after)'
      BY <1>2, <1>4, <1>5, <2>1 DEF KeyframeOpen
    <3>3. (intact => UpToNext(before, after))'
      BY <1>2, <1>4, <2>1 DEF UpToNext
    <3> QED BY <3>1, <3>2, <3>3
  <2> QED BY <1>6, <2>2 DEF Replication, Replicated
<1>8. CASE batch # <<>>
  <2> DEFINE len == Len(channel)
             more == Len(batch)
  <2>1. len \in Nat /\ more \in Nat \ {0} /\ DOMAIN channel = 1..len /\ DOMAIN batch = 1..more
    BY <1>4, <1>5, <1>8
  <2>2. /\ channel' # <<>> /\ Len(channel') = len + more /\ DOMAIN channel' = 1..(len + more)
        /\ \A i \in 1..len : channel'[i] = channel[i]
        /\ \A i \in 1..(len + more) : i > len => i - len \in 1..more /\ channel'[i] = batch[i - len]
    BY <1>4, <1>5, <2>1
  <2>3. PICK b, a :
          /\ b \in [DOMAIN channel' -> Shows] /\ a \in [DOMAIN channel' -> Shows]
          /\ \A i \in 1..len : b[i] = before[i] /\ a[i] = after[i]
          /\ \A i \in 1..(len + more) : i > len => b[i] = old /\ a[i] = new
    <3> DEFINE f == [i \in DOMAIN channel' |-> IF i <= len THEN before[i] ELSE old]
               g == [i \in DOMAIN channel' |-> IF i <= len THEN after[i] ELSE new]
    <3>1. /\ f \in [DOMAIN channel' -> Shows] /\ g \in [DOMAIN channel' -> Shows]
          /\ \A i \in 1..len : f[i] = before[i] /\ g[i] = after[i]
          /\ \A i \in 1..(len + more) : i > len => f[i] = old /\ g[i] = new
      BY <1>2, <1>4, <1>5, <2>1, <2>2 DEF Batches
    <3> HIDE DEF f, g
    <3> QED BY <3>1
  <2>4. /\ \A i \in 1..len : channel[i].tick <= worldTime
        /\ \A i \in 1..(len + more) : i > len =>
             /\ channel'[i].tick = worldTime + 1 /\ channel'[i].index = i - len /\ channel'[i].count = more
             /\ channel'[i].key = batch[1].key /\ Carries(channel'[i], old, new)
        /\ \A i \in DOMAIN channel' : channel'[i].tick \in Nat
    <3>1. \A i \in DOMAIN channel' : channel'[i] \in WorldPackets
      BY <1>6, ElementFacts DEF ReplicaShape
    <3>2. \A i \in DOMAIN channel' : channel'[i].tick \in Nat
      BY <3>1 DEF WorldPackets
    <3>3. \A i \in 1..len : channel[i].tick <= worldTime
      BY <1>2, <2>1 DEF Batches
    <3>4. ASSUME NEW i \in 1..(len + more), i > len
          PROVE  /\ channel'[i].tick = worldTime + 1 /\ channel'[i].index = i - len /\ channel'[i].count = more
                 /\ channel'[i].key = batch[1].key /\ Carries(channel'[i], old, new)
      <4>1. i - len \in DOMAIN batch /\ channel'[i] = batch[i - len]
        BY <2>1, <2>2, <3>4
      <4> QED BY <1>4, <4>1
    <3> QED BY <3>2, <3>3, <3>4
  <2> HIDE DEF len, more
  <2>5. Batches(b, a)'
    <3>1. \A i \in DOMAIN channel' : Carries(channel'[i], b[i], a[i]) /\ channel'[i].tick <= worldTime'
      <4> SUFFICES ASSUME NEW i \in DOMAIN channel'
                   PROVE  Carries(channel'[i], b[i], a[i]) /\ channel'[i].tick <= worldTime'
        OBVIOUS
      <4>1. CASE i <= len
        <5>1. i \in DOMAIN channel /\ channel'[i] = channel[i] /\ b[i] = before[i] /\ a[i] = after[i]
          BY <2>1, <2>2, <2>3, <4>1
        <5>2. Carries(channel[i], before[i], after[i]) /\ channel[i].tick <= worldTime /\ channel'[i].tick \in Nat
          BY <1>2, <2>4, <5>1 DEF Batches
        <5> QED BY <1>4, <1>5, <5>1, <5>2
      <4>2. CASE i > len
        BY <1>4, <2>1, <2>2, <2>3, <2>4, <4>2
      <4> QED BY <2>1, <2>2, <4>1, <4>2
    <3>2. \A i, j \in DOMAIN channel' : i < j =>
            /\ channel'[i].tick <= channel'[j].tick
            /\ channel'[i].tick = channel'[j].tick =>
                 /\ channel'[i].key = channel'[j].key /\ channel'[i].index < channel'[j].index
                 /\ b[i] = b[j] /\ a[i] = a[j]
      <4>0. SUFFICES ASSUME NEW i \in DOMAIN channel', NEW j \in DOMAIN channel', i < j
                   PROVE  /\ channel'[i].tick <= channel'[j].tick
                          /\ channel'[i].tick = channel'[j].tick =>
                               /\ channel'[i].key = channel'[j].key /\ channel'[i].index < channel'[j].index
                               /\ b[i] = b[j] /\ a[i] = a[j]
        OBVIOUS
      <4>1. CASE j <= len
        <5>1. /\ i \in DOMAIN channel /\ channel'[i] = channel[i] /\ b[i] = before[i] /\ a[i] = after[i]
              /\ j \in DOMAIN channel /\ channel'[j] = channel[j] /\ b[j] = before[j] /\ a[j] = after[j]
          BY <2>1, <2>2, <2>3, <4>0, <4>1
        <5> QED BY <1>2, <4>0, <5>1 DEF Batches
      <4>2. CASE i <= len /\ j > len
        BY <1>5, <2>1, <2>2, <2>3, <2>4, <4>0, <4>2
      <4>3. CASE i > len
        BY <2>1, <2>2, <2>3, <2>4, <4>0, <4>3
      <4> QED BY <2>1, <2>2, <4>0, <4>1, <4>2, <4>3
    <3>3. \A i \in DOMAIN channel' : i + 1 \in DOMAIN channel' =>
            IF channel'[i].tick = channel'[i + 1].tick THEN channel'[i + 1].index = channel'[i].index + 1
            ELSE /\ channel'[i].index = channel'[i].count /\ channel'[i + 1].index = 1
                 /\ b[i + 1] = a[i]
      <4> SUFFICES ASSUME NEW i \in DOMAIN channel', i + 1 \in DOMAIN channel'
                   PROVE  IF channel'[i].tick = channel'[i + 1].tick THEN channel'[i + 1].index = channel'[i].index + 1
                          ELSE /\ channel'[i].index = channel'[i].count /\ channel'[i + 1].index = 1
                               /\ b[i + 1] = a[i]
        OBVIOUS
      <4>1. CASE i + 1 <= len
        <5>1. i \in DOMAIN channel /\ i + 1 \in DOMAIN channel
          BY <2>1, <2>2, <4>1
        <5> QED BY <1>2, <2>1, <2>2, <2>3, <5>1 DEF Batches
      <4>2. CASE i = len
        <5>1. channel # <<>> /\ len \in 1..len
          BY <2>1, <2>2, <4>2
        <5>2. channel[len].index = channel[len].count /\ after[len] = old
          BY <1>2, <1>3, <5>1 DEF Batches, len
        <5>3. /\ channel'[i] = channel[len] /\ channel[len].tick <= worldTime /\ a[i] = after[len]
              /\ channel[len].tick \in Nat
          BY <2>1, <2>2, <2>3, <2>4, <4>2, <5>1
        <5>4. i + 1 \in 1..(len + more) /\ i + 1 > len /\ (i + 1) - len = 1
          BY <2>1, <2>2, <4>2
        <5>5. channel'[i + 1].tick = worldTime + 1 /\ channel'[i + 1].index = 1 /\ b[i + 1] = old
          BY <2>3, <2>4, <5>4
        <5> QED BY <1>5, <5>2, <5>3, <5>5
      <4>3. CASE i > len
        BY <2>1, <2>2, <2>4, <4>3
      <4> QED BY <2>1, <2>2, <4>1, <4>2, <4>3
    <3>4. channel'[Len(channel')].index = channel'[Len(channel')].count /\ a[Len(channel')] = believed'.known
      <4>1. Len(channel') \in 1..(len + more) /\ Len(channel') > len /\ Len(channel') - len = more
        BY <2>1, <2>2
      <4> QED BY <1>3, <2>3, <2>4, <4>1
    <3> QED BY <2>3, <3>1, <3>2, <3>3, <3>4 DEF Batches
  <2>6. KeyframeOpen(a)'
    <3>1. state.tick <= state.latest /\ state.latest <= worldTime'
      BY <1>2, <1>4, <1>5 DEF KeyframeOpen
    <3>2. ASSUME NEW i \in DOMAIN channel', i <= len
          PROVE  i \in DOMAIN channel /\ channel'[i] = channel[i] /\ a[i] = after[i]
      BY <2>1, <2>2, <2>3, <3>2
    <3>3. ASSUME NEW i \in DOMAIN channel', i > len
          PROVE  state.latest <= channel'[i].tick /\ channel'[i].tick # state.tick
      <4>1. channel'[i].tick = worldTime + 1
        BY <2>2, <2>4, <3>3
      <4> QED BY <1>2, <1>5, <4>1 DEF KeyframeOpen
    <3>4. \A i \in DOMAIN channel' : i <= len \/ i > len
      BY <2>1, <2>2
    <3>5. ASSUME NEW i \in DOMAIN channel'
          PROVE  /\ state.latest <= channel'[i].tick
                 /\ channel'[i].tick = state.tick =>
                      /\ channel'[i].key /\ state.pending /\ state.count = channel'[i].count
                      /\ state.chunks \subseteq 1..(channel'[i].index - 1) /\ state.listed \subseteq DOMAIN a[i]
                      /\ \A s \in DOMAIN a[i] : ChunkOf(s, DOMAIN a[i]) \in state.chunks =>
                           s \in state.listed /\ Same(items, a[i], s)
      <4>1. CASE i <= len
        BY <1>2, <3>2, <4>1 DEF KeyframeOpen
      <4>2. CASE i > len
        BY <3>3, <4>2
      <4> QED BY <3>4, <4>1, <4>2
    <3> QED BY <1>4, <3>1, <3>5 DEF KeyframeOpen
  <2>7. intact => UpToNext(b, a)'
    <3> SUFFICES ASSUME intact PROVE UpToNext(b, a)'
      OBVIOUS
    <3>1. CASE channel = <<>>
      <4>1. len = 0 /\ items = old
        BY <1>2, <1>3, <3>1 DEF UpToNext, len
      <4>2. channel'[1].index = 1 /\ b[1] = old /\ a[1] = new /\ Carries(channel'[1], old, new)
        BY <2>1, <2>3, <2>4, <4>1
      <4>3. channel'[1] \in WorldPackets
        BY <1>6, <2>1, <2>2, ElementFacts DEF ReplicaShape
      <4>4. Told(channel'[1].key, old, new) \subseteq WorldSlots
        BY <1>4, <1>5, <4>3, ToldFacts DEF WorldPackets
      <4>5. PICK told : told = Told(channel'[1].key, old, new)
        OBVIOUS
      <4>6. \A s \in told : ~(ChunkOf(s, told) < 1)
        BY <4>4, <4>5, ChunkFacts
      <4>7. \A s \in WorldSlots : Same(items', IF s \in told /\ ChunkOf(s, told) < 1 THEN new ELSE old, s)
        BY <1>4, <4>1, <4>6 DEF Same
      <4> QED BY <2>2, <4>2, <4>5, <4>7 DEF UpToNext
    <3>2. CASE channel # <<>>
      <4>1. 1 \in 1..len
        BY <1>5, <2>1, <3>2
      <4>2. channel'[1] = channel[1] /\ b[1] = before[1] /\ a[1] = after[1]
        BY <2>2, <2>3, <4>1
      <4> QED BY <1>2, <1>4, <2>2, <3>2, <4>2 DEF UpToNext
    <3> QED BY <3>1, <3>2
  <2>8. Replicated(b, a)'
    BY <1>4, <2>5, <2>6, <2>7 DEF Replicated
  <2> QED BY <1>6, <2>8 DEF Replication
<1> QED BY <1>7, <1>8

(* A packet that arrives, and those before it that are lost.               *)
LEMMA ReceiveReplicates ==
  ASSUME Replication, NEW i \in DOMAIN channel, Collectibles!HandleWorldState(i) PROVE Replication'
<1>1. PICK before, after : Replicated(before, after)
  BY DEF Replication
<1>2. ReplicaShape /\ Batches(before, after) /\ KeyframeOpen(after) /\ (intact => UpToNext(before, after))
  BY <1>1 DEF Replication, Replicated
<1>3. PICK p, first, last : p = channel[i] /\ first = before[i] /\ last = after[i]
  OBVIOUS
<1>4. PICK told : told = Told(p.key, first, last)
  OBVIOUS
<1>5. PICK goes \in BOOLEAN : goes <=> state.pending /\ state.tick = p.tick
  OBVIOUS
<1>6. PICK chunks, count, listed :
        /\ chunks = (IF goes THEN state.chunks ELSE {}) \cup {p.index}
        /\ count = (IF goes THEN state.count ELSE p.count)
        /\ listed = (IF goes THEN state.listed ELSE {}) \cup DOMAIN p.records
  OBVIOUS
<1>7. PICK view : view = Collectibles!Applied(items, p.records)
  OBVIOUS
<1>8. /\ p \in WorldPackets /\ first \in Shows /\ last \in Shows /\ Carries(p, first, last)
      /\ p.tick <= worldTime /\ p.key \in BOOLEAN /\ p.tick \in Nat /\ p.index \in Nat /\ p.count \in Nat
      /\ worldTime \in Nat /\ channel \in Seq(WorldPackets) /\ items \in Shows
      /\ state \in [latest : Nat, pending : BOOLEAN, tick : Nat, count : Nat, chunks : SUBSET Nat, listed : SUBSET WorldSlots]
  <2>1. p \in WorldPackets
    BY <1>2, <1>3, ElementFacts DEF ReplicaShape
  <2> QED BY <1>2, <1>3, <2>1 DEF ReplicaShape, Batches, WorldPackets
<1>9. /\ told \subseteq WorldSlots /\ DOMAIN last \subseteq WorldSlots /\ (p.key => told = DOMAIN last)
      /\ (~p.key => \A s \in WorldSlots \ told : Same(first, last, s))
      /\ p.count \in Nat \ {0} /\ p.index \in 1..p.count /\ \A s \in told : ChunkOf(s, told) \in 1..p.count
  <2>1. /\ told \subseteq WorldSlots /\ DOMAIN last \subseteq WorldSlots
        /\ (~p.key => \A s \in WorldSlots \ told : Same(first, last, s))
    BY <1>4, <1>8, ToldFacts
  <2>2. p.count = Collectibles!ChunkCount(told) /\ p.index \in 1..p.count
    BY <1>4, <1>8 DEF Carries
  <2>3. p.key => told = DOMAIN last
    BY <1>4 DEF Told
  <2> QED BY <2>1, <2>2, <2>3, ChunkFacts
<1>10. /\ view \in Shows /\ DOMAIN p.records = {s \in told : ChunkOf(s, told) = p.index}
       /\ \A s \in WorldSlots : IF s \in told /\ ChunkOf(s, told) = p.index THEN Same(view, last, s) ELSE Same(view, items, s)
  BY <1>4, <1>7, <1>8, AppliedFacts
<1>11. state.tick <= state.latest /\ state.latest <= p.tick
  BY <1>2, <1>3 DEF KeyframeOpen
<1>12. /\ channel' = SubSeq(channel, i + 1, Len(channel)) /\ UNCHANGED <<worldTime, world, believed>>
       /\ intact' = ((p.key /\ chunks = 1..count) \/ (intact /\ i = 1))
       /\ items' = IF p.key /\ chunks = 1..count THEN Collectibles!Restrict(view, DOMAIN view \cap listed) ELSE view
       /\ state' \in [latest : Nat, pending : BOOLEAN, tick : Nat, count : Nat, chunks : SUBSET Nat, listed : SUBSET WorldSlots]
       /\ state'.latest = p.tick
       /\ ~p.key => state'.tick = state.tick
       /\ p.key => /\ state'.tick = p.tick /\ state'.count = count /\ state'.chunks = chunks /\ state'.listed = listed
                   /\ state'.pending = (chunks # 1..count)
  <2>1. p \in WorldPackets /\ DOMAIN p.records \subseteq WorldSlots
    <3>1. p \in WorldPackets
      BY <1>8
    <3> QED BY <3>1 DEF WorldPackets
  <2>2. p.tick \in Nat /\ p.key \in BOOLEAN /\ p.index \in Nat /\ p.count \in Nat
    BY <2>1 DEF WorldPackets
  <2>3. state \in [latest : Nat, pending : BOOLEAN, tick : Nat, count : Nat, chunks : SUBSET Nat, listed : SUBSET WorldSlots]
    BY <1>8
  <2> DEFINE opened == Collectibles!Opened(p)
  <2>4. CASE ~p.key
    <3>1. opened = [state EXCEPT !.latest = p.tick, !.pending = state.pending /\ state.tick >= p.tick]
      BY <2>4 DEF Collectibles!Opened
    <3> HIDE DEF opened
    <3>2. items' = view /\ state' = opened /\ channel' = SubSeq(channel, i + 1, Len(channel))
          /\ UNCHANGED <<worldTime, world, believed>> /\ intact' = (intact /\ i = 1)
      BY <1>2, <1>3, <1>7, <1>11, <2>2, <2>3, <2>4 DEF Collectibles!HandleWorldState, opened, ReplicaShape
    <3> QED BY <2>2, <2>3, <2>4, <3>1, <3>2
  <2>5. CASE p.key
    <3>1. /\ opened \in [latest : Nat, pending : BOOLEAN, tick : Nat, count : Nat, chunks : SUBSET Nat, listed : SUBSET WorldSlots]
          /\ opened.latest = p.tick /\ opened.tick = p.tick /\ opened.pending = TRUE /\ opened.count = count
          /\ opened.chunks \cup {p.index} = chunks /\ opened.listed \cup DOMAIN p.records = listed
      <4> DEFINE newer == [state EXCEPT !.latest = p.tick, !.pending = state.pending /\ state.tick >= p.tick]
      <4>1. /\ newer \in [latest : Nat, pending : BOOLEAN, tick : Nat, count : Nat, chunks : SUBSET Nat, listed : SUBSET WorldSlots]
            /\ newer.latest = p.tick /\ newer.tick = state.tick /\ newer.count = state.count
            /\ newer.chunks = state.chunks /\ newer.listed = state.listed /\ newer.pending = goes
        <5>1. state.tick >= p.tick <=> state.tick = p.tick
          BY <1>11, <2>2, <2>3
        <5>2. newer = [state EXCEPT !.latest = p.tick, !.pending = goes]
          BY <1>5, <5>1
        <5> HIDE DEF newer
        <5> QED BY <2>2, <2>3, <5>2
      <4>2. opened = IF p.key /\ (~newer.pending \/ p.tick > newer.tick)
                     THEN [newer EXCEPT !.pending = TRUE, !.tick = p.tick, !.count = p.count, !.chunks = {}, !.listed = {}]
                     ELSE newer
        BY DEF Collectibles!Opened
      <4> HIDE DEF newer, opened
      <4>3. CASE goes
        <5>1. opened = newer
          BY <1>5, <2>2, <4>1, <4>2, <4>3
        <5> QED BY <1>5, <1>6, <2>2, <2>3, <4>1, <4>3, <5>1
      <4>4. CASE ~goes
        <5>1. opened = [newer EXCEPT !.pending = TRUE, !.tick = p.tick, !.count = p.count, !.chunks = {}, !.listed = {}]
          BY <2>5, <4>1, <4>2, <4>4
        <5> QED BY <1>6, <2>2, <4>1, <4>4, <5>1
      <4> QED BY <4>3, <4>4
    <3> HIDE DEF opened
    <3>2. /\ channel' = SubSeq(channel, i + 1, Len(channel)) /\ UNCHANGED <<worldTime, world, believed>>
          /\ intact' = (chunks = 1..count \/ (intact /\ i = 1))
          /\ IF chunks = 1..count
             THEN /\ items' = Collectibles!Restrict(view, DOMAIN view \cap listed)
                  /\ state' = [opened EXCEPT !.pending = FALSE, !.chunks = chunks, !.listed = listed]
             ELSE items' = view /\ state' = [opened EXCEPT !.chunks = chunks, !.listed = listed]
      <4>1. ~(p.tick < state.latest)
        BY <1>11, <2>2, <2>3
      <4> QED BY <1>3, <1>7, <2>5, <3>1, <4>1 DEF Collectibles!HandleWorldState, opened
    <3>3. chunks \in SUBSET Nat /\ listed \in SUBSET WorldSlots
      BY <1>6, <2>1, <2>2, <2>3
    <3> QED BY <2>5, <3>1, <3>2, <3>3
  <2> QED BY <2>2, <2>4, <2>5
<1>13. p.key => /\ count = p.count /\ chunks \subseteq 1..p.index /\ listed \subseteq DOMAIN last
                /\ \A s \in DOMAIN last : ChunkOf(s, told) \in chunks => s \in listed /\ Same(view, last, s)
  <2> SUFFICES ASSUME p.key
               PROVE  /\ count = p.count /\ chunks \subseteq 1..p.index /\ listed \subseteq DOMAIN last
                      /\ \A s \in DOMAIN last : ChunkOf(s, told) \in chunks => s \in listed /\ Same(view, last, s)
    OBVIOUS
  <2>1. told = DOMAIN last
    BY <1>9
  <2>2. CASE goes
    <3>1. /\ state.count = p.count /\ state.chunks \subseteq 1..(p.index - 1) /\ state.listed \subseteq told
          /\ \A s \in told : ChunkOf(s, told) \in state.chunks => s \in state.listed /\ Same(items, last, s)
      BY <1>2, <1>3, <1>5, <2>1, <2>2 DEF KeyframeOpen
    <3>2. count = p.count /\ chunks = state.chunks \cup {p.index} /\ listed = state.listed \cup DOMAIN p.records
      BY <1>6, <2>2, <3>1
    <3>3. chunks \subseteq 1..p.index /\ listed \subseteq told
      BY <1>8, <1>9, <1>10, <3>1, <3>2
    <3>4. ASSUME NEW s \in told, ChunkOf(s, told) \in chunks PROVE s \in listed /\ Same(view, last, s)
      <4>1. CASE ChunkOf(s, told) = p.index
        BY <1>9, <1>10, <3>2, <4>1
      <4>2. CASE ChunkOf(s, told) # p.index
        <5>1. Same(view, items, s) /\ Same(items, last, s) /\ s \in listed
          BY <1>9, <1>10, <3>1, <3>2, <3>4, <4>2
        <5> QED BY <5>1 DEF Same
      <4> QED BY <4>1, <4>2
    <3> QED BY <2>1, <3>2, <3>3, <3>4
  <2>3. CASE ~goes
    <3>1. count = p.count /\ chunks = {p.index} /\ listed = DOMAIN p.records
      BY <1>6, <2>3
    <3> QED BY <1>9, <1>10, <2>1, <3>1
  <2> QED BY <2>2, <2>3
<1>14. ASSUME p.key, chunks = 1..count PROVE items' = last /\ items' \in Shows /\ p.index = p.count
  <2>1. items' = [s \in DOMAIN view \cap listed |-> view[s]]
    BY <1>12, <1>14 DEF Collectibles!Restrict
  <2>2. \A s \in DOMAIN last : s \in listed /\ Same(view, last, s)
    BY <1>9, <1>13, <1>14
  <2>3. items' = [s \in DOMAIN last |-> last[s]]
    BY <1>13, <1>14, <2>1, <2>2 DEF Same
  <2>4. last = [s \in DOMAIN last |-> last[s]]
    BY <1>8 DEF Shows
  <2>5. p.count \in chunks
    BY <1>9, <1>13, <1>14
  <2>6. p.index = p.count
    BY <1>9, <1>13, <1>14, <2>5
  <2> QED BY <1>8, <2>3, <2>4, <2>6
<1>15. ReplicaShape'
  <2>1. items' \in Shows
    BY <1>10, <1>12, <1>14
  <2>2. channel' \in Seq(WorldPackets) /\ intact' \in BOOLEAN
    BY <1>8, <1>12
  <2> QED BY <1>2, <1>12, <2>1, <2>2 DEF ReplicaShape
<1> DEFINE len == Len(channel)
<1>16. /\ len \in Nat /\ DOMAIN channel = 1..len /\ i \in 1..len
       /\ DOMAIN channel' = 1..(len - i) /\ Len(channel') = len - i /\ (channel' = <<>> <=> i = len)
       /\ \A j \in 1..(len - i) : j + i \in 1..len /\ channel'[j] = channel[j + i]
  <2>1. channel \in Seq(WorldPackets) /\ channel' = SubSeq(channel, i + 1, len) /\ i \in 1..len
    BY <1>8, <1>12
  <2>2. len \in Nat /\ DOMAIN channel = 1..len
    BY <2>1
  <2> HIDE DEF len
  <2>3. channel' \in Seq(WorldPackets) /\ Len(channel') = len - i /\ DOMAIN channel' = 1..(len - i)
    BY <2>1, <2>2 DEF len
  <2>4. ASSUME NEW j \in 1..(len - i) PROVE j + i \in 1..len /\ channel'[j] = channel[j + i]
    BY <2>1, <2>2 DEF len
  <2>5. channel' = <<>> <=> i = len
    BY <2>1, <2>2, <2>3
  <2> QED BY <2>1, <2>2, <2>3, <2>4, <2>5
<1>17. PICK b, a :
         /\ b \in [DOMAIN channel' -> Shows] /\ a \in [DOMAIN channel' -> Shows]
         /\ \A j \in 1..(len - i) : b[j] = before[j + i] /\ a[j] = after[j + i]
  <2> DEFINE f == [j \in DOMAIN channel' |-> before[j + i]]
             g == [j \in DOMAIN channel' |-> after[j + i]]
  <2>1. /\ f \in [DOMAIN channel' -> Shows] /\ g \in [DOMAIN channel' -> Shows]
        /\ \A j \in 1..(len - i) : f[j] = before[j + i] /\ g[j] = after[j + i]
    BY <1>2, <1>16 DEF Batches
  <2> HIDE DEF f, g
  <2> QED BY <2>1
<1> HIDE DEF len
<1>18. Batches(b, a)'
  <2>1. \A j \in DOMAIN channel' : Carries(channel'[j], b[j], a[j]) /\ channel'[j].tick <= worldTime'
    <3> SUFFICES ASSUME NEW j \in DOMAIN channel'
                 PROVE  Carries(channel'[j], b[j], a[j]) /\ channel'[j].tick <= worldTime'
      OBVIOUS
    <3>1. /\ j + i \in DOMAIN channel /\ channel'[j] = channel[j + i]
          /\ b[j] = before[j + i] /\ a[j] = after[j + i]
      BY <1>16, <1>17
    <3>2. Carries(channel[j + i], before[j + i], after[j + i]) /\ channel[j + i].tick <= worldTime
      BY <1>2, <3>1 DEF Batches
    <3> QED BY <1>12, <3>1, <3>2
  <2>2. \A j, k \in DOMAIN channel' : j < k =>
          /\ channel'[j].tick <= channel'[k].tick
          /\ channel'[j].tick = channel'[k].tick =>
               /\ channel'[j].key = channel'[k].key /\ channel'[j].index < channel'[k].index
               /\ b[j] = b[k] /\ a[j] = a[k]
    <3> SUFFICES ASSUME NEW j \in DOMAIN channel', NEW k \in DOMAIN channel', j < k
                 PROVE  /\ channel'[j].tick <= channel'[k].tick
                        /\ channel'[j].tick = channel'[k].tick =>
                             /\ channel'[j].key = channel'[k].key /\ channel'[j].index < channel'[k].index
                             /\ b[j] = b[k] /\ a[j] = a[k]
      OBVIOUS
    <3>1. j + i \in DOMAIN channel /\ k + i \in DOMAIN channel /\ j + i < k + i
      BY <1>16
    <3> QED BY <1>2, <1>16, <1>17, <3>1 DEF Batches
  <2>3. ASSUME NEW j \in DOMAIN channel', j + 1 \in DOMAIN channel'
        PROVE  IF channel'[j].tick = channel'[j + 1].tick THEN channel'[j + 1].index = channel'[j].index + 1
               ELSE /\ channel'[j].index = channel'[j].count /\ channel'[j + 1].index = 1
                    /\ b[j + 1] = a[j]
    <3>1. j + i \in DOMAIN channel /\ (j + 1) + i = (j + i) + 1 /\ (j + i) + 1 \in DOMAIN channel
      BY <1>16, <2>3
    <3>2. channel'[j] = channel[j + i] /\ channel'[j + 1] = channel[(j + i) + 1]
          /\ a[j] = after[j + i] /\ b[j + 1] = before[(j + i) + 1]
      BY <1>16, <1>17, <2>3, <3>1
    <3> QED BY <1>2, <3>1, <3>2 DEF Batches
  <2>4. channel' # <<>> => /\ channel'[Len(channel')].index = channel'[Len(channel')].count
                           /\ a[Len(channel')] = believed'.known
    <3> SUFFICES ASSUME channel' # <<>>
                 PROVE  /\ channel'[Len(channel')].index = channel'[Len(channel')].count
                        /\ a[Len(channel')] = believed'.known
      OBVIOUS
    <3>1. len - i \in 1..(len - i) /\ (len - i) + i = len /\ channel # <<>>
      BY <1>16
    <3>2. channel'[Len(channel')] = channel[len] /\ a[Len(channel')] = after[len]
      BY <1>16, <1>17, <3>1
    <3> QED BY <1>2, <1>12, <3>1, <3>2 DEF Batches, len
  <2> QED BY <1>17, <2>1, <2>2, <2>3, <2>4 DEF Batches
<1>19. ASSUME NEW j \in DOMAIN channel'
       PROVE  /\ p.tick <= channel'[j].tick
              /\ channel'[j].tick = p.tick =>
                   /\ channel'[j].key = p.key /\ p.index < channel'[j].index /\ channel'[j].count = p.count
                   /\ channel'[j].index <= p.count /\ a[j] = last /\ b[j] = first
  <2>1. j + i \in DOMAIN channel /\ i < j + i /\ channel'[j] = channel[j + i] /\ a[j] = after[j + i] /\ b[j] = before[j + i]
    BY <1>16, <1>17
  <2>2. /\ p.tick <= channel'[j].tick
        /\ channel'[j].tick = p.tick =>
             /\ channel'[j].key = p.key /\ p.index < channel'[j].index /\ a[j] = last /\ b[j] = first
    BY <1>2, <1>3, <2>1 DEF Batches
  <2>3. Carries(channel'[j], b[j], a[j])
    BY <1>2, <2>1 DEF Batches
  <2>4. ASSUME channel'[j].tick = p.tick PROVE channel'[j].count = p.count /\ channel'[j].index <= p.count
    <3>1. channel'[j].count = p.count /\ channel'[j].index \in 1..p.count
      BY <1>8, <2>2, <2>3, <2>4 DEF Carries
    <3> QED BY <1>8, <3>1
  <2> QED BY <2>2, <2>4
<1>20. KeyframeOpen(a)'
  <2>1. state'.tick <= state'.latest /\ state'.latest <= worldTime'
    BY <1>8, <1>11, <1>12
  <2>2. \A j \in DOMAIN channel' : state'.latest <= channel'[j].tick
    BY <1>12, <1>19
  <2>3. ASSUME NEW j \in DOMAIN channel', channel'[j].tick = state'.tick
        PROVE  /\ channel'[j].key /\ state'.pending /\ state'.count = channel'[j].count
               /\ state'.chunks \subseteq 1..(channel'[j].index - 1) /\ state'.listed \subseteq DOMAIN a[j]
               /\ \A s \in DOMAIN a[j] : ChunkOf(s, DOMAIN a[j]) \in state'.chunks =>
                    s \in state'.listed /\ Same(items', a[j], s)
    <3>1. channel'[j].tick \in Nat
      <4>1. channel'[j] \in WorldPackets
        BY <1>15, ElementFacts DEF ReplicaShape
      <4> QED BY <4>1 DEF WorldPackets
    <3>2. p.key
      <4>0. SUFFICES ASSUME ~p.key PROVE FALSE
        OBVIOUS
      <4>1. p.tick = state.tick
        <5>1. state'.tick = state.tick /\ state.tick \in Nat /\ state.latest \in Nat
          BY <1>8, <1>12, <4>0
        <5> QED BY <1>8, <1>11, <1>19, <2>3, <3>1, <5>1
      <4>2. channel[i].tick = state.tick => channel[i].key
        BY <1>2 DEF KeyframeOpen
      <4> QED BY <1>3, <4>0, <4>1, <4>2
    <3>3. channel'[j].tick = p.tick /\ state'.count = count /\ state'.chunks = chunks /\ state'.listed = listed
      BY <1>12, <2>3, <3>2
    <3>4. /\ channel'[j].key /\ p.index < channel'[j].index /\ channel'[j].count = p.count
          /\ channel'[j].index <= p.count /\ a[j] = last
      BY <1>19, <3>2, <3>3
    <3>5. channel'[j].index \in Nat
      <4>1. channel'[j] \in WorldPackets
        BY <1>15, ElementFacts DEF ReplicaShape
      <4> QED BY <4>1 DEF WorldPackets
    <3>6. chunks # 1..count
      BY <1>8, <1>14, <3>2, <3>4, <3>5
    <3>7. state'.pending /\ items' = view
      BY <1>12, <3>2, <3>6
    <3>8. chunks \subseteq 1..(channel'[j].index - 1)
      BY <1>8, <1>13, <3>2, <3>4, <3>5
    <3> QED BY <1>9, <1>13, <3>2, <3>3, <3>4, <3>7, <3>8
  <2> QED BY <2>1, <2>2, <2>3 DEF KeyframeOpen
<1>21. ASSUME intact' PROVE UpToNext(b, a)'
  <2>1. ASSUME items' = last, p.index = p.count
        PROVE  UpToNext(b, a)'
    <3>1. CASE channel' = <<>>
      <4>1. i = len /\ channel # <<>>
        BY <1>16, <3>1
      <4>2. last = believed.known
        BY <1>2, <1>3, <4>1 DEF Batches, len
      <4> QED BY <1>12, <2>1, <3>1, <4>2 DEF UpToNext
    <3>2. CASE channel' # <<>>
      <4>1. 1 \in DOMAIN channel' /\ 1 + i = i + 1 /\ i + 1 \in DOMAIN channel
        BY <1>16, <3>2
      <4>2. channel'[1] = channel[i + 1] /\ b[1] = before[i + 1] /\ a[1] = after[i + 1]
        BY <1>16, <1>17, <4>1
      <4>3. channel'[1] \in WorldPackets /\ b[1] \in Shows /\ a[1] \in Shows
        BY <1>15, <1>17, <4>1, ElementFacts DEF ReplicaShape
      <4>4. channel'[1].tick # p.tick
        <5>1. channel'[1].index \in Nat
          BY <4>3 DEF WorldPackets
        <5> QED BY <1>8, <1>19, <2>1, <4>1, <5>1
      <4>5. channel'[1].index = 1 /\ b[1] = last
        BY <1>2, <1>3, <4>1, <4>2, <4>4 DEF Batches
      <4>6. \A s \in Told(channel'[1].key, b[1], a[1]) : ~(ChunkOf(s, Told(channel'[1].key, b[1], a[1])) < 1)
        <5>1. Told(channel'[1].key, b[1], a[1]) \subseteq WorldSlots
          BY <4>3, ToldFacts DEF WorldPackets
        <5> QED BY <5>1, ChunkFacts
      <4>7. \A s \in WorldSlots : Same(items', b[1], s)
        BY <2>1, <4>5 DEF Same
      <4> QED BY <3>2, <4>5, <4>6, <4>7 DEF UpToNext
    <3> QED BY <3>1, <3>2
  <2>2. CASE p.key /\ chunks = 1..count
    BY <1>14, <2>1, <2>2
  <2>3. CASE ~(p.key /\ chunks = 1..count)
    <3>1. intact /\ i = 1 /\ items' = view
      BY <1>12, <1>21, <2>3
    <3>2. /\ \A s \in WorldSlots : Same(items, IF s \in told /\ ChunkOf(s, told) < p.index THEN last ELSE first, s)
          /\ p.key /\ p.index > 1 => state.tick = p.tick /\ state.chunks = 1..(p.index - 1)
      <4>1. channel # <<>>
        BY <1>16, <3>1
      <4> QED BY <1>2, <1>3, <1>4, <3>1, <4>1 DEF UpToNext
    <3>3. ASSUME NEW s \in WorldSlots
          PROVE  Same(view, IF s \in told /\ ChunkOf(s, told) < p.index + 1 THEN last ELSE first, s)
      <4>1. s \in told => ChunkOf(s, told) \in Nat
        BY <1>9
      <4>2. CASE s \in told /\ ChunkOf(s, told) = p.index
        BY <1>8, <1>10, <4>1, <4>2
      <4>3. CASE ~(s \in told /\ ChunkOf(s, told) = p.index)
        <5>1. Same(view, items, s)
          BY <1>10, <4>3
        <5>2. s \in told => (ChunkOf(s, told) < p.index + 1 <=> ChunkOf(s, told) < p.index)
          BY <1>8, <4>1, <4>3
        <5> QED BY <3>2, <5>1, <5>2 DEF Same
      <4> QED BY <4>2, <4>3
    <3>4. ASSUME p.key PROVE chunks = 1..p.index /\ p.index # p.count
      <4>1. goes => state.chunks \subseteq 1..(p.index - 1)
        BY <1>2, <1>3, <1>5 DEF KeyframeOpen
      <4>2. p.index > 1 => goes /\ state.chunks = 1..(p.index - 1)
        BY <1>2, <1>3, <1>5, <3>2, <3>4 DEF KeyframeOpen
      <4>3. CASE p.index > 1
        <5>1. chunks = 1..(p.index - 1) \cup {p.index}
          BY <1>6, <4>2, <4>3
        <5>2. chunks = 1..p.index
          BY <1>8, <4>3, <5>1
        <5> QED BY <1>13, <2>3, <3>4, <5>2
      <4>4. CASE ~(p.index > 1)
        <5>1. p.index = 1
          BY <1>9, <4>4
        <5>2. chunks = 1..1
          BY <1>6, <4>1, <5>1
        <5> QED BY <1>13, <2>3, <3>4, <5>1, <5>2
      <4> QED BY <4>3, <4>4
    <3>5. ASSUME p.index = p.count PROVE UpToNext(b, a)'
      <4>1. ~p.key
        BY <3>4, <3>5
      <4>2. ASSUME NEW s \in WorldSlots PROVE Same(view, last, s)
        <5>1. s \in told => ChunkOf(s, told) < p.index + 1
          BY <1>8, <1>9, <3>5
        <5>2. s \notin told => Same(first, last, s)
          BY <1>9, <4>1
        <5> QED BY <3>3, <5>1, <5>2 DEF Same
      <4>3. items' = last
        BY <1>8, <1>10, <3>1, <4>2, SameShown
      <4> QED BY <2>1, <3>5, <4>3
    <3>6. ASSUME p.index # p.count PROVE UpToNext(b, a)'
      <4>1. channel' # <<>>
        <5>1. i = len /\ channel # <<>> => p.index = p.count
          BY <1>2, <1>3 DEF Batches, len
        <5> QED BY <1>16, <3>6, <5>1
      <4>2. 1 \in DOMAIN channel' /\ 1 + i = i + 1 /\ i + 1 \in DOMAIN channel
        BY <1>16, <4>1
      <4>3. channel'[1] = channel[i + 1]
        BY <1>16, <4>2
      <4>4. channel'[1].tick = p.tick /\ channel'[1].index = p.index + 1
        BY <1>2, <1>3, <3>6, <4>2, <4>3 DEF Batches
      <4>5. channel'[1].key = p.key /\ a[1] = last /\ b[1] = first
        BY <1>19, <4>2, <4>4
      <4>6. p.key /\ p.index + 1 > 1 => state'.tick = p.tick /\ state'.chunks = 1..((p.index + 1) - 1)
        BY <1>8, <1>12, <3>4
      <4> QED BY <1>4, <3>1, <3>3, <4>1, <4>4, <4>5, <4>6 DEF UpToNext
    <3> QED BY <3>5, <3>6
  <2> QED BY <2>2, <2>3
<1>22. Replicated(b, a)'
  BY <1>18, <1>20, <1>21 DEF Replicated
<1> QED BY <1>15, <1>22 DEF Replication

(* However packets are lost, chunks of a keyframe included: once one has   *)
(* arrived whole and nothing was lost since, the client shows what the     *)
(* server believes it shows (ShroomWorldReplicationBuild,                  *)
(* ShroomWorldReplicationApplyPacket).                                     *)
THEOREM KeyframesRepairLosses == Collectibles!Spec => []KeyframesRepair
<1>1. Replication /\ [Collectibles!Next]_Collectibles!vars => Replication'
  <2> SUFFICES ASSUME Replication, [Collectibles!Next]_Collectibles!vars PROVE Replication'
    OBVIOUS
  <2>1. CASE Collectibles!Send
    BY <2>1, SendReplicates
  <2>2. ASSUME NEW i \in DOMAIN channel, Collectibles!HandleWorldState(i) PROVE Replication'
    BY <2>2, ReceiveReplicates
  <2>3. CASE UNCHANGED Collectibles!vars
    <3>1. PICK before, after : Replicated(before, after)
      BY DEF Replication
    <3>2. UNCHANGED <<worldTime, world, believed, items, state, channel, intact>>
      BY <2>3 DEF Collectibles!vars
    <3>3. ReplicaShape'
      BY <3>2 DEF Replication, ReplicaShape
    <3>4. Batches(before, after)'
      BY <3>1, <3>2 DEF Replicated, Batches
    <3>5. KeyframeOpen(after)'
      BY <3>1, <3>2 DEF Replicated, KeyframeOpen
    <3>6. (intact => UpToNext(before, after))'
      BY <3>1, <3>2 DEF Replicated, UpToNext
    <3>7. Replicated(before, after)'
      BY <3>4, <3>5, <3>6 DEF Replicated
    <3> QED BY <3>3, <3>7 DEF Replication
  <2> QED BY <2>1, <2>2, <2>3 DEF Collectibles!Next
<1>2. Replication => KeyframesRepair
  BY DEF Replication, Replicated, UpToNext, KeyframesRepair, Collectibles!KeyframesRepair
<1> QED BY <1>1, <1>2, ReplicationBegins, PTL DEF Collectibles!Spec

=============================================================================
