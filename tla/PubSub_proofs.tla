--------------------------- MODULE PubSub_proofs ---------------------------
(***************************************************************************)
(* What the run of MCPubSub shows on one subscriber and three messages,    *)
(* proved for any subscribers, values, pipes and numbers of messages.      *)
(***************************************************************************)
EXTENDS PubSub, SequenceTheorems, TLAPS

Messages == Nat \ {0}

(***************************************************************************)
(* The inductive invariant.                                                *)
(***************************************************************************)

(* Nothing is queued or on its way to a process that does not run, and it  *)
(* missed whatever was sent. *)
Gone(s) ==
    s \notin alive =>
        /\ waiting[s] = 0 /\ queue[s] = << >> /\ pipe[s] = << >>
        /\ s \in missed \/ sent = << >>

(* _buf holds the message received last, whose handler is the last queued. *)
BufIsLast(s) == queue[s] # << >> => buf[s] = queue[s][Len(queue[s])]

(* What was taken, is queued and is on its way are messages in the order   *)
(* they were sent. *)
Ordered(t, q, p, n) ==
    /\ t <= n
    /\ \A i \in 1..Len(q) : t < q[i] /\ q[i] <= n
    /\ \A i \in 1..Len(p) : t < p[i] /\ p[i] <= n
    /\ \A i, j \in 1..Len(q) : i < j => q[i] < q[j]
    /\ \A i, j \in 1..Len(p) : i < j => p[i] < p[j]
    /\ \A i \in 1..Len(q), j \in 1..Len(p) : q[i] < p[j]

InOrder(s) == Ordered(taken[s], queue[s], pipe[s], Len(sent))

(* The latest message is the last on its way, or the last queued, or what  *)
(* became _lastState. *)
LatestAhead(s) ==
    s \notin missed =>
        /\ pipe[s] # << >> => pipe[s][Len(pipe[s])] = Len(sent)
        /\ pipe[s] = << >> /\ queue[s] # << >> => queue[s][Len(queue[s])] = Len(sent)
        /\ pipe[s] = << >> /\ queue[s] = << >> =>
              last[s] = IF sent = << >> THEN Initial ELSE sent[Len(sent)]

SInv(s) == Gone(s) /\ BufIsLast(s) /\ InOrder(s) /\ LatestAhead(s)

IInv == TypeOK /\ \A s \in Subscribers : SInv(s)

(***************************************************************************)
(* Sequences.                                                              *)
(***************************************************************************)

LEMMA TailFacts ==
    ASSUME NEW q \in Seq(Messages), q # << >>
    PROVE  /\ Head(q) \in Messages /\ Head(q) = q[1]
           /\ Tail(q) \in Seq(Messages) /\ Len(Tail(q)) = Len(q) - 1
           /\ Len(q) \in Nat /\ Len(q) >= 1
           /\ \A i \in 1..Len(q) - 1 : Tail(q)[i] = q[i + 1]
           /\ Tail(q) = << >> <=> Len(q) = 1
<1>1. Len(q) \in Nat /\ Len(q) >= 1
  BY EmptySeq
<1>2. Head(q) = q[1] /\ Head(q) \in Messages
  BY <1>1
<1>3. Tail(q) \in Seq(Messages) /\ Len(Tail(q)) = Len(q) - 1
  BY <1>1
<1>4. \A i \in 1..Len(q) - 1 : Tail(q)[i] = q[i + 1]
  BY <1>1
<1>5. \A t \in Seq(Messages) : t = << >> <=> Len(t) = 0
  BY EmptySeq
<1>6. Tail(q) = << >> <=> Len(Tail(q)) = 0
  BY <1>3, <1>5
<1> QED
  BY <1>1, <1>2, <1>3, <1>4, <1>6

LEMMA AppendFacts ==
    ASSUME NEW q \in Seq(Messages), NEW m \in Messages
    PROVE  /\ Append(q, m) \in Seq(Messages) /\ Len(Append(q, m)) = Len(q) + 1
           /\ \A i \in 1..Len(q) : Append(q, m)[i] = q[i]
           /\ Append(q, m)[Len(q) + 1] = m
           /\ Append(q, m) # << >> /\ Len(q) \in Nat
OBVIOUS

LEMMA SubSeqFacts ==
    ASSUME NEW q \in Seq(Messages), NEW n \in Nat, n <= Len(q)
    PROVE  /\ SubSeq(q, 1, n) \in Seq(Messages) /\ Len(SubSeq(q, 1, n)) = n
           /\ \A i \in 1..n : SubSeq(q, 1, n)[i] = q[i]
           /\ n = Len(q) => SubSeq(q, 1, n) = q
OBVIOUS

(* A message sent is later than all of them. *)
LEMMA OrderedSent ==
    ASSUME NEW t \in Nat, NEW n \in Nat, NEW q \in Seq(Messages), NEW p \in Seq(Messages),
           Ordered(t, q, p, n)
    PROVE  Ordered(t, q, p, n + 1) /\ Ordered(t, q, Append(p, n + 1), n + 1)
<1>1. /\ \A i \in 1..Len(q) : q[i] \in Nat /\ t < q[i] /\ q[i] <= n
      /\ \A i \in 1..Len(p) : p[i] \in Nat /\ t < p[i] /\ p[i] <= n
      /\ \A i, j \in 1..Len(q) : i < j => q[i] < q[j]
      /\ \A i, j \in 1..Len(p) : i < j => p[i] < p[j]
      /\ \A i \in 1..Len(q), j \in 1..Len(p) : q[i] < p[j]
      /\ t <= n
  BY DEF Ordered, Messages
<1>2. Ordered(t, q, p, n + 1)
  BY <1>1 DEF Ordered
<1>3. Ordered(t, q, Append(p, n + 1), n + 1)
  <2> DEFINE r == Append(p, n + 1)
  <2>1. /\ Len(p) \in Nat /\ Len(r) = Len(p) + 1 /\ r[Len(p) + 1] = n + 1
        /\ \A i \in 1..Len(p) : r[i] = p[i]
    BY AppendFacts DEF Messages
  <2> HIDE DEF r
  <2>2. \A i \in 1..Len(r) : i \in 1..Len(p) \/ i = Len(p) + 1
    BY <2>1
  <2>3. \A i \in 1..Len(r) : t < r[i] /\ r[i] <= n + 1
    BY <1>1, <2>1, <2>2
  <2>4. \A i, j \in 1..Len(r) : i < j => r[i] < r[j]
    <3> SUFFICES ASSUME NEW i \in 1..Len(r), NEW j \in 1..Len(r), i < j PROVE r[i] < r[j]
      OBVIOUS
    <3>1. i \in 1..Len(p)
      BY <2>1
    <3> QED
      BY <1>1, <2>1, <2>2, <3>1
  <2>5. \A i \in 1..Len(q), j \in 1..Len(r) : q[i] < r[j]
    <3> SUFFICES ASSUME NEW i \in 1..Len(q), NEW j \in 1..Len(r) PROVE q[i] < r[j]
      OBVIOUS
    <3>1. CASE j \in 1..Len(p)
      BY <1>1, <2>1, <3>1
    <3>2. CASE j = Len(p) + 1
      <4>1. q[i] \in Nat /\ q[i] <= n
        BY <1>1
      <4> QED
        BY <2>1, <3>2, <4>1
    <3> QED
      BY <2>2, <3>1, <3>2
  <2> QED
    BY <1>2, <2>3, <2>4, <2>5 DEF Ordered, r
<1> QED
  BY <1>2, <1>3

(* What leaves the pipe first is received last. *)
LEMMA OrderedReceived ==
    ASSUME NEW t \in Nat, NEW n \in Nat, NEW q \in Seq(Messages), NEW p \in Seq(Messages),
           p # << >>, Ordered(t, q, p, n)
    PROVE  Ordered(t, Append(q, Head(p)), Tail(p), n)
<1> DEFINE r == Append(q, Head(p))
           u == Tail(p)
<1>1. /\ \A i \in 1..Len(q) : q[i] \in Nat /\ t < q[i] /\ q[i] <= n
      /\ \A i \in 1..Len(p) : p[i] \in Nat /\ t < p[i] /\ p[i] <= n
      /\ \A i, j \in 1..Len(q) : i < j => q[i] < q[j]
      /\ \A i, j \in 1..Len(p) : i < j => p[i] < p[j]
      /\ \A i \in 1..Len(q), j \in 1..Len(p) : q[i] < p[j]
      /\ t <= n
  BY DEF Ordered, Messages
<1>2. /\ Len(p) \in Nat /\ Len(p) >= 1 /\ Head(p) = p[1] /\ Head(p) \in Messages
      /\ Len(u) = Len(p) - 1 /\ \A i \in 1..Len(p) - 1 : u[i] = p[i + 1]
  BY TailFacts
<1>3. /\ Len(q) \in Nat /\ Len(r) = Len(q) + 1 /\ r[Len(q) + 1] = p[1]
      /\ \A i \in 1..Len(q) : r[i] = q[i]
  BY <1>2, AppendFacts
<1> HIDE DEF r, u
<1>4. \A i \in 1..Len(u) : i \in Nat /\ i + 1 \in 1..Len(p) /\ 1 < i + 1 /\ u[i] = p[i + 1]
  BY <1>2
<1>5. \A i \in 1..Len(r) : i \in 1..Len(q) \/ i = Len(q) + 1
  BY <1>3
<1>6. 1 \in 1..Len(p)
  BY <1>2
<1>7. \A i \in 1..Len(r) : t < r[i] /\ r[i] <= n
  BY <1>1, <1>3, <1>5, <1>6
<1>8. \A i, j \in 1..Len(r) : i < j => r[i] < r[j]
  <2> SUFFICES ASSUME NEW i \in 1..Len(r), NEW j \in 1..Len(r), i < j PROVE r[i] < r[j]
    OBVIOUS
  <2>1. i \in 1..Len(q)
    BY <1>3
  <2> QED
    BY <1>1, <1>3, <1>5, <1>6, <2>1
<1>9. \A i \in 1..Len(u) : t < u[i] /\ u[i] <= n
  BY <1>1, <1>4
<1>10. \A i, j \in 1..Len(u) : i < j => u[i] < u[j]
  <2> SUFFICES ASSUME NEW i \in 1..Len(u), NEW j \in 1..Len(u), i < j PROVE u[i] < u[j]
    OBVIOUS
  <2>1. i + 1 < j + 1
    OBVIOUS
  <2> QED
    BY <1>1, <1>4, <2>1
<1>11. \A i \in 1..Len(r), j \in 1..Len(u) : r[i] < u[j]
  BY <1>1, <1>3, <1>4, <1>5, <1>6
<1> QED
  BY <1>1, <1>7, <1>8, <1>9, <1>10, <1>11 DEF Ordered, r, u

(* The queue without its first message, taken or not. *)
LEMMA OrderedTaken ==
    ASSUME NEW t \in Nat, NEW n \in Nat, NEW q \in Seq(Messages), NEW p \in Seq(Messages),
           q # << >>, Ordered(t, q, p, n)
    PROVE  /\ t < Head(q) /\ Head(q) <= n
           /\ Ordered(Head(q), Tail(q), p, n) /\ Ordered(t, Tail(q), p, n)
<1> DEFINE u == Tail(q)
<1>1. /\ \A i \in 1..Len(q) : q[i] \in Nat /\ t < q[i] /\ q[i] <= n
      /\ \A i \in 1..Len(p) : p[i] \in Nat /\ t < p[i] /\ p[i] <= n
      /\ \A i, j \in 1..Len(q) : i < j => q[i] < q[j]
      /\ \A i, j \in 1..Len(p) : i < j => p[i] < p[j]
      /\ \A i \in 1..Len(q), j \in 1..Len(p) : q[i] < p[j]
      /\ t <= n
  BY DEF Ordered, Messages
<1>2. /\ Len(q) \in Nat /\ Len(q) >= 1 /\ Head(q) = q[1]
      /\ Len(u) = Len(q) - 1 /\ \A i \in 1..Len(q) - 1 : u[i] = q[i + 1]
  BY TailFacts
<1> HIDE DEF u
<1>3. 1 \in 1..Len(q)
  BY <1>2
<1>4. \A i \in 1..Len(u) : i \in Nat /\ i + 1 \in 1..Len(q) /\ 1 < i + 1 /\ u[i] = q[i + 1]
  BY <1>2
<1>5. t < Head(q) /\ Head(q) <= n /\ Head(q) \in Nat
  BY <1>1, <1>2, <1>3
<1>6. \A i \in 1..Len(u) : Head(q) < u[i] /\ t < u[i] /\ u[i] <= n
  BY <1>1, <1>2, <1>3, <1>4
<1>7. \A i \in 1..Len(p) : Head(q) < p[i]
  BY <1>1, <1>2, <1>3
<1>8. \A i, j \in 1..Len(u) : i < j => u[i] < u[j]
  <2> SUFFICES ASSUME NEW i \in 1..Len(u), NEW j \in 1..Len(u), i < j PROVE u[i] < u[j]
    OBVIOUS
  <2>1. i + 1 < j + 1
    OBVIOUS
  <2> QED
    BY <1>1, <1>4, <2>1
<1>9. \A i \in 1..Len(u), j \in 1..Len(p) : u[i] < p[j]
  BY <1>1, <1>4
<1> QED
  BY <1>1, <1>5, <1>6, <1>7, <1>8, <1>9 DEF Ordered, u

(***************************************************************************)
(* The invariant is kept by every step.                                    *)
(***************************************************************************)

(* What a step leaves alone of a subscriber. *)
LEMMA OthersKeep ==
    ASSUME NEW r \in Subscribers, SInv(r), UNCHANGED sent,
           r \in alive => r \in alive', r \in missed => r \in missed',
           r \in alive' => r \in alive,
           pipe'[r] = pipe[r], queue'[r] = queue[r], waiting'[r] = waiting[r],
           buf'[r] = buf[r], last'[r] = last[r], taken'[r] = taken[r]
    PROVE  SInv(r)'
<1>1. Gone(r)' /\ BufIsLast(r)'
  BY DEF SInv, Gone, BufIsLast
<1>2. InOrder(r)'
  BY DEF SInv, InOrder
<1>3. LatestAhead(r)'
  BY DEF SInv, LatestAhead
<1> QED
  BY <1>1, <1>2, <1>3 DEF SInv

LEMMA InitIInv == Init => IInv
<1> SUFFICES ASSUME Init PROVE IInv
  OBVIOUS
<1>1. << >> \in Seq(Values) /\ << >> \in Seq(Messages)
  OBVIOUS
<1>2. Len(<< >>) = 0
  OBVIOUS
<1>3. TypeOK
  <2>1. \A s \in Subscribers : waiting[s] + Len(queue[s]) <= calls[s]
    <3> SUFFICES ASSUME NEW s \in Subscribers PROVE waiting[s] + Len(queue[s]) <= calls[s]
      OBVIOUS
    <3>1. waiting[s] = 0 /\ queue[s] = << >> /\ calls[s] = 0
      BY DEF Init
    <3> QED
      BY <1>2, <3>1
  <2>2. calls \in [Subscribers -> 0..MaxCalls] /\ waiting \in [Subscribers -> 0..MaxCalls]
    BY PubSubAssumption DEF Init
  <2>3. pipe \in [Subscribers -> Seq(Messages)] /\ queue \in [Subscribers -> Seq(Messages)]
    BY <1>1 DEF Init
  <2> QED
    BY <1>1, <2>1, <2>2, <2>3, PubSubAssumption DEF Init, TypeOK, Messages
<1>4. ASSUME NEW s \in Subscribers PROVE SInv(s)
  <2>1. /\ pipe[s] = << >> /\ queue[s] = << >> /\ waiting[s] = 0 /\ taken[s] = 0
        /\ last[s] = Initial /\ sent = << >>
    BY DEF Init
  <2> QED
    BY <1>2, <2>1 DEF SInv, Gone, BufIsLast, InOrder, Ordered, LatestAhead
<1> QED
  BY <1>3, <1>4 DEF IInv

LEMMA SendKeeps ==
    ASSUME IInv, NEW v \in Values, Send(v)
    PROVE  IInv'
<1>1. /\ sent \in Seq(Values) /\ sent' = Append(sent, v) /\ Len(sent) \in Nat
      /\ Len(sent') = Len(sent) + 1 /\ sent' # << >> /\ sent' \in Seq(Values)
      /\ Len(sent) + 1 \in Messages
  <2>1. sent \in Seq(Values) /\ sent' = Append(sent, v)
    BY DEF Send, IInv, TypeOK
  <2> QED
    BY <2>1, AppendProperties, LenProperties DEF Messages
<1>2. \A s \in Subscribers :
        pipe'[s] = IF s \in Reached THEN Append(pipe[s], Len(sent) + 1) ELSE pipe[s]
  BY DEF Send
<1>3. TypeOK'
  <2>1. \A s \in Subscribers : pipe'[s] \in Seq(Messages)
    <3> SUFFICES ASSUME NEW s \in Subscribers PROVE pipe'[s] \in Seq(Messages)
      OBVIOUS
    <3>1. pipe[s] \in Seq(Messages)
      BY DEF IInv, TypeOK, Messages
    <3> QED
      BY <1>1, <1>2, <3>1, AppendFacts
  <2>2. pipe' \in [Subscribers -> Seq(Messages)]
    BY <2>1 DEF Send
  <2> QED
    BY <1>1, <2>2 DEF Send, process, IInv, TypeOK, Messages
<1>4. ASSUME NEW s \in Subscribers PROVE SInv(s)'
  <2>1. pipe[s] \in Seq(Messages) /\ queue[s] \in Seq(Messages) /\ taken[s] \in Nat /\ SInv(s)
    BY DEF IInv, TypeOK, Messages
  <2>2. UNCHANGED <<alive, waiting[s], queue[s], buf[s], last[s], taken[s]>>
    BY DEF Send, process
  <2>3. CASE s \in Reached
    <3>1. s \in alive
      BY <2>3 DEF Reached, IInv, TypeOK
    <3>2. pipe'[s] = Append(pipe[s], Len(sent) + 1)
      BY <1>2, <2>3
    <3>3. /\ Len(pipe'[s]) = Len(pipe[s]) + 1 /\ pipe'[s] # << >> /\ Len(pipe[s]) \in Nat
          /\ \A i \in 1..Len(pipe[s]) : pipe'[s][i] = pipe[s][i]
          /\ pipe'[s][Len(pipe[s]) + 1] = Len(sent) + 1
      <4> DEFINE m == Len(sent) + 1
                 q == pipe[s]
      <4>1. m \in Messages /\ q \in Seq(Messages) /\ pipe'[s] = Append(q, m)
        BY <1>1, <2>1, <3>2
      <4> HIDE DEF m, q
      <4>2. /\ Len(Append(q, m)) = Len(q) + 1 /\ Append(q, m) # << >> /\ Len(q) \in Nat
            /\ \A i \in 1..Len(q) : Append(q, m)[i] = q[i]
            /\ Append(q, m)[Len(q) + 1] = m
        BY <4>1, AppendFacts
      <4>3. /\ Len(pipe'[s]) = Len(q) + 1 /\ pipe'[s] # << >> /\ Len(q) \in Nat
            /\ \A i \in 1..Len(q) : pipe'[s][i] = q[i]
            /\ pipe'[s][Len(q) + 1] = m
        BY <4>1, <4>2
      <4> QED
        BY <4>3 DEF m, q
    <3>4. Gone(s)' /\ BufIsLast(s)'
      BY <2>1, <2>2, <3>1 DEF SInv, Gone, BufIsLast
    <3>5. Ordered(taken[s], queue[s], pipe[s], Len(sent))
      BY <2>1 DEF SInv, InOrder
    <3>6. Ordered(taken[s], queue[s], pipe'[s], Len(sent) + 1)
      BY <1>1, <2>1, <3>2, <3>5, OrderedSent
    <3>7. InOrder(s)'
      BY <1>1, <2>2, <3>6 DEF InOrder
    <3>8. LatestAhead(s)'
      BY <1>1, <3>3 DEF LatestAhead
    <3> QED
      BY <3>4, <3>7, <3>8 DEF SInv
  <2>4. CASE s \notin Reached
    <3>1. pipe'[s] = pipe[s] /\ s \in missed'
      BY <1>2, <2>4 DEF Send
    <3>2. Ordered(taken[s], queue[s], pipe[s], Len(sent))
      BY <2>1 DEF SInv, InOrder
    <3>3. Ordered(taken[s], queue[s], pipe[s], Len(sent) + 1)
      BY <1>1, <2>1, <3>2, OrderedSent
    <3>4. InOrder(s)'
      BY <1>1, <2>2, <3>1, <3>3 DEF InOrder
    <3> QED
      BY <2>1, <2>2, <3>1, <3>4 DEF SInv, Gone, BufIsLast, LatestAhead
  <2> QED
    BY <2>3, <2>4
<1> QED
  BY <1>3, <1>4 DEF IInv

LEMMA StopPublisherKeeps ==
    ASSUME IInv, StopPublisher
    PROVE  IInv'
<1>1. PICK kept \in [Subscribers -> 0..Capacity] :
        /\ \A s \in Subscribers : kept[s] <= Len(pipe[s])
        /\ pipe' = [s \in Subscribers |-> SubSeq(pipe[s], 1, kept[s])]
        /\ missed' = missed \cup {s \in Subscribers : kept[s] < Len(pipe[s])}
  BY DEF StopPublisher
<1>2. ASSUME NEW s \in Subscribers
      PROVE  /\ pipe[s] \in Seq(Messages) /\ kept[s] \in Nat /\ Len(pipe[s]) \in Nat
             /\ pipe'[s] \in Seq(Messages) /\ Len(pipe'[s]) = kept[s] /\ kept[s] <= Len(pipe[s])
             /\ \A i \in 1..kept[s] : pipe'[s][i] = pipe[s][i]
             /\ kept[s] = Len(pipe[s]) => pipe'[s] = pipe[s]
  <2>1. pipe[s] \in Seq(Messages) /\ kept[s] \in Nat /\ kept[s] <= Len(pipe[s])
    BY <1>1, PubSubAssumption DEF IInv, TypeOK, Messages
  <2>2. pipe'[s] = SubSeq(pipe[s], 1, kept[s])
    BY <1>1
  <2> QED
    BY <2>1, <2>2, SubSeqFacts
<1>3. TypeOK'
  <2>1. pipe' \in [Subscribers -> Seq(Messages)]
    BY <1>1, <1>2
  <2> QED
    BY <1>1, <2>1 DEF StopPublisher, process, IInv, TypeOK, Messages
<1>4. ASSUME NEW s \in Subscribers PROVE SInv(s)'
  <2>1. SInv(s) /\ UNCHANGED <<sent, alive, waiting, queue, buf, last, taken>>
    BY DEF IInv, StopPublisher, process
  <2>2. Gone(s)'
    <3>1. pipe[s] = << >> => kept[s] = 0 /\ Len(pipe[s]) = 0
      BY <1>2
    <3>2. pipe[s] = << >> => pipe'[s] = << >>
      BY <1>2, <3>1
    <3>3. s \in missed => s \in missed'
      BY <1>1
    <3> QED
      BY <2>1, <3>2, <3>3 DEF SInv, Gone
  <2>3. BufIsLast(s)'
    BY <2>1 DEF SInv, BufIsLast
  <2>4. InOrder(s)'
    <3>1. /\ \A i \in 1..kept[s] : i \in 1..Len(pipe[s])
          /\ \A i \in 1..Len(pipe'[s]) : i \in 1..kept[s] /\ pipe'[s][i] = pipe[s][i]
      BY <1>2
    <3>2. Ordered(taken[s], queue[s], pipe[s], Len(sent))
      BY <2>1 DEF SInv, InOrder
    <3>3. Ordered(taken[s], queue[s], pipe'[s], Len(sent))
      BY <3>1, <3>2 DEF Ordered
    <3> QED
      BY <2>1, <3>3 DEF InOrder
  <2>5. LatestAhead(s)'
    <3>1. CASE kept[s] = Len(pipe[s])
      BY <1>1, <1>2, <2>1, <3>1 DEF SInv, LatestAhead
    <3>2. CASE kept[s] < Len(pipe[s])
      BY <1>1, <3>2 DEF LatestAhead
    <3> QED
      BY <1>2, <3>1, <3>2
  <2> QED
    BY <2>2, <2>3, <2>4, <2>5 DEF SInv
<1> QED
  BY <1>3, <1>4 DEF IInv

LEMMA ReceiveKeeps ==
    ASSUME IInv, NEW s \in Subscribers, Receive(s)
    PROVE  IInv'
<1> DEFINE p == pipe[s]
           q == queue[s]
<1>1. /\ p \in Seq(Messages) /\ q \in Seq(Messages) /\ p # << >>
      /\ waiting[s] > 0 /\ waiting[s] \in 0..MaxCalls /\ taken[s] \in Nat /\ Len(sent) \in Nat
  BY DEF Receive, IInv, TypeOK, Messages
<1>2. /\ pipe' = [pipe EXCEPT ![s] = Tail(p)]
      /\ queue' = [queue EXCEPT ![s] = Append(q, Head(p))]
      /\ buf' = [buf EXCEPT ![s] = Head(p)]
      /\ waiting' = [waiting EXCEPT ![s] = @ - 1]
  BY DEF Receive
<1>3. /\ pipe'[s] = Tail(p) /\ queue'[s] = Append(q, Head(p)) /\ buf'[s] = Head(p)
      /\ waiting'[s] = waiting[s] - 1
  BY <1>2 DEF IInv, TypeOK
<1>4. /\ Head(p) \in Messages /\ Head(p) = p[1] /\ Tail(p) \in Seq(Messages)
      /\ Len(Tail(p)) = Len(p) - 1 /\ Len(p) \in Nat /\ Len(p) >= 1
      /\ \A i \in 1..Len(p) - 1 : Tail(p)[i] = p[i + 1]
      /\ Tail(p) = << >> <=> Len(p) = 1
  BY <1>1, TailFacts
<1>5. /\ Append(q, Head(p)) \in Seq(Messages) /\ Len(Append(q, Head(p))) = Len(q) + 1
      /\ \A i \in 1..Len(q) : Append(q, Head(p))[i] = q[i]
      /\ Append(q, Head(p))[Len(q) + 1] = Head(p)
      /\ Append(q, Head(p)) # << >> /\ Len(q) \in Nat
  BY <1>1, <1>4, AppendFacts
<1>6. TypeOK'
  <2>1. \A r \in Subscribers : waiting'[r] + Len(queue'[r]) <= calls[r]
    <3>1. waiting[s] + Len(q) <= calls[s] /\ calls[s] \in Nat
      BY PubSubAssumption DEF IInv, TypeOK
    <3>2. waiting'[s] + Len(queue'[s]) <= calls[s]
      BY <1>1, <1>3, <1>5, <3>1, PubSubAssumption
    <3> QED
      BY <1>2, <3>2 DEF IInv, TypeOK
  <2>2. pipe' \in [Subscribers -> Seq(Messages)] /\ queue' \in [Subscribers -> Seq(Messages)]
    BY <1>2, <1>4, <1>5 DEF IInv, TypeOK, Messages
  <2>3. buf' \in [Subscribers -> Nat] /\ waiting' \in [Subscribers -> 0..MaxCalls]
    <3>1. Head(p) \in Nat /\ waiting[s] - 1 \in 0..MaxCalls
      BY <1>1, <1>4, PubSubAssumption DEF Messages
    <3> QED
      BY <1>2, <3>1 DEF IInv, TypeOK
  <2> QED
    BY <2>1, <2>2, <2>3 DEF Receive, publisher, process, IInv, TypeOK, Messages
<1>7. \A r \in Subscribers \ {s} : SInv(r)'
  BY <1>2 DEF Receive, publisher, process, IInv, SInv, Gone, BufIsLast, InOrder, LatestAhead
<1>8. SInv(s)'
  <2>1. SInv(s) /\ UNCHANGED <<sent, alive, last, taken, missed>>
    BY DEF IInv, Receive, publisher, process
  <2>2. Gone(s)'
    BY <1>1, <2>1 DEF SInv, Gone
  <2>3. BufIsLast(s)'
    BY <1>3, <1>5 DEF BufIsLast
  <2>4. Ordered(taken[s], q, p, Len(sent))
    BY <2>1 DEF SInv, InOrder
  <2>5. InOrder(s)'
    <3>1. Ordered(taken[s], Append(q, Head(p)), Tail(p), Len(sent))
      BY <1>1, <2>4, OrderedReceived
    <3> QED
      BY <1>3, <2>1, <3>1 DEF InOrder
  <2>6. LatestAhead(s)'
    <3>1. CASE Len(p) = 1
      BY <1>1, <1>3, <1>4, <1>5, <2>1, <3>1 DEF SInv, LatestAhead
    <3>2. CASE Len(p) # 1
      <4>1. Tail(p) # << >> /\ Tail(p)[Len(Tail(p))] = p[Len(p)]
        BY <1>4, <3>2
      <4> QED
        BY <1>1, <1>3, <2>1, <4>1 DEF SInv, LatestAhead
    <3> QED
      BY <3>1, <3>2
  <2> QED
    BY <2>2, <2>3, <2>5, <2>6 DEF SInv
<1> QED
  BY <1>6, <1>7, <1>8 DEF IInv

LEMMA EndKeeps ==
    ASSUME IInv, NEW s \in Subscribers, End(s), UNCHANGED publisher
    PROVE  IInv'
<1>1. << >> \in Seq(Messages) /\ Len(<< >>) = 0
  OBVIOUS
<1>2. /\ pipe'[s] = << >> /\ queue'[s] = << >> /\ waiting'[s] = 0 /\ calls'[s] = 0
      /\ s \in missed' /\ missed \subseteq missed'
  BY DEF End, IInv, TypeOK
<1>3. TypeOK'
  <2>1. pipe' \in [Subscribers -> Seq(Messages)] /\ queue' \in [Subscribers -> Seq(Messages)]
    BY <1>1 DEF End, IInv, TypeOK, Messages
  <2>2. \A r \in Subscribers : waiting'[r] + Len(queue'[r]) <= calls'[r]
    BY <1>1, <1>2 DEF End, IInv, TypeOK
  <2>3. calls' \in [Subscribers -> 0..MaxCalls] /\ waiting' \in [Subscribers -> 0..MaxCalls]
    BY PubSubAssumption DEF End, IInv, TypeOK
  <2> QED
    BY <2>1, <2>2, <2>3 DEF End, publisher, IInv, TypeOK, Messages
<1>4. \A r \in Subscribers \ {s} : SInv(r)'
  BY <1>2 DEF End, publisher, IInv, SInv, Gone, BufIsLast, InOrder, LatestAhead
<1>5. SInv(s)'
  <2>1. InOrder(s)'
    <3>1. taken[s] <= Len(sent) /\ taken'[s] = taken[s] /\ sent' = sent
      BY DEF End, publisher, IInv, SInv, InOrder, Ordered
    <3> QED
      BY <1>1, <1>2, <3>1 DEF InOrder, Ordered
  <2> QED
    BY <1>2, <2>1 DEF SInv, Gone, BufIsLast, LatestAhead
<1> QED
  BY <1>3, <1>4, <1>5 DEF IInv

(* What a handler leaves: the rest of the queue. *)
LEMMA QueueShrinks ==
    ASSUME IInv, NEW s \in Subscribers, queue[s] # << >>
    PROVE  /\ queue[s] \in Seq(Messages) /\ Head(queue[s]) = queue[s][1]
           /\ Tail(queue[s]) \in Seq(Messages) /\ Len(Tail(queue[s])) = Len(queue[s]) - 1
           /\ Len(queue[s]) \in Nat /\ Len(queue[s]) >= 1
           /\ \A i \in 1..Len(queue[s]) - 1 : Tail(queue[s])[i] = queue[s][i + 1]
           /\ Tail(queue[s]) = << >> <=> Len(queue[s]) = 1
           /\ Head(queue[s]) \in 1..Len(sent) /\ sent[Head(queue[s])] \in Values
           /\ taken[s] < Head(queue[s])
           /\ Tail(queue[s]) = << >> => Own(s)
           /\ Tail(queue[s]) # << >> =>
                 Tail(queue[s])[Len(Tail(queue[s]))] = queue[s][Len(queue[s])]
<1>1. queue[s] \in Seq(Messages) /\ sent \in Seq(Values) /\ SInv(s)
  BY DEF IInv, TypeOK, Messages
<1>2. /\ Head(queue[s]) \in Messages /\ Head(queue[s]) = queue[s][1]
      /\ Tail(queue[s]) \in Seq(Messages) /\ Len(Tail(queue[s])) = Len(queue[s]) - 1
      /\ Len(queue[s]) \in Nat /\ Len(queue[s]) >= 1
      /\ \A i \in 1..Len(queue[s]) - 1 : Tail(queue[s])[i] = queue[s][i + 1]
      /\ Tail(queue[s]) = << >> <=> Len(queue[s]) = 1
  BY <1>1, TailFacts
<1>3. taken[s] < Head(queue[s]) /\ Head(queue[s]) <= Len(sent)
  <2>1. taken[s] \in Nat /\ Len(sent) \in Nat /\ pipe[s] \in Seq(Messages)
    BY DEF IInv, TypeOK, Messages
  <2> QED
    BY <1>1, <2>1, OrderedTaken DEF SInv, InOrder
<1>4. Head(queue[s]) \in 1..Len(sent) /\ sent[Head(queue[s])] \in Values
  BY <1>1, <1>2, <1>3 DEF Messages
<1>5. Tail(queue[s]) = << >> => Own(s)
  BY <1>1, <1>2 DEF SInv, BufIsLast, Own
<1> QED
  BY <1>1, <1>2, <1>3, <1>4, <1>5

LEMMA TakeKeeps ==
    ASSUME IInv, NEW s \in Subscribers, queue[s] # << >>, Take(s), UNCHANGED publisher
    PROVE  IInv'
<1> DEFINE q == queue[s]
<1>1. PICK v \in Found(s) :
        /\ v \in Proper
        /\ last' = [last EXCEPT ![s] = v]
        /\ waiting' = [waiting EXCEPT ![s] = waiting[s] + 1]
        /\ taken' = [taken EXCEPT ![s] = Head(q)]
        /\ queue' = [queue EXCEPT ![s] = Tail(q)]
        /\ UNCHANGED <<joined, pipe, process, buf, missed>>
  BY DEF Take, Parsed, NewState, Again
<1>2. /\ last'[s] = v /\ waiting'[s] = waiting[s] + 1 /\ taken'[s] = Head(q)
      /\ queue'[s] = Tail(q)
  BY <1>1 DEF IInv, TypeOK
<1>3. /\ waiting[s] \in Nat /\ calls[s] \in 0..MaxCalls /\ waiting[s] + Len(q) <= calls[s]
      /\ pipe[s] \in Seq(Messages) /\ Len(sent) \in Nat /\ taken[s] \in Nat /\ SInv(s)
  BY PubSubAssumption DEF IInv, TypeOK, Messages
<1>4. TypeOK'
  <2>1. waiting'[s] + Len(queue'[s]) <= calls[s] /\ waiting'[s] \in 0..MaxCalls
    BY <1>2, <1>3, QueueShrinks, PubSubAssumption
  <2>2. \A r \in Subscribers : waiting'[r] + Len(queue'[r]) <= calls[r]
    BY <1>1, <2>1 DEF IInv, TypeOK
  <2>3. waiting' \in [Subscribers -> 0..MaxCalls]
    BY <1>1, <1>2, <2>1 DEF IInv, TypeOK
  <2>4. queue' \in [Subscribers -> Seq(Messages)] /\ taken' \in [Subscribers -> Nat]
    BY <1>1, QueueShrinks DEF IInv, TypeOK, Messages
  <2> QED
    BY <1>1, <2>2, <2>3, <2>4 DEF publisher, process, IInv, TypeOK, Messages
<1>5. \A r \in Subscribers \ {s} : SInv(r)'
  <2> SUFFICES ASSUME NEW r \in Subscribers \ {s} PROVE SInv(r)'
    OBVIOUS
  <2>1. /\ queue'[r] = queue[r] /\ waiting'[r] = waiting[r] /\ last'[r] = last[r]
        /\ taken'[r] = taken[r] /\ SInv(r)
        /\ UNCHANGED <<sent, alive, missed, pipe, buf>>
    BY <1>1 DEF publisher, process, IInv, TypeOK
  <2> QED
    BY <2>1, OthersKeep
<1>6. SInv(s)'
  <2>1. UNCHANGED <<sent, alive, pipe, buf, missed>>
    BY <1>1 DEF publisher, process
  <2>2. Gone(s)' /\ BufIsLast(s)'
    BY <1>2, <1>3, <2>1, QueueShrinks DEF SInv, Gone, BufIsLast
  <2>3. Ordered(Head(q), Tail(q), pipe[s], Len(sent))
    BY <1>3, QueueShrinks, OrderedTaken DEF SInv, InOrder
  <2>4. InOrder(s)'
    BY <1>2, <2>1, <2>3 DEF InOrder
  <2>5. LatestAhead(s)'
    <3>1. CASE Tail(q) = << >>
      <4>1. v = sent[Head(q)] /\ Head(q) = q[Len(q)] /\ sent # << >>
        BY <3>1, QueueShrinks DEF Found, Own
      <4> QED
        BY <1>2, <1>3, <2>1, <3>1, <4>1 DEF SInv, LatestAhead
    <3>2. CASE Tail(q) # << >>
      BY <1>2, <1>3, <2>1, <3>2, QueueShrinks DEF SInv, LatestAhead
    <3> QED
      BY <3>1, <3>2
  <2> QED
    BY <2>2, <2>4, <2>5 DEF SInv
<1> QED
  BY <1>4, <1>5, <1>6 DEF IInv

LEMMA GoDeafKeeps ==
    ASSUME IInv, NEW s \in Subscribers, queue[s] # << >>, GoDeaf(s), UNCHANGED publisher
    PROVE  IInv'
<1> DEFINE q == queue[s]
<1>1. /\ queue' = [queue EXCEPT ![s] = Tail(q)]
      /\ missed' = IF Head(q) = Len(sent) THEN missed \cup {s} ELSE missed
      /\ UNCHANGED <<joined, pipe, alive, calls, waiting, buf, last, taken, sent, up>>
  BY DEF GoDeaf, process, publisher
<1>2. queue'[s] = Tail(q)
  BY <1>1 DEF IInv, TypeOK
<1>3. /\ waiting[s] \in Nat /\ calls[s] \in Nat /\ waiting[s] + Len(q) <= calls[s]
      /\ pipe[s] \in Seq(Messages) /\ Len(sent) \in Nat /\ taken[s] \in Nat /\ SInv(s)
  BY PubSubAssumption DEF IInv, TypeOK, Messages
<1>4. TypeOK'
  <2>1. waiting'[s] + Len(queue'[s]) <= calls[s]
    BY <1>1, <1>2, <1>3, QueueShrinks
  <2>2. \A r \in Subscribers : waiting'[r] + Len(queue'[r]) <= calls[r]
    BY <1>1, <2>1 DEF IInv, TypeOK
  <2>3. queue' \in [Subscribers -> Seq(Messages)]
    BY <1>1, QueueShrinks DEF IInv, TypeOK, Messages
  <2> QED
    BY <1>1, <2>2, <2>3 DEF IInv, TypeOK, Messages
<1>5. \A r \in Subscribers \ {s} : SInv(r)'
  <2> SUFFICES ASSUME NEW r \in Subscribers \ {s} PROVE SInv(r)'
    OBVIOUS
  <2>1. /\ queue'[r] = queue[r] /\ SInv(r)
        /\ r \in missed => r \in missed'
        /\ UNCHANGED <<sent, alive, waiting, last, taken, pipe, buf>>
    BY <1>1 DEF IInv, TypeOK
  <2> QED
    BY <2>1, OthersKeep
<1>6. SInv(s)'
  <2>1. Gone(s)' /\ BufIsLast(s)'
    BY <1>1, <1>2, <1>3, QueueShrinks DEF SInv, Gone, BufIsLast
  <2>2. Ordered(taken[s], Tail(q), pipe[s], Len(sent))
    BY <1>3, QueueShrinks, OrderedTaken DEF SInv, InOrder
  <2>3. InOrder(s)'
    BY <1>1, <1>2, <2>2 DEF InOrder
  <2>4. LatestAhead(s)'
    <3>1. CASE Tail(q) = << >> /\ pipe[s] = << >>
      BY <1>1, <1>3, <3>1, QueueShrinks DEF SInv, LatestAhead
    <3>2. CASE Tail(q) # << >> \/ pipe[s] # << >>
      BY <1>1, <1>2, <1>3, <3>2, QueueShrinks DEF SInv, LatestAhead
    <3> QED
      BY <3>1, <3>2
  <2> QED
    BY <2>1, <2>3, <2>4 DEF SInv
<1> QED
  BY <1>4, <1>5, <1>6 DEF IInv

LEMMA NextKeeps == IInv /\ [Next]_vars => IInv'
<1> SUFFICES ASSUME IInv, [Next]_vars PROVE IInv'
  OBVIOUS
<1>0. CASE UNCHANGED vars
  BY <1>0 DEF vars, publisher, process, IInv, TypeOK, SInv, Gone, BufIsLast, InOrder, LatestAhead
<1>1. CASE StartPublisher
  BY <1>1 DEF StartPublisher, process, IInv, TypeOK, SInv, Gone, BufIsLast, InOrder, LatestAhead
<1>2. CASE StopPublisher
  BY <1>2, StopPublisherKeeps
<1>3. ASSUME NEW v \in Values, Send(v) PROVE IInv'
  BY <1>3, SendKeeps
<1>4. ASSUME NEW s \in Subscribers, StartSubscriber(s) PROVE IInv'
  <2>1. TypeOK'
    BY <1>4, PubSubAssumption DEF StartSubscriber, publisher, IInv, TypeOK
  <2>2. ASSUME NEW r \in Subscribers, r # s PROVE SInv(r)'
    BY <1>4, <2>2 DEF StartSubscriber, publisher, IInv, TypeOK, SInv, Gone, BufIsLast, InOrder, LatestAhead
  <2>3. SInv(s)'
    <3>1. last'[s] = Initial
      BY <1>4 DEF StartSubscriber, IInv, TypeOK
    <3> QED
      BY <1>4, <3>1 DEF StartSubscriber, publisher, IInv, SInv, Gone, BufIsLast, InOrder, LatestAhead
  <2> QED
    BY <2>1, <2>2, <2>3 DEF IInv
<1>5. ASSUME NEW s \in Subscribers, Join(s) PROVE IInv'
  BY <1>5 DEF Join, publisher, process, IInv, TypeOK, SInv, Gone, BufIsLast, InOrder, LatestAhead
<1>6. ASSUME NEW s \in Subscribers, SetCallback(s) PROVE IInv'
  <2>1. TypeOK'
    <3>1. /\ calls[s] \in Nat /\ waiting[s] \in Nat /\ Len(queue[s]) \in Nat
          /\ waiting[s] + Len(queue[s]) <= calls[s] /\ calls[s] < MaxCalls
      BY <1>6, PubSubAssumption DEF SetCallback, IInv, TypeOK
    <3>2. calls' \in [Subscribers -> 0..MaxCalls] /\ waiting' \in [Subscribers -> 0..MaxCalls]
      BY <1>6, <3>1, PubSubAssumption DEF SetCallback, IInv, TypeOK
    <3>3. \A r \in Subscribers : waiting'[r] + Len(queue'[r]) <= calls'[r]
      BY <1>6, <3>1 DEF SetCallback, IInv, TypeOK
    <3> QED
      BY <1>6, <3>2, <3>3 DEF SetCallback, publisher, IInv, TypeOK
  <2>2. \A r \in Subscribers : SInv(r)'
    BY <1>6 DEF SetCallback, publisher, IInv, TypeOK, SInv, Gone, BufIsLast, InOrder, LatestAhead
  <2> QED
    BY <2>1, <2>2 DEF IInv
<1>7. ASSUME NEW s \in Subscribers, Receive(s) PROVE IInv'
  BY <1>7, ReceiveKeeps
<1>8. ASSUME NEW s \in Subscribers, Handle(s) PROVE IInv'
  <2>1. queue[s] # << >> /\ UNCHANGED publisher
    BY <1>8 DEF Handle
  <2>2. Take(s) \/ GoDeaf(s) \/ End(s)
    BY <1>8 DEF Handle, Throw
  <2> QED
    BY <2>1, <2>2, TakeKeeps, GoDeafKeeps, EndKeeps
<1>9. ASSUME NEW s \in Subscribers, StopSubscriber(s) PROVE IInv'
  BY <1>9, EndKeeps DEF StopSubscriber
<1> QED
  BY <1>0, <1>1, <1>2, <1>3, <1>4, <1>5, <1>6, <1>7, <1>8, <1>9 DEF Next

LEMMA AlwaysIInv == Spec => []IInv
BY InitIInv, NextKeeps, PTL DEF Spec

(***************************************************************************)
(* The theorems.                                                           *)
(***************************************************************************)

(* Type correctness: no chain of receives splits, _lastState is of type T. *)
THEOREM TypeCorrect == Spec => []TypeOK
<1>1. IInv => TypeOK
  BY DEF IInv
<1> QED
  BY <1>1, AlwaysIInv, PTL

(* A subscriber with nothing left to read holds the latest value. *)
THEOREM LatestHeld == Spec => []HoldsTheLatest
<1>1. IInv => HoldsTheLatest
  BY DEF IInv, SInv, LatestAhead, HoldsTheLatest, Idle
<1> QED
  BY <1>1, AlwaysIInv, PTL

(***************************************************************************)
(* The refinement.                                                         *)
(***************************************************************************)

(* A handler reads the text of its own message unless setCallback() was    *)
(* called more than once. *)
LEMMA OwnOrTwoCalls ==
    ASSUME IInv, NEW s \in Subscribers, queue[s] # << >>, ~Own(s)
    PROVE  calls[s] > 1
<1>1. /\ waiting[s] \in Nat /\ calls[s] \in Nat /\ waiting[s] + Len(queue[s]) <= calls[s]
  BY PubSubAssumption DEF IInv, TypeOK
<1>2. Tail(queue[s]) # << >>
  BY QueueShrinks
<1>3. \A w, n, c \in Nat : w + n <= c /\ n >= 1 /\ n # 1 => c > 1
  OBVIOUS
<1>4. Len(queue[s]) \in Nat /\ Len(queue[s]) >= 1 /\ Len(queue[s]) # 1
  BY <1>2, QueueShrinks
<1> QED
  BY <1>1, <1>3, <1>4

LEMMA TakeObserves ==
    ASSUME IInv, NEW s \in Subscribers, queue[s] # << >>, Take(s), UNCHANGED publisher
    PROVE  TheFeed!Observe(s) \/ Splices(s)
<1>1. PICK v \in Found(s) :
        /\ v \in Proper
        /\ last' = [last EXCEPT ![s] = v]
        /\ taken' = [taken EXCEPT ![s] = Head(queue[s])]
  BY DEF Take, Parsed, NewState
<1>2. /\ taken[s] \in Nat /\ Len(sent) \in Nat /\ sent' = sent
      /\ Head(queue[s]) \in 1..Len(sent) /\ taken[s] < Head(queue[s])
  BY QueueShrinks DEF publisher, IInv, TypeOK
<1>3. CASE Own(s)
  <2>1. v = sent[Head(queue[s])]
    BY <1>3 DEF Found, Own
  <2>2. Head(queue[s]) \in taken[s] + 1 .. Len(sent)
    BY <1>2
  <2>3. TheFeed!Observe(s)
    BY <1>1, <1>2, <2>1, <2>2 DEF TheFeed!Observe
  <2> QED
    BY <2>3
<1>4. CASE ~Own(s)
  <2>1. calls[s] > 1
    BY <1>4, OwnOrTwoCalls
  <2>2. Splices(s)
    BY <1>1, <1>2, <1>4, <2>1 DEF Splices
  <2> QED
    BY <2>2
<1> QED
  BY <1>3, <1>4

LEMMA StepsOfFeed ==
    ASSUME IInv, [Next]_vars
    PROVE  [TheFeed!Next \/ \E s \in Subscribers : Splices(s)]_<<sent, taken, last>>
<1>1. CASE UNCHANGED vars \/ StartPublisher \/ StopPublisher
  BY <1>1 DEF vars, publisher, StartPublisher, StopPublisher
<1>2. ASSUME NEW v \in Values, Send(v) PROVE TheFeed!Next
  BY <1>2 DEF Send, TheFeed!Next, TheFeed!Publish
<1>3. ASSUME NEW s \in Subscribers, StartSubscriber(s) PROVE TheFeed!Next
  BY <1>3 DEF StartSubscriber, publisher, TheFeed!Next, TheFeed!Restart
<1>4. ASSUME NEW s \in Subscribers, Join(s) \/ SetCallback(s) \/ Receive(s) \/ StopSubscriber(s)
      PROVE  UNCHANGED <<sent, taken, last>>
  BY <1>4 DEF Join, SetCallback, Receive, StopSubscriber, End, publisher
<1>5. ASSUME NEW s \in Subscribers, Handle(s)
      PROVE  TheFeed!Next \/ Splices(s) \/ UNCHANGED <<sent, taken, last>>
  <2>1. queue[s] # << >> /\ UNCHANGED publisher
    BY <1>5 DEF Handle
  <2>2. CASE Take(s)
    BY <2>1, <2>2, TakeObserves DEF TheFeed!Next
  <2>3. CASE GoDeaf(s) \/ Throw(s)
    BY <2>1, <2>3 DEF GoDeaf, Throw, End, publisher
  <2> QED
    BY <1>5, <2>2, <2>3 DEF Handle
<1> QED
  BY <1>1, <1>2, <1>3, <1>4, <1>5 DEF Next

(* What a subscriber takes are the publisher's values in the order sent,   *)
(* none twice, across restarts of both sides and losses in between. *)
THEOREM FeedRefinement == Spec => ImplementsFeed
<1>1. Init => TheFeed!Init
  BY DEF Init, TheFeed!Init
<1>2. IInv /\ [Next]_vars =>
        [TheFeed!Next \/ \E s \in Subscribers : Splices(s)]_<<sent, taken, last>>
  BY StepsOfFeed
<1> QED
  BY <1>1, <1>2, AlwaysIInv, PTL DEF Spec, ImplementsFeed
=============================================================================
