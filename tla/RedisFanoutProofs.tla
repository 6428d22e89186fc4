------------------------- MODULE RedisFanoutProofs -------------------------
(***************************************************************************)
(* Proofs about RedisFanout, for any workers and clients and any number of *)
(* messages of each.                                                       *)
(***************************************************************************)
EXTENDS RedisFanout, SequenceTheorems, TLAPS

(* Messages of one author come in the order they were sent.                *)
Rising(s) ==
  \A i, j \in 1..Len(s) : i < j /\ Author(s[i]) = Author(s[j]) => s[i][2] < s[j][2]

(* All messages of c in s come before its n-th.                            *)
Below(s, c, n) == \A i \in 1..Len(s) : Author(s[i]) = c => s[i][2] < n

(* What a worker has delivered or will: its log, then what waits for it.   *)
OrderKept(w) ==
  /\ Rising(log[w]) /\ Rising(mailbox[w])
  /\ \A c \in Clients : /\ Below(log[w], c, sent[c] + 1) /\ Below(mailbox[w], c, sent[c] + 1)
  /\ \A j \in 1..Len(mailbox[w]) :
       LET m == mailbox[w][j] IN Home[Author(m)] # w => Below(log[w], Author(m), m[2])

(* A message that is still to be published is nowhere but at its author's. *)
Unpublished(c) == stage[c] = "local" \/ Current(c) \in inflight
NotYetAt(c, w) ==
  Unpublished(c) =>
    /\ Below(mailbox[w], c, sent[c])
    /\ Home[c] # w => Below(log[w], c, sent[c])

(* p comes before q in what is delivered (s) or waits to be (t).           *)
Precedes(s, t, p, q) ==
  \/ \E i, j \in 1..Len(s) : i < j /\ s[i] = p /\ s[j] = q
  \/ \E i \in 1..Len(s), j \in 1..Len(t) : s[i] = p /\ t[j] = q
  \/ \E i, j \in 1..Len(t) : i < j /\ t[i] = p /\ t[j] = q
Foreign(m, w) == Home[Author(m)] # w
Agree ==
  \A w, v \in Workers : \A p, q \in Msgs :
    Foreign(p, w) /\ Foreign(p, v) /\ Foreign(q, w) /\ Foreign(q, v) =>
      ~(Precedes(log[w], mailbox[w], p, q) /\ Precedes(log[v], mailbox[v], q, p))

Sending(c) == stage[c] \in {"local", "publish"} => sent[c] >= 1

FanoutInv ==
  /\ TypeOK
  /\ \A c \in Clients : Sending(c)
  /\ \A w \in Workers : OrderKept(w)
  /\ \A c \in Clients, w \in Workers : NotYetAt(c, w)
  /\ Agree
  /\ NothingLostWithoutFault

------------------------------------------------------------------------------
(* Messages.                                                               *)
LEMMA MessageType ==
  ASSUME NEW m \in Msgs
  PROVE  /\ Author(m) \in Clients /\ m[2] \in 1..Sends[Author(m)] /\ m[2] \in Nat
         /\ m = <<Author(m), m[2]>> /\ Home[Author(m)] \in Workers
<1>1. PICK c \in Clients : m \in {c} \X (1..Sends[c])
  BY DEF Msgs
<1>2. m = <<c, m[2]>> /\ m[1] = c /\ m[2] \in 1..Sends[c]
  BY <1>1
<1> QED
  BY <1>2, FanoutAssumption DEF FanoutAssumption, Author

LEMMA MessageExists ==
  ASSUME NEW c \in Clients, NEW n \in 1..Sends[c]
  PROVE  <<c, n>> \in Msgs /\ Author(<<c, n>>) = c
BY DEF Msgs, Author

LEMMA SeqFacts ==
  ASSUME NEW s \in Seq(Msgs)
  PROVE  Len(s) \in Nat /\ \A i \in 1..Len(s) : s[i] \in Msgs
<1>1. Len(s) \in Nat
  BY LenProperties
<1>2. \A i \in 1..Len(s) : s[i] \in Msgs
  BY ElementOfSeq
<1> QED
  BY <1>1, <1>2

LEMMA AppendFacts ==
  ASSUME NEW s \in Seq(Msgs), NEW m \in Msgs
  PROVE  /\ Append(s, m) \in Seq(Msgs) /\ Len(Append(s, m)) = Len(s) + 1 /\ Len(s) \in Nat
         /\ \A i \in 1..Len(s) : Append(s, m)[i] = s[i]
         /\ Append(s, m)[Len(s) + 1] = m
         /\ \A i \in 1..(Len(s) + 1) : i \in 1..Len(s) \/ i = Len(s) + 1
<1>1. Len(s) \in Nat
  BY SeqFacts
<1> QED
  BY <1>1, AppendProperties

LEMMA TailFacts ==
  ASSUME NEW s \in Seq(Msgs), s # <<>>
  PROVE  /\ Head(s) \in Msgs /\ Head(s) = s[1] /\ Tail(s) \in Seq(Msgs)
         /\ Len(s) \in Nat /\ Len(s) >= 1 /\ Len(Tail(s)) = Len(s) - 1
         /\ \A i \in 1..Len(Tail(s)) : Tail(s)[i] = s[i + 1] /\ i + 1 \in 1..Len(s)
<1>1. Len(s) \in Nat \ {0}
  BY EmptySeq
<1>2. /\ Head(s) \in Msgs /\ Tail(s) \in Seq(Msgs) /\ Len(Tail(s)) = Len(s) - 1
      /\ \A i \in 1..Len(Tail(s)) : Tail(s)[i] = s[i + 1]
  BY HeadTailProperties
<1>3. \A i \in 1..Len(Tail(s)) : i + 1 \in 1..Len(s)
  BY <1>1, <1>2
<1>4. Head(s) = s[1]
  BY <1>1
<1> QED
  BY <1>1, <1>2, <1>3, <1>4

LEMMA ToSetAppend ==
  ASSUME NEW s \in Seq(Msgs), NEW m \in Msgs
  PROVE  ToSet(Append(s, m)) = ToSet(s) \cup {m}
<1>1. DOMAIN s = 1..Len(s) /\ DOMAIN Append(s, m) = 1..(Len(s) + 1)
  <2>1. Append(s, m) \in Seq(Msgs) /\ Len(Append(s, m)) = Len(s) + 1
    BY AppendFacts
  <2> QED
    BY <2>1, LenProperties
<1>2. \A i \in 1..Len(s) : i \in 1..(Len(s) + 1)
  BY AppendFacts
<1>3. Len(s) + 1 \in 1..(Len(s) + 1)
  BY AppendFacts
<1> QED
  BY <1>1, <1>2, <1>3, AppendFacts DEF ToSet

LEMMA ToSetTail ==
  ASSUME NEW s \in Seq(Msgs), s # <<>>
  PROVE  ToSet(s) = {Head(s)} \cup ToSet(Tail(s))
<1>1. DOMAIN s = 1..Len(s) /\ DOMAIN Tail(s) = 1..Len(Tail(s))
  BY TailFacts, LenProperties
<1>2. ToSet(s) = {s[i] : i \in 1..Len(s)} /\ ToSet(Tail(s)) = {Tail(s)[i] : i \in 1..Len(Tail(s))}
  BY <1>1 DEF ToSet
<1>3. ASSUME NEW i \in 1..Len(s) PROVE i = 1 \/ (i - 1 \in 1..Len(Tail(s)) /\ s[i] = Tail(s)[i - 1])
  <2>1. i = 1 \/ i - 1 \in 1..Len(Tail(s))
    BY TailFacts
  <2>2. (i - 1) + 1 = i
    OBVIOUS
  <2> QED
    BY <2>1, <2>2, TailFacts
<1>4. ToSet(s) \subseteq {s[1]} \cup ToSet(Tail(s))
  <2> SUFFICES ASSUME NEW i \in 1..Len(s) PROVE s[i] \in {s[1]} \cup ToSet(Tail(s))
    BY <1>2
  <2>1. i = 1 \/ (i - 1 \in 1..Len(Tail(s)) /\ s[i] = Tail(s)[i - 1])
    BY <1>3
  <2> QED
    BY <1>2, <2>1
<1>5. s[1] \in ToSet(s) /\ ToSet(Tail(s)) \subseteq ToSet(s)
  <2>1. 1 \in 1..Len(s)
    BY TailFacts
  <2> QED
    BY <1>2, <2>1, TailFacts
<1> QED
  BY <1>4, <1>5, TailFacts

LEMMA RisingAppend ==
  ASSUME NEW s \in Seq(Msgs), NEW m \in Msgs, Rising(s), Below(s, Author(m), m[2])
  PROVE  Rising(Append(s, m))
<1> SUFFICES ASSUME NEW i \in 1..(Len(s) + 1), NEW j \in 1..(Len(s) + 1), i < j,
                    Author(Append(s, m)[i]) = Author(Append(s, m)[j])
             PROVE  Append(s, m)[i][2] < Append(s, m)[j][2]
  BY AppendFacts DEF Rising
<1>1. Len(s) \in Nat /\ i \in 1..Len(s) /\ Append(s, m)[i] = s[i]
  BY AppendFacts
<1>2. CASE j = Len(s) + 1
  BY <1>1, <1>2, AppendFacts DEF Below
<1>3. CASE j \in 1..Len(s)
  BY <1>1, <1>3, AppendFacts DEF Rising
<1> QED
  BY <1>2, <1>3, AppendFacts

LEMMA RisingTail ==
  ASSUME NEW s \in Seq(Msgs), s # <<>>, Rising(s)
  PROVE  /\ Rising(Tail(s))
         /\ \A j \in 1..Len(Tail(s)) : Author(Tail(s)[j]) = Author(s[1]) => s[1][2] < Tail(s)[j][2]
<1>1. ASSUME NEW i \in 1..Len(Tail(s)), NEW j \in 1..Len(Tail(s)), i < j,
             Author(Tail(s)[i]) = Author(Tail(s)[j])
      PROVE  Tail(s)[i][2] < Tail(s)[j][2]
  <2>1. /\ i + 1 \in 1..Len(s) /\ j + 1 \in 1..Len(s) /\ i + 1 < j + 1
        /\ Tail(s)[i] = s[i + 1] /\ Tail(s)[j] = s[j + 1]
    BY <1>1, TailFacts
  <2> QED
    BY <1>1, <2>1 DEF Rising
<1>2. ASSUME NEW j \in 1..Len(Tail(s)), Author(Tail(s)[j]) = Author(s[1])
      PROVE  s[1][2] < Tail(s)[j][2]
  <2>1. 1 \in 1..Len(s) /\ j + 1 \in 1..Len(s) /\ 1 < j + 1 /\ Tail(s)[j] = s[j + 1]
    BY TailFacts
  <2> QED
    BY <1>2, <2>1 DEF Rising
<1> QED
  BY <1>1, <1>2 DEF Rising

LEMMA BelowAppend ==
  ASSUME NEW s \in Seq(Msgs), NEW m \in Msgs, NEW c, NEW n \in Int, Below(s, c, n),
         Author(m) = c => m[2] < n
  PROVE  Below(Append(s, m), c, n)
BY AppendFacts DEF Below

LEMMA BelowTail ==
  ASSUME NEW s \in Seq(Msgs), s # <<>>, NEW c, NEW n \in Int, Below(s, c, n)
  PROVE  Below(Tail(s), c, n)
BY TailFacts DEF Below

LEMMA BelowRises ==
  ASSUME NEW s \in Seq(Msgs), NEW c, NEW n \in Int, NEW k \in Int, n <= k, Below(s, c, n)
  PROVE  Below(s, c, k)
<1> SUFFICES ASSUME NEW i \in 1..Len(s), Author(s[i]) = c PROVE s[i][2] < k
  BY DEF Below
<1>1. s[i][2] \in Nat /\ s[i][2] < n
  BY SeqFacts, MessageType DEF Below
<1> QED
  BY <1>1

------------------------------------------------------------------------------
(* How the order in one worker changes.                                    *)
LEMMA PrecedesLocal ==
  ASSUME NEW s \in Seq(Msgs), NEW t \in Seq(Msgs), NEW m \in Msgs, NEW p, NEW q, p # m, q # m,
         Precedes(Append(s, m), t, p, q)
  PROVE  Precedes(s, t, p, q)
<1>1. \A i \in 1..Len(Append(s, m)) : Append(s, m)[i] # m => i \in 1..Len(s) /\ Append(s, m)[i] = s[i]
  BY AppendFacts
<1> QED
  BY <1>1 DEF Precedes

LEMMA PrecedesPoll ==
  ASSUME NEW s \in Seq(Msgs), NEW t \in Seq(Msgs), t # <<>>, NEW p, NEW q,
         Precedes(Append(s, Head(t)), Tail(t), p, q)
  PROVE  Precedes(s, t, p, q)
<1>1. \A i \in 1..Len(Append(s, Head(t))) :
        \/ i \in 1..Len(s) /\ Append(s, Head(t))[i] = s[i]
        \/ i = Len(s) + 1 /\ Append(s, Head(t))[i] = t[1]
  BY AppendFacts, TailFacts
<1>2. /\ \A i \in 1..Len(Tail(t)) : Tail(t)[i] = t[i + 1] /\ i + 1 \in 1..Len(t) /\ 1 < i + 1
      /\ 1 \in 1..Len(t) /\ Len(s) \in Nat
  BY AppendFacts, TailFacts
<1>3. CASE \E i, j \in 1..Len(Append(s, Head(t))) :
             i < j /\ Append(s, Head(t))[i] = p /\ Append(s, Head(t))[j] = q
  <2>1. PICK i, j \in 1..Len(Append(s, Head(t))) :
             i < j /\ Append(s, Head(t))[i] = p /\ Append(s, Head(t))[j] = q
    BY <1>3
  <2>2. i \in 1..Len(s) /\ s[i] = p
    BY <1>1, <1>2, <2>1, AppendFacts, TailFacts
  <2>3. (j \in 1..Len(s) /\ s[j] = q) \/ t[1] = q
    BY <1>1, <2>1
  <2> QED
    BY <1>2, <2>1, <2>2, <2>3 DEF Precedes
<1>4. CASE \E i \in 1..Len(Append(s, Head(t))), j \in 1..Len(Tail(t)) :
             Append(s, Head(t))[i] = p /\ Tail(t)[j] = q
  <2>1. PICK i \in 1..Len(Append(s, Head(t))), j \in 1..Len(Tail(t)) :
             Append(s, Head(t))[i] = p /\ Tail(t)[j] = q
    BY <1>4
  <2>2. j + 1 \in 1..Len(t) /\ t[j + 1] = q /\ 1 < j + 1
    BY <1>2, <2>1
  <2>3. (i \in 1..Len(s) /\ s[i] = p) \/ t[1] = p
    BY <1>1, <2>1
  <2> QED
    BY <1>2, <2>2, <2>3 DEF Precedes
<1>5. CASE \E i, j \in 1..Len(Tail(t)) : i < j /\ Tail(t)[i] = p /\ Tail(t)[j] = q
  <2>1. PICK i, j \in 1..Len(Tail(t)) : i < j /\ Tail(t)[i] = p /\ Tail(t)[j] = q
    BY <1>5
  <2>2. i + 1 \in 1..Len(t) /\ j + 1 \in 1..Len(t) /\ i + 1 < j + 1 /\ t[i + 1] = p /\ t[j + 1] = q
    BY <1>2, <2>1
  <2> QED
    BY <2>2 DEF Precedes
<1> QED
  BY <1>3, <1>4, <1>5 DEF Precedes

LEMMA PrecedesDrop ==
  ASSUME NEW s \in Seq(Msgs), NEW t \in Seq(Msgs), t # <<>>, NEW p, NEW q,
         Precedes(s, Tail(t), p, q)
  PROVE  Precedes(s, t, p, q)
<1>1. \A i \in 1..Len(Tail(t)) : Tail(t)[i] = t[i + 1] /\ i + 1 \in 1..Len(t)
  BY TailFacts
<1>2. CASE \E i, j \in 1..Len(s) : i < j /\ s[i] = p /\ s[j] = q
  BY <1>2 DEF Precedes
<1>3. CASE \E i \in 1..Len(s), j \in 1..Len(Tail(t)) : s[i] = p /\ Tail(t)[j] = q
  BY <1>1, <1>3 DEF Precedes
<1>4. CASE \E i, j \in 1..Len(Tail(t)) : i < j /\ Tail(t)[i] = p /\ Tail(t)[j] = q
  <2>1. PICK i, j \in 1..Len(Tail(t)) : i < j /\ Tail(t)[i] = p /\ Tail(t)[j] = q
    BY <1>4
  <2>2. i + 1 \in 1..Len(t) /\ j + 1 \in 1..Len(t) /\ i + 1 < j + 1 /\ t[i + 1] = p /\ t[j + 1] = q
    BY <1>1, <2>1
  <2> QED
    BY <2>2 DEF Precedes
<1> QED
  BY <1>2, <1>3, <1>4 DEF Precedes

Has(s, m) == \E i \in 1..Len(s) : s[i] = m

LEMMA PrecedesPublish ==
  ASSUME NEW s \in Seq(Msgs), NEW t \in Seq(Msgs), NEW m \in Msgs, NEW p, NEW q,
         Precedes(s, Append(t, m), p, q)
  PROVE  Precedes(s, t, p, q) \/ (q = m /\ (Has(s, p) \/ Has(t, p)))
<1>1. \A i \in 1..Len(Append(t, m)) :
        \/ i \in 1..Len(t) /\ Append(t, m)[i] = t[i]
        \/ i = Len(t) + 1 /\ Append(t, m)[i] = m
  BY AppendFacts
<1>2. Len(t) \in Nat
  BY SeqFacts
<1>3. CASE \E i, j \in 1..Len(s) : i < j /\ s[i] = p /\ s[j] = q
  BY <1>3 DEF Precedes
<1>4. CASE \E i \in 1..Len(s), j \in 1..Len(Append(t, m)) : s[i] = p /\ Append(t, m)[j] = q
  BY <1>1, <1>4 DEF Precedes, Has
<1>5. CASE \E i, j \in 1..Len(Append(t, m)) : i < j /\ Append(t, m)[i] = p /\ Append(t, m)[j] = q
  <2>1. PICK i, j \in 1..Len(Append(t, m)) : i < j /\ Append(t, m)[i] = p /\ Append(t, m)[j] = q
    BY <1>5
  <2>2. i \in 1..Len(t) /\ t[i] = p
    BY <1>1, <1>2, <2>1, AppendFacts
  <2>3. (j \in 1..Len(t) /\ t[j] = q) \/ q = m
    BY <1>1, <2>1
  <2> QED
    BY <2>1, <2>2, <2>3 DEF Precedes, Has
<1> QED
  BY <1>3, <1>4, <1>5 DEF Precedes

LEMMA PrecedesHas ==
  ASSUME NEW s, NEW t, NEW p, NEW q, Precedes(s, t, p, q)
  PROVE  Has(s, p) \/ Has(t, p)
BY DEF Precedes, Has

(* Agreement is kept when nothing new precedes anything foreign.           *)
LEMMA AgreeKept ==
  ASSUME Agree,
         \A w \in Workers : \A p, q \in Msgs :
           Foreign(p, w) /\ Foreign(q, w) /\ Precedes(log'[w], mailbox'[w], p, q) =>
             Precedes(log[w], mailbox[w], p, q)
  PROVE  Agree'
<1> SUFFICES ASSUME NEW w \in Workers, NEW v \in Workers, NEW p \in Msgs, NEW q \in Msgs,
                    Foreign(p, w), Foreign(p, v), Foreign(q, w), Foreign(q, v),
                    Precedes(log'[w], mailbox'[w], p, q), Precedes(log'[v], mailbox'[v], q, p)
             PROVE  FALSE
  BY DEF Agree, Precedes, Foreign
<1>1. Precedes(log[w], mailbox[w], p, q) /\ Precedes(log[v], mailbox[v], q, p)
  OBVIOUS
<1> QED
  BY <1>1 DEF Agree

LEMMA HandlerTypes ==
  TypeOK => /\ stage \in [Clients -> {"recv", "local", "publish", "ended"}]
            /\ sent \in [Clients -> Nat] /\ \A c \in Clients : sent[c] <= Sends[c]
BY DEF TypeOK

LEMMA TypeFacts ==
  ASSUME TypeOK, NEW w \in Workers
  PROVE  /\ log[w] \in Seq(Msgs) /\ mailbox[w] \in Seq(Msgs)
         /\ \A c \in Clients : sent[c] \in Nat /\ sent[c] + 1 \in Int
BY DEF TypeOK

------------------------------------------------------------------------------
LEMMA InitInv == Init => FanoutInv
<1> SUFFICES ASSUME Init PROVE FanoutInv
  OBVIOUS
<1> USE DEF Init
<1>1. \A w \in Workers : /\ log[w] = <<>> /\ mailbox[w] = <<>>
                         /\ Len(log[w]) = 0 /\ Len(mailbox[w]) = 0
  BY EmptySeq
<1>2. TypeOK
  <2>1. <<>> \in Seq(Msgs)
    BY EmptySeq
  <2> QED
    BY <2>1, FanoutAssumption DEF TypeOK, FanoutAssumption
<1>3. \A w \in Workers : OrderKept(w)
  BY <1>1 DEF OrderKept, Rising, Below
<1>4. \A c \in Clients, w \in Workers : NotYetAt(c, w)
  BY DEF NotYetAt, Unpublished
<1>5. Agree /\ \A c \in Clients : Sending(c)
  BY <1>1 DEF Agree, Precedes, Sending
<1>6. NothingLostWithoutFault
  BY DEF NothingLostWithoutFault
<1> QED
  BY <1>2, <1>3, <1>4, <1>5, <1>6 DEF FanoutInv

------------------------------------------------------------------------------
(* The handlers.                                                           *)
LEMMA LocalStartsKeepsInv ==
  ASSUME FanoutInv, NEW c \in Clients, LocalStarts(c)
  PROVE  FanoutInv'
<1> DEFINE m == <<c, sent[c] + 1>>
           h == Home[c]
<1>1. TypeOK /\ sent[c] \in Nat /\ sent[c] < Sends[c] /\ stage[c] = "recv" /\ h \in Workers
      /\ Sends[c] \in Nat
  BY FanoutAssumption DEF FanoutInv, TypeOK, LocalStarts, FanoutAssumption
<1>2. m \in Msgs /\ Author(m) = c /\ m[2] = sent[c] + 1
  <2>1. sent[c] + 1 \in 1..Sends[c]
    BY <1>1
  <2> QED
    BY <2>1, MessageExists
<1>3. /\ sent' = [sent EXCEPT ![c] = sent[c] + 1] /\ stage' = [stage EXCEPT ![c] = "local"]
      /\ log' = [log EXCEPT ![h] = Append(log[h], m)]
      /\ inflight' = inflight /\ published' = published /\ acked' = acked
      /\ sub' = sub /\ mailbox' = mailbox /\ fault' = fault
  BY DEF LocalStarts, subscriberVars
<1> HIDE DEF m, h
<1>4. /\ sent'[c] = sent[c] + 1 /\ stage'[c] = "local" /\ log'[h] = Append(log[h], m)
      /\ \A d \in Clients \ {c} : sent'[d] = sent[d] /\ stage'[d] = stage[d]
      /\ \A w \in Workers \ {h} : log'[w] = log[w]
  BY <1>1, <1>3 DEF TypeOK
<1>5. \A d \in Clients : sent[d] \in Nat /\ sent'[d] \in Nat /\ sent[d] <= sent'[d]
  BY <1>1, <1>4 DEF TypeOK
<1>6. TypeOK'
  <2>1. sent' \in [Clients -> Nat] /\ \A d \in Clients : sent'[d] <= Sends[d]
    BY <1>1, <1>3, <1>4 DEF TypeOK
  <2>2. stage' \in [Clients -> {"recv", "local", "publish", "ended"}]
    BY <1>1, <1>3 DEF TypeOK
  <2>3. inflight' \subseteq {Current(d) : d \in {e \in Clients : stage[e] \in {"publish", "ended"}}}'
    <3> SUFFICES ASSUME NEW i \in inflight
                 PROVE  \E d \in Clients : stage'[d] \in {"publish", "ended"} /\ i = <<d, sent'[d]>>
      BY <1>3 DEF Current
    <3>1. PICK d \in Clients : stage[d] \in {"publish", "ended"} /\ i = <<d, sent[d]>>
      BY <1>1 DEF TypeOK, Current
    <3> QED
      BY <3>1, <1>1, <1>4
  <2>4. log' \in [Workers -> Seq(Msgs)]
    <3>1. Append(log[h], m) \in Seq(Msgs)
      BY <1>1, <1>2, AppendFacts, TypeFacts
    <3> QED
      BY <3>1, <1>1, <1>3 DEF TypeOK
  <2> QED
    BY <1>1, <1>3, <2>1, <2>2, <2>3, <2>4 DEF TypeOK
<1>7. ASSUME NEW w \in Workers PROVE OrderKept(w)'
  <2>1. OrderKept(w) /\ log[w] \in Seq(Msgs) /\ mailbox[w] \in Seq(Msgs)
    BY <1>1, TypeFacts DEF FanoutInv
  <2>2. \A d \in Clients : Below(mailbox[w], d, sent'[d] + 1) /\ Below(log[w], d, sent'[d] + 1)
    BY <2>1, <1>5, BelowRises DEF OrderKept
  <2>3. CASE w # h
    BY <2>1, <2>2, <2>3, <1>3, <1>4 DEF OrderKept
  <2>4. CASE w = h
    <3>1. Rising(Append(log[w], m))
      BY <2>1, <1>2, RisingAppend DEF OrderKept
    <3>2. \A d \in Clients : Below(Append(log[w], m), d, sent'[d] + 1)
      BY <2>1, <2>2, <1>2, <1>4, <1>5, BelowAppend
    <3>3. ASSUME NEW j \in 1..Len(mailbox[w]), Home[Author(mailbox[w][j])] # w
          PROVE  Below(Append(log[w], m), Author(mailbox[w][j]), mailbox[w][j][2])
      <4>1. Below(log[w], Author(mailbox[w][j]), mailbox[w][j][2]) /\ Author(mailbox[w][j]) # c
        BY <2>1, <2>4, <3>3 DEF OrderKept, h
      <4>2. mailbox[w][j][2] \in Int
        BY <2>1, SeqFacts, MessageType
      <4> QED
        BY <4>1, <4>2, <2>1, <1>2, BelowAppend
    <3> QED
      BY <2>1, <2>2, <2>4, <3>1, <3>2, <3>3, <1>3, <1>4 DEF OrderKept
  <2> QED
    BY <2>3, <2>4
<1>8. ASSUME NEW d \in Clients, NEW w \in Workers PROVE NotYetAt(d, w)'
  <2>1. /\ log[w] \in Seq(Msgs) /\ mailbox[w] \in Seq(Msgs) /\ OrderKept(w) /\ NotYetAt(d, w)
        /\ sent[d] \in Int
    BY <1>1, TypeFacts DEF FanoutInv
  <2>2. CASE d = c
    <3>1. Below(mailbox[w], c, sent[c] + 1) /\ Below(log[w], c, sent[c] + 1)
      BY <2>1 DEF OrderKept
    <3> QED
      BY <3>1, <2>2, <1>3, <1>4 DEF NotYetAt, h
  <2>3. CASE d # c
    <3>1. Unpublished(d)' <=> Unpublished(d)
      BY <2>3, <1>3, <1>4 DEF Unpublished, Current
    <3>2. Below(log[w], d, sent[d]) => Below(Append(log[w], m), d, sent[d])
      BY <2>1, <2>3, <1>2, BelowAppend
    <3> QED
      BY <2>1, <2>3, <3>1, <3>2, <1>3, <1>4 DEF NotYetAt
  <2> QED
    BY <2>2, <2>3
<1>9. Agree'
  <2>1. ASSUME NEW w \in Workers, NEW p \in Msgs, NEW q \in Msgs, Foreign(p, w), Foreign(q, w),
               Precedes(log'[w], mailbox'[w], p, q)
        PROVE  Precedes(log[w], mailbox[w], p, q)
    <3>1. CASE w # h
      BY <2>1, <3>1, <1>3, <1>4
    <3>2. CASE w = h
      <4>1. p # m /\ q # m
        BY <2>1, <3>2, <1>2 DEF Foreign, h
      <4>2. Precedes(Append(log[w], m), mailbox[w], p, q)
        BY <2>1, <3>2, <1>3, <1>4
      <4> QED
        BY <4>1, <4>2, <1>1, <1>2, TypeFacts, PrecedesLocal
    <3> QED
      BY <3>1, <3>2
  <2> QED
    BY <2>1, AgreeKept DEF FanoutInv
<1>10. NothingLostWithoutFault'
  <2>1. \A w \in Workers : ToSet(log[w]) \subseteq ToSet(log'[w])
    <3> TAKE w \in Workers
    <3>1. ToSet(log[h]) \subseteq ToSet(Append(log[h], m))
      BY <1>1, <1>2, TypeFacts, ToSetAppend
    <3> QED
      BY <3>1, <1>4
  <2> QED
    BY <2>1, <1>3 DEF FanoutInv, NothingLostWithoutFault
<1>11. \A d \in Clients : Sending(d)'
  BY <1>1, <1>4 DEF FanoutInv, Sending
<1> QED
  BY <1>6, <1>7, <1>8, <1>9, <1>10, <1>11 DEF FanoutInv

(* The steps that neither deliver nor publish: no message becomes          *)
(* unpublished that was not, and a buffer is dropped only by a fault.      *)
LEMMA QuietStepKeepsInv ==
  ASSUME FanoutInv, TypeOK', log' = log, sent' = sent, published' = published,
         \A d \in Clients : (Unpublished(d)' => Unpublished(d)) /\ Sending(d)',
         \A w \in Workers : mailbox'[w] = mailbox[w] \/ mailbox'[w] = <<>>,
         \A w \in Workers : ~fault'[w] =>
           /\ ~fault[w] /\ mailbox'[w] = mailbox[w]
           /\ sub[w] \in {"polling", "delivering"} => sub'[w] \in {"polling", "delivering"}
  PROVE  FanoutInv'
<1>1. Len(<<>>) = 0
  BY EmptySeq
<1>2. ASSUME NEW w \in Workers PROVE OrderKept(w)'
  <2>1. OrderKept(w)
    BY DEF FanoutInv
  <2>2. CASE mailbox'[w] = mailbox[w]
    BY <2>1, <2>2 DEF OrderKept
  <2>3. CASE mailbox'[w] = <<>>
    BY <2>1, <2>3, <1>1 DEF OrderKept, Rising, Below
  <2> QED
    BY <2>2, <2>3
<1>3. ASSUME NEW d \in Clients, NEW w \in Workers PROVE NotYetAt(d, w)'
  <2>1. NotYetAt(d, w) /\ (Unpublished(d)' => Unpublished(d))
    BY DEF FanoutInv
  <2>2. Below(mailbox[w], d, sent[d]) => Below(mailbox'[w], d, sent[d])
    BY <1>1 DEF Below
  <2> QED
    BY <2>1, <2>2 DEF NotYetAt
<1>4. Agree'
  <2>1. \A w \in Workers : \A p, q \in Msgs :
          Precedes(log'[w], mailbox'[w], p, q) => Precedes(log[w], mailbox[w], p, q)
    BY <1>1 DEF Precedes
  <2> QED
    BY <2>1, AgreeKept DEF FanoutInv
<1>5. NothingLostWithoutFault'
  BY DEF FanoutInv, NothingLostWithoutFault
<1> QED
  BY <1>2, <1>3, <1>4, <1>5 DEF FanoutInv

(* What is in flight is the current message of a handler that awaits it.   *)
LEMMA InFlight ==
  ASSUME TypeOK, NEW m \in inflight
  PROVE  \E c \in Clients : stage[c] \in {"publish", "ended"} /\ m = Current(c)
BY DEF TypeOK

LEMMA CurrentOf ==
  ASSUME NEW c, NEW d, Current(c) = Current(d)
  PROVE  c = d
BY DEF Current

LEMMA HandlerStepKeepsInv ==
  ASSUME FanoutInv, NEW c \in Clients, LocalEnds(c) \/ HandlerRaises(c) \/ PublishReturns(c)
  PROVE  FanoutInv'
<1>1. TypeOK
  BY DEF FanoutInv
<1>2. /\ log' = log /\ mailbox' = mailbox /\ sent' = sent /\ sub' = sub /\ fault' = fault
      /\ published' = published
  BY DEF LocalEnds, HandlerRaises, PublishReturns, subscriberVars
<1>3. \A d \in Clients : Current(d)' = Current(d)
  BY <1>2 DEF Current
<1>4. /\ stage' \in [Clients -> {"recv", "local", "publish", "ended"}]
      /\ stage'[c] # "local" /\ \A d \in Clients \ {c} : stage'[d] = stage[d]
  <2>1. \A s \in {"recv", "publish", "ended"} :
          [stage EXCEPT ![c] = s] \in [Clients -> {"recv", "local", "publish", "ended"}]
    BY <1>1, HandlerTypes
  <2>2. /\ \A s : [stage EXCEPT ![c] = s][c] = s
        /\ \A s : \A d \in Clients \ {c} : [stage EXCEPT ![c] = s][d] = stage[d]
    BY <1>1, HandlerTypes
  <2>3. CASE LocalEnds(c)
    BY <2>1, <2>2, <2>3 DEF LocalEnds
  <2>4. CASE HandlerRaises(c)
    BY <2>1, <2>2, <2>4 DEF HandlerRaises
  <2>5. CASE PublishReturns(c)
    BY <2>1, <2>2, <2>5 DEF PublishReturns
  <2> QED
    BY <2>3, <2>4, <2>5
<1>5. stage'[c] = "publish" => stage[c] = "local"
  BY <1>1, HandlerTypes DEF LocalEnds, HandlerRaises, PublishReturns
<1>6. /\ inflight' \subseteq inflight \cup {Current(c)}
      /\ Current(c) \in inflight' => /\ stage'[c] \in {"publish", "ended"}
                                     /\ stage[c] = "local" \/ Current(c) \in inflight
  <2>1. CASE LocalEnds(c)
    BY <2>1, <1>1, HandlerTypes DEF LocalEnds
  <2>2. CASE HandlerRaises(c)
    <3>1. stage'[c] = "ended"
      BY <2>2, <1>1, HandlerTypes DEF HandlerRaises
    <3> QED
      BY <2>2, <3>1 DEF HandlerRaises
  <2>3. CASE PublishReturns(c)
    BY <2>3 DEF PublishReturns
  <2> QED
    BY <2>1, <2>2, <2>3
<1>7. ASSUME NEW m \in inflight'
      PROVE  \E d \in Clients : stage'[d] \in {"publish", "ended"} /\ m = Current(d)
  <2>1. CASE m = Current(c)
    BY <2>1, <1>6, <1>7
  <2>2. CASE m # Current(c)
    <3>1. PICK d \in Clients : stage[d] \in {"publish", "ended"} /\ m = Current(d)
      BY <2>2, <1>1, <1>6, InFlight
    <3> QED
      BY <2>2, <3>1, <1>4
  <2> QED
    BY <2>1, <2>2
<1>8. TypeOK'
  <2>1. inflight' \subseteq {Current(d) : d \in {e \in Clients : stage[e] \in {"publish", "ended"}}}'
    BY <1>3, <1>7
  <2>2. stage' \in [Clients -> {"recv", "local", "publish", "ended"}]
    BY <1>4
  <2>3. acked' \subseteq Msgs
    <3>1. CASE acked' = acked
      BY <3>1, <1>1 DEF TypeOK
    <3>2. CASE acked' # acked
      <4>1. PublishReturns(c)
        BY <3>2 DEF LocalEnds, HandlerRaises
      <4>2. sent[c] \in 1..Sends[c]
        <5>1. sent[c] >= 1 /\ sent[c] \in Nat /\ sent[c] <= Sends[c] /\ Sends[c] \in Nat
          BY <4>1, <1>1, HandlerTypes, FanoutAssumption
             DEF PublishReturns, FanoutInv, Sending, FanoutAssumption
        <5> QED
          BY <5>1
      <4> QED
        BY <4>1, <4>2, <1>1, MessageExists DEF TypeOK, PublishReturns, Current
    <3> QED
      BY <3>1, <3>2
  <2> QED
    BY <1>1, <1>2, <2>1, <2>2, <2>3 DEF TypeOK
<1>9. ASSUME NEW d \in Clients, Unpublished(d)' PROVE Unpublished(d)
  <2>1. CASE d = c
    <3>1. stage'[c] # "local"
      BY <1>4
    <3>2. Current(c) \in inflight'
      BY <1>3, <1>9, <2>1, <3>1 DEF Unpublished
    <3> QED
      BY <2>1, <3>2, <1>6 DEF Unpublished
  <2>2. CASE d # c
    <3>1. Current(d) # Current(c)
      BY <2>2, CurrentOf
    <3> QED
      BY <1>3, <1>4, <1>6, <1>9, <2>2, <3>1 DEF Unpublished
  <2> QED
    BY <2>1, <2>2
<1>10. ASSUME NEW d \in Clients PROVE Sending(d)'
  BY <1>2, <1>4, <1>5 DEF FanoutInv, Sending
<1> QED
  BY <1>2, <1>8, <1>9, <1>10, QuietStepKeepsInv

(* A message in flight has reached no worker but its author's.             *)
LEMMA NotThereYet ==
  ASSUME FanoutInv, NEW m \in inflight, NEW w \in Workers
  PROVE  \E c \in Clients :
           /\ m = Current(c) /\ stage[c] \in {"publish", "ended"} /\ Author(m) = c /\ m[2] = sent[c]
           /\ Below(mailbox[w], c, sent[c]) /\ ~Has(mailbox[w], m)
           /\ Foreign(m, w) => Below(log[w], c, sent[c]) /\ ~Has(log[w], m)
<1>1. PICK c \in Clients : stage[c] \in {"publish", "ended"} /\ m = Current(c)
  BY InFlight DEF FanoutInv
<1>2. Author(m) = c /\ m[2] = sent[c] /\ sent[c] \in Nat
  BY <1>1 DEF Current, Author, FanoutInv, TypeOK
<1>3. NotYetAt(c, w) /\ Unpublished(c)
  BY <1>1 DEF FanoutInv, Unpublished
<1>4. \A s : Below(s, c, sent[c]) => ~Has(s, m)
  BY <1>2 DEF Below, Has
<1> QED
  BY <1>1, <1>2, <1>3, <1>4 DEF NotYetAt, Foreign

LEMMA PublishKeepsInv ==
  ASSUME FanoutInv, NEW m \in Msgs, RedisPublishes(m)
  PROVE  FanoutInv'
<1> DEFINE listening == {w \in Workers : sub[w] \in {"polling", "delivering"}}
<1>1. /\ TypeOK /\ m \in inflight /\ inflight' = inflight \ {m}
      /\ published' = [published EXCEPT ![m] = listening]
      /\ sent' = sent /\ stage' = stage /\ sub' = sub /\ log' = log /\ acked' = acked
      /\ fault' = fault
  BY DEF FanoutInv, RedisPublishes
<1>2. /\ \A w \in Workers : mailbox'[w] = IF w \in listening THEN Append(mailbox[w], m)
                                                             ELSE mailbox[w]
      /\ mailbox' = [w \in Workers |-> mailbox'[w]]
  BY DEF RedisPublishes
<1>3. \A d \in Clients : Current(d)' = Current(d)
  BY <1>1 DEF Current
<1>4. ASSUME NEW w \in Workers
      PROVE  /\ log[w] \in Seq(Msgs) /\ mailbox[w] \in Seq(Msgs) /\ OrderKept(w)
             /\ mailbox'[w] \in Seq(Msgs)
             /\ mailbox'[w] = mailbox[w] \/ mailbox'[w] = Append(mailbox[w], m)
  <2>1. log[w] \in Seq(Msgs) /\ mailbox[w] \in Seq(Msgs) /\ OrderKept(w)
    BY <1>1, TypeFacts DEF FanoutInv
  <2>2. Append(mailbox[w], m) \in Seq(Msgs)
    BY <2>1, AppendFacts
  <2> QED
    BY <2>1, <2>2, <1>2
<1>5. TypeOK'
  <2>1. mailbox' \in [Workers -> Seq(Msgs)]
    BY <1>2, <1>4
  <2>2. inflight' \subseteq {Current(d) : d \in {e \in Clients : stage[e] \in {"publish", "ended"}}}'
    BY <1>1, <1>3 DEF TypeOK
  <2>3. published' \in [Msgs -> SUBSET Workers]
    BY <1>1 DEF TypeOK
  <2> QED
    BY <1>1, <2>1, <2>2, <2>3 DEF TypeOK
<1>6. ASSUME NEW w \in Workers PROVE OrderKept(w)'
  <2>1. CASE mailbox'[w] = mailbox[w]
    BY <1>1, <1>4, <2>1 DEF OrderKept
  <2>2. CASE mailbox'[w] = Append(mailbox[w], m)
    <3>1. PICK c \in Clients :
            /\ Author(m) = c /\ m[2] = sent[c] /\ Below(mailbox[w], c, sent[c])
            /\ Foreign(m, w) => Below(log[w], c, sent[c])
      BY <1>1, NotThereYet
    <3>2. Rising(mailbox'[w])
      BY <1>4, <2>2, <3>1, RisingAppend DEF OrderKept
    <3>3. ASSUME NEW d \in Clients PROVE Below(mailbox'[w], d, sent[d] + 1)
      <4>1. sent[d] \in Nat /\ Below(mailbox[w], d, sent[d] + 1)
        BY <1>1, <1>4 DEF OrderKept, TypeOK
      <4> QED
        BY <1>4, <2>2, <3>1, <4>1, BelowAppend
    <3>4. ASSUME NEW j \in 1..Len(mailbox'[w]), Home[Author(mailbox'[w][j])] # w
          PROVE  Below(log[w], Author(mailbox'[w][j]), mailbox'[w][j][2])
      <4>1. CASE j \in 1..Len(mailbox[w]) /\ mailbox'[w][j] = mailbox[w][j]
        BY <1>4, <3>4, <4>1 DEF OrderKept
      <4>2. CASE mailbox'[w][j] = m
        BY <3>1, <3>4, <4>2 DEF Foreign
      <4> QED
        BY <1>4, <2>2, <4>1, <4>2, AppendFacts
    <3> QED
      BY <1>1, <1>4, <3>2, <3>3, <3>4 DEF OrderKept
  <2> QED
    BY <1>2, <2>1, <2>2
<1>7. ASSUME NEW d \in Clients, NEW w \in Workers, Unpublished(d)'
      PROVE  NotYetAt(d, w)'
  <2>1. PICK c \in Clients : m = Current(c) /\ stage[c] \in {"publish", "ended"} /\ Author(m) = c
    BY <1>1, NotThereYet
  <2>2. d # c /\ Unpublished(d)
    BY <1>1, <1>3, <1>7, <2>1 DEF Unpublished
  <2>3. NotYetAt(d, w) /\ sent[d] \in Int
    BY <1>1 DEF FanoutInv, TypeOK
  <2>4. Below(mailbox[w], d, sent[d])
    BY <2>2, <2>3 DEF NotYetAt
  <2>5. Below(Append(mailbox[w], m), d, sent[d])
    BY <1>4, <2>1, <2>2, <2>3, <2>4, BelowAppend
  <2>6. Below(mailbox'[w], d, sent[d])
    BY <1>4, <2>4, <2>5
  <2> QED
    BY <1>1, <2>2, <2>3, <2>6 DEF NotYetAt
<1>8. Agree'
  <2> SUFFICES ASSUME NEW w \in Workers, NEW v \in Workers, NEW p \in Msgs, NEW q \in Msgs,
                      Foreign(p, w), Foreign(p, v), Foreign(q, w), Foreign(q, v),
                      Precedes(log[w], mailbox'[w], p, q), Precedes(log[v], mailbox'[v], q, p)
               PROVE  FALSE
    BY <1>1 DEF Agree, Precedes, Foreign
  <2>0. ASSUME NEW u \in Workers, NEW x, NEW y, Precedes(log[u], mailbox'[u], x, y)
        PROVE  \/ Precedes(log[u], mailbox[u], x, y)
               \/ y = m /\ (Has(log[u], x) \/ Has(mailbox[u], x))
    <3>1. CASE mailbox'[u] = mailbox[u]
      BY <2>0, <3>1
    <3>2. CASE mailbox'[u] = Append(mailbox[u], m)
      <4>1. Precedes(log[u], Append(mailbox[u], m), x, y)
        BY <2>0, <3>2
      <4> QED
        BY <1>4, <4>1, PrecedesPublish
    <3> QED
      BY <1>4, <3>1, <3>2
  <2>1. Precedes(log[w], mailbox[w], p, q) \/ (q = m /\ (Has(log[w], p) \/ Has(mailbox[w], p)))
    BY <2>0
  <2>2. Precedes(log[v], mailbox[v], q, p) \/ (p = m /\ (Has(log[v], q) \/ Has(mailbox[v], q)))
    BY <2>0
  <2>3. /\ Foreign(m, w) => ~Has(log[w], m) /\ ~Has(mailbox[w], m)
        /\ Foreign(m, v) => ~Has(log[v], m) /\ ~Has(mailbox[v], m)
    BY <1>1, NotThereYet
  <2>4. ~(Precedes(log[w], mailbox[w], p, q) /\ Precedes(log[v], mailbox[v], q, p))
    BY DEF FanoutInv, Agree
  <2>5. /\ Precedes(log[w], mailbox[w], p, q) => Has(log[w], p) \/ Has(mailbox[w], p)
        /\ Precedes(log[v], mailbox[v], q, p) => Has(log[v], q) \/ Has(mailbox[v], q)
    BY PrecedesHas
  <2> QED
    BY <2>1, <2>2, <2>3, <2>4, <2>5
<1>9. NothingLostWithoutFault'
  <2> SUFFICES ASSUME NEW n \in Msgs, NEW w \in Workers,
                      w \in published'[n], w # Home[Author(n)], ~fault[w]
               PROVE  \/ n \in ToSet(log[w])
                      \/ n \in ToSet(mailbox'[w]) /\ sub[w] \in {"polling", "delivering"}
    BY <1>1 DEF NothingLostWithoutFault
  <2>1. ToSet(mailbox'[w]) = IF w \in listening THEN ToSet(mailbox[w]) \cup {m}
                                                ELSE ToSet(mailbox[w])
    BY <1>2, <1>4, ToSetAppend
  <2>2. CASE n = m
    <3>1. w \in listening
      BY <1>1, <2>2 DEF TypeOK
    <3> QED
      BY <2>1, <2>2, <3>1
  <2>3. CASE n # m
    <3>1. w \in published[n]
      BY <1>1, <2>3 DEF TypeOK
    <3> QED
      BY <2>1, <3>1 DEF FanoutInv, NothingLostWithoutFault
  <2> QED
    BY <2>2, <2>3
<1>10. \A d \in Clients : Sending(d)'
  BY <1>1 DEF FanoutInv, Sending
<1>11. \A d \in Clients, w \in Workers : NotYetAt(d, w)'
  BY <1>7 DEF NotYetAt
<1> QED
  BY <1>5, <1>6, <1>8, <1>9, <1>10, <1>11 DEF FanoutInv

------------------------------------------------------------------------------
(* The subscriber tasks.                                                   *)
LEMMA PollKeepsInv ==
  ASSUME FanoutInv, NEW w \in Workers, Poll(w)
  PROVE  FanoutInv'
<1> DEFINE s == log[w]
           t == mailbox[w]
           m == Head(t)
<1>1. /\ TypeOK /\ t # <<>> /\ sub[w] = "polling" /\ Take(w, m)
      /\ mailbox' = [mailbox EXCEPT ![w] = Tail(t)]
      /\ sent' = sent /\ stage' = stage /\ inflight' = inflight /\ published' = published
      /\ acked' = acked /\ fault' = fault
  BY DEF FanoutInv, Poll, handlerVars
<1>2. s \in Seq(Msgs) /\ t \in Seq(Msgs) /\ OrderKept(w)
  BY <1>1, TypeFacts DEF FanoutInv
<1>3. /\ m \in Msgs /\ m = t[1] /\ Tail(t) \in Seq(Msgs) /\ 1 \in 1..Len(t) /\ m[2] \in Nat
      /\ Author(m) \in Clients
  BY <1>1, <1>2, TailFacts, MessageType
<1>4. \A v \in Workers : mailbox'[v] = IF v = w THEN Tail(t) ELSE mailbox[v]
  BY <1>1 DEF TypeOK
<1>5. /\ \A v \in Workers \ {w} : log'[v] = log[v] /\ sub'[v] = sub[v]
      /\ log' \in [Workers -> Seq(Msgs)] /\ sub'[w] \in {"polling", "delivering"}
      /\ sub' \in [Workers -> {"starting", "polling", "delivering", "dead", "stopped"}]
      /\ \/ Home[Author(m)] = w /\ log'[w] = s
         \/ Foreign(m, w) /\ log'[w] = Append(s, m)
  <2>1. Append(s, m) \in Seq(Msgs)
    BY <1>2, <1>3, AppendFacts
  <2>2. CASE Home[Author(m)] = w
    BY <1>1, <2>2 DEF Take, TypeOK
  <2>3. CASE Home[Author(m)] # w
    <3>1. log' = [log EXCEPT ![w] = Append(s, m)] /\ sub' = [sub EXCEPT ![w] = "delivering"]
      BY <1>1, <2>3 DEF Take
    <3> QED
      BY <1>1, <2>1, <2>3, <3>1 DEF TypeOK, Foreign
  <2> QED
    BY <2>2, <2>3
<1>6. TypeOK'
  <2>1. mailbox' \in [Workers -> Seq(Msgs)]
    BY <1>1, <1>3 DEF TypeOK
  <2>2. inflight' \subseteq {Current(d) : d \in {e \in Clients : stage[e] \in {"publish", "ended"}}}'
    BY <1>1 DEF TypeOK, Current
  <2> QED
    BY <1>1, <1>5, <2>1, <2>2 DEF TypeOK
<1> HIDE DEF s, t, m
<1>7. \A d \in Clients, n \in Int : Below(s, d, n) /\ Below(t, d, n) => Below(log'[w], d, n)
  <2> SUFFICES ASSUME NEW d \in Clients, NEW n \in Int, Below(s, d, n), Below(t, d, n)
               PROVE  Below(log'[w], d, n)
    OBVIOUS
  <2>1. Author(m) = d => m[2] < n
    BY <1>3 DEF Below
  <2> QED
    BY <1>2, <1>3, <1>5, <2>1, BelowAppend
<1>8. ASSUME NEW v \in Workers PROVE OrderKept(v)'
  <2>1. CASE v # w
    <3>1. OrderKept(v)
      BY DEF FanoutInv
    <3> QED
      BY <1>1, <1>4, <1>5, <2>1, <3>1 DEF OrderKept
  <2>2. CASE v = w
    <3>1. /\ Rising(s) /\ Rising(t) /\ Rising(Tail(t))
          /\ \A j \in 1..Len(Tail(t)) : Author(Tail(t)[j]) = Author(m) => m[2] < Tail(t)[j][2]
      <4>1. t # <<>> /\ Rising(s) /\ Rising(t)
        BY <1>1, <1>2 DEF OrderKept, s, t
      <4> QED
        BY <4>1, <1>2, <1>3, RisingTail
    <3>2. Rising(log'[w])
      <4>1. Foreign(m, w) => Below(s, Author(m), m[2])
        BY <1>2, <1>3 DEF OrderKept, Foreign, s, t
      <4> QED
        BY <1>2, <1>3, <1>5, <3>1, <4>1, RisingAppend
    <3>3. ASSUME NEW d \in Clients
          PROVE  Below(log'[w], d, sent[d] + 1) /\ Below(Tail(t), d, sent[d] + 1)
      <4>1. Below(s, d, sent[d] + 1) /\ Below(t, d, sent[d] + 1) /\ sent[d] + 1 \in Int /\ t # <<>>
        BY <1>1, <1>2, TypeFacts DEF OrderKept, s, t
      <4> QED
        BY <1>2, <1>7, <4>1, BelowTail
    <3>4. ASSUME NEW j \in 1..Len(Tail(t)), Home[Author(Tail(t)[j])] # w
          PROVE  Below(log'[w], Author(Tail(t)[j]), Tail(t)[j][2])
      <4>1. t # <<>>
        BY <1>1 DEF t
      <4>2. Tail(t)[j] = t[j + 1] /\ j + 1 \in 1..Len(t)
        BY <1>2, <4>1, TailFacts
      <4>3. Below(s, Author(Tail(t)[j]), Tail(t)[j][2])
        BY <1>2, <3>4, <4>2 DEF OrderKept, s, t
      <4>4. Tail(t)[j][2] \in Int
        BY <1>2, <4>2, SeqFacts, MessageType
      <4> QED
        BY <1>2, <1>3, <1>5, <3>1, <4>3, <4>4, BelowAppend
    <3> QED
      BY <1>1, <1>4, <2>2, <3>1, <3>2, <3>3, <3>4 DEF OrderKept
  <2> QED
    BY <2>1, <2>2
<1>9. ASSUME NEW d \in Clients, NEW v \in Workers PROVE NotYetAt(d, v)'
  <2>1. NotYetAt(d, v) /\ sent[d] \in Int /\ (Unpublished(d)' <=> Unpublished(d))
    BY <1>1 DEF FanoutInv, TypeOK, Unpublished, Current
  <2>2. CASE v # w
    BY <1>1, <1>4, <1>5, <2>1, <2>2 DEF NotYetAt
  <2>3. CASE v = w
    <3>1. t # <<>> /\ log[v] = s /\ mailbox[v] = t
      BY <1>1, <2>3 DEF s, t
    <3> QED
      BY <1>1, <1>2, <1>4, <1>7, <2>1, <2>3, <3>1, BelowTail DEF NotYetAt
  <2> QED
    BY <2>2, <2>3
<1>10. Agree'
  <2>1. ASSUME NEW v \in Workers, NEW p \in Msgs, NEW q \in Msgs,
               Precedes(log'[v], mailbox'[v], p, q)
        PROVE  Precedes(log[v], mailbox[v], p, q)
    <3>1. CASE v # w
      BY <1>4, <1>5, <2>1, <3>1
    <3>2. CASE v = w
      <4>1. t # <<>> /\ log[v] = s /\ mailbox[v] = t
        BY <1>1, <3>2 DEF s, t
      <4>2. mailbox'[v] = Tail(t) /\ (log'[v] = s \/ log'[v] = Append(s, Head(t)))
        BY <1>4, <1>5, <3>2 DEF m
      <4>3. CASE log'[v] = s
        BY <1>2, <2>1, <4>1, <4>2, <4>3, PrecedesDrop
      <4>4. CASE log'[v] = Append(s, Head(t))
        BY <1>2, <2>1, <4>1, <4>2, <4>4, PrecedesPoll
      <4> QED
        BY <4>2, <4>3, <4>4
    <3> QED
      BY <3>1, <3>2
  <2> QED
    BY <2>1, AgreeKept DEF FanoutInv
<1>11. NothingLostWithoutFault'
  <2> SUFFICES ASSUME NEW n \in Msgs, NEW v \in Workers,
                      v \in published[n], v # Home[Author(n)], ~fault[v]
               PROVE  \/ n \in ToSet(log'[v])
                      \/ n \in ToSet(mailbox'[v]) /\ sub'[v] \in {"polling", "delivering"}
    BY <1>1 DEF NothingLostWithoutFault
  <2>1. \/ n \in ToSet(log[v])
        \/ n \in ToSet(mailbox[v]) /\ sub[v] \in {"polling", "delivering"}
    BY DEF FanoutInv, NothingLostWithoutFault
  <2>2. CASE v # w
    BY <1>4, <1>5, <2>1, <2>2
  <2>3. CASE v = w
    <3>1. t # <<>> /\ log[v] = s /\ mailbox[v] = t
      BY <1>1, <2>3 DEF s, t
    <3>2. ToSet(t) = {m} \cup ToSet(Tail(t))
      BY <1>2, <3>1, ToSetTail DEF m
    <3>3. ToSet(Append(s, m)) = ToSet(s) \cup {m}
      BY <1>2, <1>3, ToSetAppend
    <3> QED
      BY <1>4, <1>5, <2>1, <2>3, <3>1, <3>2, <3>3
  <2> QED
    BY <2>2, <2>3
<1>12. \A d \in Clients : Sending(d)'
  BY <1>1 DEF FanoutInv, Sending
<1> QED
  BY <1>6, <1>8, <1>9, <1>10, <1>11, <1>12 DEF FanoutInv

LEMMA SubscriberStepKeepsInv ==
  ASSUME FanoutInv, NEW w \in Workers,
         Subscribe(w) \/ DeliveryEnds(w) \/ SubscriberDies(w)
  PROVE  FanoutInv'
<1>1. /\ TypeOK /\ log' = log /\ sent' = sent /\ stage' = stage /\ inflight' = inflight
      /\ published' = published /\ acked' = acked
  BY DEF FanoutInv, Subscribe, DeliveryEnds, SubscriberDies, handlerVars
<1>2. \/ /\ sub' = [sub EXCEPT ![w] = "polling"] /\ mailbox' = mailbox /\ fault' = fault
      \/ /\ sub' = [sub EXCEPT ![w] = "dead"]
         /\ mailbox' = [mailbox EXCEPT ![w] = <<>>] /\ fault' = [fault EXCEPT ![w] = TRUE]
  BY DEF Subscribe, DeliveryEnds, SubscriberDies
<1>3. TypeOK'
  <2>1. <<>> \in Seq(Msgs)
    BY EmptySeq
  <2>2. inflight' \subseteq {Current(d) : d \in {e \in Clients : stage[e] \in {"publish", "ended"}}}'
    BY <1>1 DEF TypeOK, Current
  <2>3. sub' \in [Workers -> {"starting", "polling", "delivering", "dead", "stopped"}]
    BY <1>1, <1>2 DEF TypeOK
  <2>4. mailbox' \in [Workers -> Seq(Msgs)]
    BY <1>1, <1>2, <2>1 DEF TypeOK
  <2>5. fault' \in [Workers -> BOOLEAN]
    BY <1>1, <1>2 DEF TypeOK
  <2> QED
    BY <1>1, <2>2, <2>3, <2>4, <2>5 DEF TypeOK
<1>4. \A d \in Clients : (Unpublished(d)' => Unpublished(d)) /\ Sending(d)'
  BY <1>1 DEF Unpublished, Current, Sending, FanoutInv
<1>5. \A v \in Workers : mailbox'[v] = mailbox[v] \/ mailbox'[v] = <<>>
  BY <1>1, <1>2 DEF TypeOK
<1>6. \A v \in Workers : ~fault'[v] =>
        /\ ~fault[v] /\ mailbox'[v] = mailbox[v]
        /\ sub[v] \in {"polling", "delivering"} => sub'[v] \in {"polling", "delivering"}
  BY <1>1, <1>2 DEF TypeOK
<1> QED
  BY <1>1, <1>3, <1>4, <1>5, <1>6, QuietStepKeepsInv

LEMMA StopKeepsInv ==
  ASSUME FanoutInv, NEW w \in Workers, Stop(w)
  PROVE  FanoutInv'
<1>1. /\ TypeOK /\ log' = log /\ sent' = sent /\ published' = published /\ acked' = acked
      /\ sub' = [sub EXCEPT ![w] = "stopped"] /\ mailbox' = [mailbox EXCEPT ![w] = <<>>]
      /\ fault' = [fault EXCEPT ![w] = TRUE]
      /\ stage' = [c \in Clients |-> IF Home[c] = w THEN "ended" ELSE stage[c]]
      /\ inflight' = {m \in inflight : Home[Author(m)] # w}
  BY DEF FanoutInv, Stop
<1>2. /\ stage' \in [Clients -> {"recv", "local", "publish", "ended"}]
      /\ \A d \in Clients : stage'[d] = IF Home[d] = w THEN "ended" ELSE stage[d]
  BY <1>1, HandlerTypes
<1>3. ASSUME NEW m \in inflight'
      PROVE  \E d \in Clients : stage'[d] \in {"publish", "ended"} /\ m = Current(d)
  <2>1. m \in inflight /\ Home[Author(m)] # w
    BY <1>1, <1>3
  <2>2. PICK d \in Clients : stage[d] \in {"publish", "ended"} /\ m = Current(d)
    BY <1>1, <2>1, InFlight
  <2>3. Author(m) = d
    BY <2>2 DEF Current, Author
  <2> QED
    BY <1>2, <2>1, <2>2, <2>3
<1>4. TypeOK'
  <2>1. <<>> \in Seq(Msgs)
    BY EmptySeq
  <2>2. inflight' \subseteq {Current(d) : d \in {e \in Clients : stage[e] \in {"publish", "ended"}}}'
    BY <1>1, <1>3 DEF Current
  <2> QED
    BY <1>1, <1>2, <2>1, <2>2 DEF TypeOK
<1>5. \A d \in Clients : (Unpublished(d)' => Unpublished(d)) /\ Sending(d)'
  BY <1>1, <1>2 DEF Unpublished, Current, Sending, FanoutInv
<1>6. \A v \in Workers : mailbox'[v] = mailbox[v] \/ mailbox'[v] = <<>>
  BY <1>1 DEF TypeOK
<1>7. \A v \in Workers : ~fault'[v] =>
        /\ ~fault[v] /\ mailbox'[v] = mailbox[v]
        /\ sub[v] \in {"polling", "delivering"} => sub'[v] \in {"polling", "delivering"}
  BY <1>1 DEF TypeOK
<1> QED
  BY <1>1, <1>4, <1>5, <1>6, <1>7, QuietStepKeepsInv

LEMMA StepInv == FanoutInv /\ [Next]_vars => FanoutInv'
<1> SUFFICES ASSUME FanoutInv, [Next]_vars PROVE FanoutInv'
  OBVIOUS
<1>1. ASSUME NEW c \in Clients,
             LocalStarts(c) \/ LocalEnds(c) \/ HandlerRaises(c) \/ PublishReturns(c)
      PROVE  FanoutInv'
  BY <1>1, LocalStartsKeepsInv, HandlerStepKeepsInv
<1>2. ASSUME NEW m \in Msgs, RedisPublishes(m) PROVE FanoutInv'
  BY <1>2, PublishKeepsInv
<1>3. ASSUME NEW w \in Workers,
             Subscribe(w) \/ Poll(w) \/ DeliveryEnds(w) \/ SubscriberDies(w) \/ Stop(w)
      PROVE  FanoutInv'
  BY <1>3, PollKeepsInv, SubscriberStepKeepsInv, StopKeepsInv
<1>4. CASE UNCHANGED vars
  BY <1>4 DEF vars, FanoutInv, TypeOK, Sending, OrderKept, NotYetAt, Unpublished, Current, Agree,
              NothingLostWithoutFault
<1> QED
  BY <1>1, <1>2, <1>3, <1>4 DEF Next

LEMMA Always == Spec => []FanoutInv
BY InitInv, StepInv, PTL DEF Spec

------------------------------------------------------------------------------
(* The variables keep their types; in particular what is in flight is the  *)
(* current message of a handler that awaits its PUBLISH.                   *)
THEOREM FanoutTypeOK == Spec => []TypeOK
<1>1. FanoutInv => TypeOK
  BY DEF FanoutInv
<1> QED
  BY <1>1, Always, PTL

LEMMA OnceEach ==
  ASSUME NEW s \in Seq(Msgs), Rising(s)
  PROVE  IsInjective(s)
<1>1. DOMAIN s = 1..Len(s) /\ Len(s) \in Nat
  BY LenProperties
<1>2. ASSUME NEW i \in 1..Len(s), NEW j \in 1..Len(s), i < j
      PROVE  s[i] # s[j]
  <2>1. s[i][2] \in Nat /\ s[j][2] \in Nat
    BY SeqFacts, MessageType
  <2> QED
    BY <1>2, <2>1 DEF Rising
<1>3. \A i, j \in 1..Len(s) : i < j \/ j < i \/ i = j
  OBVIOUS
<1> QED
  BY <1>1, <1>2, <1>3 DEF IsInjective

(* The local delivery and the one out of Redis never add up: no worker     *)
(* starts to deliver a message twice, however handlers, Redis, subscriber  *)
(* tasks and stops interleave.                                             *)
THEOREM NothingTwice == Spec => []DeliveredOnce
<1>1. ASSUME FanoutInv PROVE DeliveredOnce
  BY <1>1, TypeFacts, OnceEach DEF FanoutInv, OrderKept, DeliveredOnce
<1> QED
  BY <1>1, Always, PTL

(* Every worker delivers the messages of one client in the order the       *)
(* client sent them.                                                       *)
THEOREM OneClientInOrder == Spec => []ClientOrderKept
<1>1. ASSUME FanoutInv PROVE ClientOrderKept
  <2> SUFFICES ASSUME NEW w \in Workers, NEW p \in InOrder(w), Author(p[1]) = Author(p[2])
               PROVE  p[1][2] < p[2][2]
    BY DEF ClientOrderKept
  <2>1. PICK i, j \in 1..Len(log[w]) : i < j /\ log[w][i] = p[1] /\ log[w][j] = p[2]
    BY DEF InOrder
  <2>2. Rising(log[w])
    BY <1>1 DEF FanoutInv, OrderKept
  <2> QED
    BY <2>1, <2>2 DEF Rising
<1> QED
  BY <1>1, Always, PTL

(* Two workers that hear of the same two messages through Redis deliver    *)
(* them in the same order.                                                 *)
THEOREM OneOrderForPeers == Spec => []PeersAgreeOnOrder
<1>1. ASSUME FanoutInv PROVE PeersAgreeOnOrder
  <2> SUFFICES ASSUME NEW w \in Workers, NEW v \in Workers, NEW p \in InOrder(w),
                      Home[Author(p[1])] \notin {w, v}, Home[Author(p[2])] \notin {w, v},
                      <<p[2], p[1]>> \in InOrder(v)
               PROVE  FALSE
    BY DEF PeersAgreeOnOrder
  <2>1. p[1] \in Msgs /\ p[2] \in Msgs
    BY DEF InOrder
  <2>2. Precedes(log[w], mailbox[w], p[1], p[2]) /\ Precedes(log[v], mailbox[v], p[2], p[1])
    BY DEF InOrder, Precedes
  <2> QED
    BY <1>1, <2>1, <2>2 DEF FanoutInv, Agree, Foreign
<1> QED
  BY <1>1, Always, PTL

(* What Redis has for a subscribed worker is delivered there, or waits     *)
(* before a task that runs, unless that worker lost its connection.        *)
THEOREM NothingLost == Spec => []NothingLostWithoutFault
<1>1. FanoutInv => NothingLostWithoutFault
  BY DEF FanoutInv
<1> QED
  BY <1>1, Always, PTL
=============================================================================
