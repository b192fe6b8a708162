---------------------- MODULE CallbackDispatcherProofs ----------------------
(***************************************************************************)
(* The callback dispatchers, for any number of runs, workers, dispatcher   *)
(* processes and crashes: every undelivered event is scheduled exactly     *)
(* once, an event is recorded as delivered only if it was accepted, and a  *)
(* settled event stays settled.                                            *)
(***************************************************************************)
EXTENDS CallbackDispatcher, LifecycleStoreProofs, SequenceTheorems

USE DEF DomainState, Terminal, Status, PublicationState, DeliveryStatus

-----------------------------------------------------------------------------
(* Queues: sequences without repetition. *)

Queue(s, S) == s \in Seq(S) /\ IsInjective(s)
EntriesAt(s, A) == {s[i] : i \in A}

LEMMA QueueOfNothing ==
  ASSUME NEW S
  PROVE  Queue(<<>>, S) /\ ToSet(<<>>) = {}
BY DEF Queue, IsInjective, ToSet

(* Two queues with nothing in common, one after the other. *)
LEMMA ConcatQueue ==
  ASSUME NEW S, NEW s \in Seq(S), NEW t \in Seq(S)
  PROVE  /\ ToSet(s \o t) = ToSet(s) \cup ToSet(t)
         /\ Queue(s \o t, S) <=>
              Queue(s, S) /\ Queue(t, S) /\ ToSet(s) \cap ToSet(t) = {}
<1>0. /\ Len(s) \in Nat /\ DOMAIN s = 1 .. Len(s)
      /\ Len(t) \in Nat /\ DOMAIN t = 1 .. Len(t)
      /\ s \o t \in Seq(S) /\ DOMAIN (s \o t) = 1 .. Len(s) + Len(t)
  BY LenProperties, ConcatProperties
<1>1. \A i \in 1 .. Len(s) : i \in 1 .. Len(s) + Len(t) /\ (s \o t)[i] = s[i]
  BY <1>0, ConcatProperties
<1>2. \A i \in 1 .. Len(t) : /\ Len(s) + i \in 1 .. Len(s) + Len(t)
                             /\ Len(s) + i \notin 1 .. Len(s)
                             /\ (s \o t)[Len(s) + i] = t[i]
  BY <1>0
<1>3. \A k \in 1 .. Len(s) + Len(t) :
        k \in 1 .. Len(s) \/ \E i \in 1 .. Len(t) : k = Len(s) + i
  <2> TAKE k \in 1 .. Len(s) + Len(t)
  <2>1. CASE k <= Len(s)
    BY <1>0, <2>1
  <2>2. CASE k > Len(s)
    <3>1. k - Len(s) \in 1 .. Len(t) /\ k = Len(s) + (k - Len(s))
      BY <1>0, <2>2
    <3> QED
      BY <3>1
  <2> QED
    BY <1>0, <2>1, <2>2
<1> DEFINE u == s \o t
<1>u. DOMAIN u = 1 .. Len(s) + Len(t) /\ u \in Seq(S)
  BY <1>0
<1>4. /\ \A i \in 1 .. Len(s) : i \in DOMAIN u /\ u[i] = s[i]
      /\ \A i \in 1 .. Len(t) : Len(s) + i \in DOMAIN u /\ u[Len(s) + i] = t[i]
  BY <1>1, <1>2, <1>u
<1> HIDE DEF u
<1>5. ToSet(u) = ToSet(s) \cup ToSet(t)
  <2>1. ASSUME NEW x \in ToSet(u) PROVE x \in ToSet(s) \cup ToSet(t)
    <3>1. PICK k \in 1 .. Len(s) + Len(t) : x = u[k]
      BY <1>u, <2>1 DEF ToSet
    <3> QED
      BY <1>0, <1>3, <1>4, <3>1 DEF ToSet
  <2>2. ASSUME NEW x \in ToSet(s) \cup ToSet(t) PROVE x \in ToSet(u)
    BY <1>0, <1>4, <2>2 DEF ToSet
  <2> QED
    BY <2>1, <2>2
<1>6. ASSUME Queue(u, S)
      PROVE  Queue(s, S) /\ Queue(t, S) /\ ToSet(s) \cap ToSet(t) = {}
  <2>1. IsInjective(s)
    BY <1>0, <1>4, <1>6 DEF Queue, IsInjective
  <2>2. IsInjective(t)
    <3> SUFFICES ASSUME NEW i \in 1 .. Len(t), NEW j \in 1 .. Len(t), t[i] = t[j]
                 PROVE  i = j
      BY <1>0 DEF IsInjective
    <3>1. Len(s) + i = Len(s) + j
      BY <1>4, <1>6 DEF Queue, IsInjective
    <3> QED
      BY <1>0, <3>1
  <2>3. ToSet(s) \cap ToSet(t) = {}
    <3> SUFFICES ASSUME NEW i \in 1 .. Len(s), NEW j \in 1 .. Len(t), s[i] = t[j]
                 PROVE  FALSE
      BY <1>0 DEF ToSet
    <3>1. i = Len(s) + j
      BY <1>4, <1>6 DEF Queue, IsInjective
    <3> QED
      BY <1>2, <3>1
  <2> QED
    BY <2>1, <2>2, <2>3 DEF Queue
<1>7. ASSUME Queue(s, S), Queue(t, S), ToSet(s) \cap ToSet(t) = {}
      PROVE  Queue(u, S)
  <2> SUFFICES ASSUME NEW i \in 1 .. Len(s) + Len(t), NEW j \in 1 .. Len(s) + Len(t),
                      u[i] = u[j]
               PROVE  i = j
    BY <1>u DEF Queue, IsInjective
  <2>0. /\ \A a, b \in 1 .. Len(s) : s[a] = s[b] => a = b
        /\ \A a, b \in 1 .. Len(t) : t[a] = t[b] => a = b
        /\ \A a \in 1 .. Len(s), b \in 1 .. Len(t) : s[a] # t[b]
    <3>1. /\ \A a, b \in 1 .. Len(s) : s[a] = s[b] => a = b
          /\ \A a, b \in 1 .. Len(t) : t[a] = t[b] => a = b
      BY <1>0, <1>7 DEF Queue, IsInjective
    <3>2. \A a \in 1 .. Len(s), b \in 1 .. Len(t) : s[a] \in ToSet(s) /\ t[b] \in ToSet(t)
      BY <1>0 DEF ToSet
    <3> QED
      BY <1>7, <3>1, <3>2
  <2>1. CASE i \in 1 .. Len(s)
    BY <1>3, <1>4, <2>0, <2>1
  <2>2. ASSUME NEW a \in 1 .. Len(t), i = Len(s) + a PROVE i = j
    <3>1. u[i] = t[a]
      BY <1>4, <2>2
    <3>2. PICK b \in 1 .. Len(t) : j = Len(s) + b
      BY <1>3, <1>4, <2>0, <3>1
    <3> QED
      BY <1>4, <2>0, <2>2, <3>1, <3>2
  <2> QED
    BY <1>3, <2>1, <2>2
<1> QED
  BY <1>5, <1>6, <1>7 DEF u

(* One more entry at the end. *)
LEMMA UnitQueue ==
  ASSUME NEW S, NEW e \in S
  PROVE  <<e>> \in Seq(S) /\ Queue(<<e>>, S) /\ ToSet(<<e>>) = {e}
BY DEF Queue, IsInjective, ToSet

(* A part of a queue. *)
LEMMA SubSeqQueue ==
  ASSUME NEW S, NEW s, Queue(s, S), NEW m \in 1 .. Len(s) + 1, NEW n \in 0 .. Len(s)
  PROVE  /\ Queue(SubSeq(s, m, n), S)
         /\ ToSet(SubSeq(s, m, n)) = EntriesAt(s, m .. n)
<1>0. s \in Seq(S) /\ Len(s) \in Nat /\ DOMAIN s = 1 .. Len(s) /\ m .. n \subseteq 1 .. Len(s)
  BY LenProperties DEF Queue
<1> DEFINE u == SubSeq(s, m, n)
           k == IF m <= n THEN n - m + 1 ELSE 0
<1>1. u \in Seq(S) /\ DOMAIN u = 1 .. k /\ \A i \in 1 .. k : u[i] = s[m + i - 1]
  BY <1>0, SubSeqProperties, LenProperties
<1>2. k \in Nat /\ \A i \in 1 .. k : m + i - 1 \in m .. n
  BY <1>0
<1>3. \A j \in m .. n : j - m + 1 \in 1 .. k /\ m + (j - m + 1) - 1 = j
  BY <1>0
<1> HIDE DEF u, k
<1>4. ToSet(u) = EntriesAt(s, m .. n)
  <2>1. ASSUME NEW x \in ToSet(u) PROVE x \in EntriesAt(s, m .. n)
    BY <1>1, <1>2, <2>1 DEF ToSet, EntriesAt
  <2>2. ASSUME NEW j \in m .. n PROVE s[j] \in ToSet(u)
    <3>1. j - m + 1 \in DOMAIN u /\ u[j - m + 1] = s[m + (j - m + 1) - 1]
      BY <1>1, <1>3
    <3>2. u[j - m + 1] = s[j]
      BY <1>3, <3>1
    <3> QED
      BY <3>1, <3>2 DEF ToSet
  <2> QED
    BY <2>1, <2>2 DEF EntriesAt
<1>5. IsInjective(u)
  <2> SUFFICES ASSUME NEW i \in 1 .. k, NEW j \in 1 .. k, u[i] = u[j] PROVE i = j
    BY <1>1 DEF IsInjective
  <2>1. m + i - 1 = m + j - 1
    BY <1>0, <1>1, <1>2 DEF Queue, IsInjective
  <2> QED
    BY <1>2, <2>1
<1> QED
  BY <1>1, <1>4, <1>5 DEF Queue, u

(* Two disjoint parts of a queue have nothing in common. *)
LEMMA QueueParts ==
  ASSUME NEW S, NEW s, Queue(s, S),
         NEW A \in SUBSET (1 .. Len(s)), NEW B \in SUBSET (1 .. Len(s)), A \cap B = {}
  PROVE  /\ EntriesAt(s, A) \cap EntriesAt(s, B) = {}
         /\ EntriesAt(s, A) \cup EntriesAt(s, B) = EntriesAt(s, A \cup B)
<1>1. DOMAIN s = 1 .. Len(s)
  BY LenProperties DEF Queue
<1>2. \A i \in A, j \in B : s[i] # s[j]
  BY <1>1 DEF Queue, IsInjective
<1> QED
  BY <1>2 DEF EntriesAt

(* An entry is put anywhere into a queue. *)
LEMMA InsertQueue ==
  ASSUME NEW S, NEW s, Queue(s, S), NEW e \in S, e \notin ToSet(s),
         NEW i \in 1 .. Len(s) + 1
  PROVE  Queue(InsertAt(s, i, e), S) /\ ToSet(InsertAt(s, i, e)) = ToSet(s) \cup {e}
<1>0. s \in Seq(S) /\ Len(s) \in Nat /\ DOMAIN s = 1 .. Len(s)
      /\ i - 1 \in 0 .. Len(s) /\ Len(s) \in 0 .. Len(s) /\ 1 \in 1 .. Len(s) + 1
      /\ (1 .. (i - 1)) \cap (i .. Len(s)) = {}
      /\ (1 .. (i - 1)) \cup (i .. Len(s)) = 1 .. Len(s)
  BY LenProperties DEF Queue
<1> DEFINE a == SubSeq(s, 1, i - 1)
           b == SubSeq(s, i, Len(s))
<1>1. /\ Queue(a, S) /\ ToSet(a) = EntriesAt(s, 1 .. (i - 1))
      /\ Queue(b, S) /\ ToSet(b) = EntriesAt(s, i .. Len(s))
  <2>1. Queue(a, S) /\ ToSet(a) = EntriesAt(s, 1 .. (i - 1))
    BY <1>0, SubSeqQueue
  <2>2. Queue(b, S) /\ ToSet(b) = EntriesAt(s, i .. Len(s))
    BY <1>0, SubSeqQueue
  <2> QED
    BY <2>1, <2>2
<1> HIDE DEF a, b
<1>2. ToSet(a) \cap ToSet(b) = {} /\ ToSet(a) \cup ToSet(b) = ToSet(s)
  <2>1. 1 .. (i - 1) \in SUBSET (1 .. Len(s)) /\ i .. Len(s) \in SUBSET (1 .. Len(s))
    BY <1>0
  <2>2. ToSet(s) = EntriesAt(s, 1 .. Len(s))
    BY <1>0 DEF ToSet, EntriesAt
  <2> QED
    <3>1. PICK A, B : A = 1 .. (i - 1) /\ B = i .. Len(s)
      OBVIOUS
    <3>2. A \in SUBSET (1 .. Len(s)) /\ B \in SUBSET (1 .. Len(s)) /\ A \cap B = {}
      BY <1>0, <2>1, <3>1
    <3>c. A \cup B = 1 .. Len(s)
      BY <1>0, <2>1, <3>1
    <3>3. /\ EntriesAt(s, A) \cap EntriesAt(s, B) = {}
          /\ EntriesAt(s, A) \cup EntriesAt(s, B) = EntriesAt(s, A \cup B)
      BY ONLY Queue(s, S), <3>2, QueueParts, Zenon
    <3>4. ToSet(a) = EntriesAt(s, A) /\ ToSet(b) = EntriesAt(s, B)
      BY <1>1, <3>1
    <3> QED
      BY <2>2, <3>c, <3>3, <3>4
<1>3. /\ a \in Seq(S) /\ b \in Seq(S) /\ <<e>> \in Seq(S)
      /\ Queue(<<e>>, S) /\ ToSet(<<e>>) = {e}
  BY <1>1, UnitQueue DEF Queue
<1>4. ToSet(a \o <<e>>) = ToSet(a) \cup {e} /\ Queue(a \o <<e>>, S)
  <2>1. ToSet(a) \cap ToSet(<<e>>) = {}
    BY <1>2, <1>3
  <2> QED
    BY <1>1, <1>3, <2>1, ConcatQueue
<1>5. a \o <<e>> \in Seq(S)
  BY <1>4 DEF Queue
<1>6. /\ ToSet(a \o <<e>> \o b) = ToSet(a) \cup {e} \cup ToSet(b)
      /\ Queue(a \o <<e>> \o b, S)
  <2>1. ToSet(a \o <<e>>) \cap ToSet(b) = {}
    BY <1>2, <1>4
  <2> QED
    <3>1. PICK w : w = a \o <<e>>
      OBVIOUS
    <3>2. ToSet(w \o b) = ToSet(w) \cup ToSet(b) /\ Queue(w \o b, S)
      BY <1>1, <1>3, <1>4, <1>5, <2>1, <3>1, ConcatQueue
    <3> QED
      BY <1>4, <3>1, <3>2
<1> QED
  BY <1>2, <1>6 DEF InsertAt, a, b

(* An entry leaves a queue. *)
LEMMA RemoveQueue ==
  ASSUME NEW S, NEW s, Queue(s, S), NEW e
  PROVE  Queue(RemoveFirst(s, e), S) /\ ToSet(RemoveFirst(s, e)) = ToSet(s) \ {e}
<1>0. s \in Seq(S) /\ Len(s) \in Nat /\ DOMAIN s = 1 .. Len(s)
  BY LenProperties DEF Queue
<1>1. CASE ~\E i \in 1 .. Len(s) : s[i] = e
  BY <1>0, <1>1 DEF RemoveFirst, ToSet
<1>2. ASSUME NEW i \in 1 .. Len(s), s[i] = e
      PROVE  Queue(RemoveFirst(s, e), S) /\ ToSet(RemoveFirst(s, e)) = ToSet(s) \ {e}
  <2>1. {j \in 1 .. Len(s) : s[j] = e} = {i}
    BY <1>0, <1>2 DEF Queue, IsInjective
  <2>2. SelectInSeq(s, LAMBDA v : v = e) = i
    <3>1. Min({i}) = i
      BY <1>0 DEF Min
    <3> QED
      BY <2>1, <3>1 DEF SelectInSeq
  <2>3. RemoveFirst(s, e) = SubSeq(s, 1, i - 1) \o SubSeq(s, i + 1, Len(s))
    BY <1>2, <2>2 DEF RemoveFirst, RemoveAt
  <2>4. /\ i - 1 \in 0 .. Len(s) /\ i + 1 \in 1 .. Len(s) + 1
        /\ Len(s) \in 0 .. Len(s) /\ 1 \in 1 .. Len(s) + 1
        /\ (1 .. (i - 1)) \cap ((i + 1) .. Len(s)) = {}
        /\ (1 .. (i - 1)) \cup ((i + 1) .. Len(s)) = 1 .. Len(s) \ {i}
    BY <1>0
  <2> DEFINE a == SubSeq(s, 1, i - 1)
             b == SubSeq(s, i + 1, Len(s))
  <2>5. /\ Queue(a, S) /\ ToSet(a) = EntriesAt(s, 1 .. (i - 1))
        /\ Queue(b, S) /\ ToSet(b) = EntriesAt(s, (i + 1) .. Len(s))
    BY <2>4, SubSeqQueue
  <2> HIDE DEF a, b
  <2>6. ToSet(a) \cap ToSet(b) = {} /\ ToSet(a) \cup ToSet(b) = ToSet(s) \ {e}
    <3>1. /\ 1 .. (i - 1) \in SUBSET (1 .. Len(s))
          /\ (i + 1) .. Len(s) \in SUBSET (1 .. Len(s))
      BY <2>4
    <3>2. EntriesAt(s, 1 .. Len(s) \ {i}) = ToSet(s) \ {e}
      <4>1. ToSet(s) = EntriesAt(s, 1 .. Len(s))
        BY <1>0 DEF ToSet, EntriesAt
      <4>2. \A j \in 1 .. Len(s) : s[j] = e => j = i
        BY <2>1
      <4> QED
        BY <1>2, <4>1, <4>2 DEF EntriesAt
    <3> QED
      <4>1. PICK A, B : A = 1 .. (i - 1) /\ B = (i + 1) .. Len(s)
        OBVIOUS
      <4>2. A \in SUBSET (1 .. Len(s)) /\ B \in SUBSET (1 .. Len(s)) /\ A \cap B = {}
        BY <2>4, <3>1, <4>1
      <4>c. A \cup B = 1 .. Len(s) \ {i}
        BY <2>4, <3>1, <4>1
      <4>3. /\ EntriesAt(s, A) \cap EntriesAt(s, B) = {}
            /\ EntriesAt(s, A) \cup EntriesAt(s, B) = EntriesAt(s, A \cup B)
        BY ONLY Queue(s, S), <4>2, QueueParts, Zenon
      <4>4. ToSet(a) = EntriesAt(s, A) /\ ToSet(b) = EntriesAt(s, B)
        BY <2>5, <4>1
      <4> QED
        BY <3>2, <4>c, <4>3, <4>4
  <2>7. Queue(a \o b, S) /\ ToSet(a \o b) = ToSet(a) \cup ToSet(b)
    <3>1. a \in Seq(S) /\ b \in Seq(S)
      BY <2>5 DEF Queue
    <3> QED
      BY <2>5, <2>6, <3>1, ConcatQueue
  <2> QED
    BY <2>3, <2>6, <2>7 DEF a, b
<1> QED
  BY <1>1, <1>2

(* What SetToSeqs makes of a finite set is a queue of all its members. *)
LEMMA SetQueue ==
  ASSUME NEW S, NEW T, IsFiniteSet(T), T \subseteq S, NEW s \in SetToSeqs(T)
  PROVE  Queue(s, S) /\ ToSet(s) = T
<1> DEFINE D == 1 .. Cardinality(T)
<1>1. Cardinality(T) \in Nat
  BY FS_CardinalityType
<1>2. s \in [D -> T] /\ IsInjective(s)
  BY DEF SetToSeqs, IsInjective
<1>3. s \in Seq(S)
  BY <1>1, <1>2
<1>4. IsFiniteSet(D) /\ Cardinality(D) = Cardinality(T)
  BY <1>1, FS_Interval
<1>5. s \in Surjection(D, T)
  BY <1>2, <1>4, FS_Injection DEF Injection
<1>6. ToSet(s) = T
  BY <1>2, <1>5 DEF Surjection, ToSet
<1> QED
  BY <1>2, <1>3, <1>6 DEF Queue

-----------------------------------------------------------------------------
(* The inductive invariant. *)

(* Every undelivered event is in exactly one place, once. *)
QueuesOK ==
  /\ Queue(old, Run) /\ Queue(fresh, Run) /\ waiting \subseteq Run
  /\ ToSet(old) \cap ToSet(fresh) = {}
  /\ ToSet(old) \cap waiting = {} /\ ToSet(fresh) \cap waiting = {}
  /\ ToSet(old) \cup ToSet(fresh) \cup waiting = {r \in Run : Undelivered(outbox[r])}

EventsOK ==
  \A r \in Run : outbox[r] # None =>
    /\ outbox[r].attempts \in 0 .. AttemptCap
    /\ outbox[r].delivery_status = "delivered" => r \in accepted

Listed == [run : Run, attempts : 0 .. AttemptCap]
Reply == {"none", "accepted", "retry", "refused"}

(* An answer is about the head of the batch, although other dispatchers    *)
(* may have settled the event since.                                       *)
BatchesOK ==
  /\ batch \in [Dispatcher -> Seq(Listed)]
  /\ reply \in [Dispatcher -> Reply]
  /\ token \in [Dispatcher -> BOOLEAN]
  /\ accepted \subseteq Run
  /\ \A d \in Dispatcher :
       /\ reply[d] # "none" => batch[d] # <<>>
       /\ reply[d] = "accepted" => Head(batch[d]).run \in accepted

DInv == StoreInv /\ QueuesOK /\ EventsOK /\ BatchesOK

(* It contains the types and what is promised of a delivered event. *)
LEMMA DInvGives == DInv => DTypeOK /\ DeliveredWasAccepted
<1> SUFFICES ASSUME DInv PROVE DTypeOK /\ DeliveredWasAccepted
  OBVIOUS
<1>1. old \in Seq(Run) /\ fresh \in Seq(Run)
  BY DEF DInv, QueuesOK, Queue
<1>2. /\ ToSet(old \o fresh) = ToSet(old) \cup ToSet(fresh)
      /\ IsInjective(old \o fresh)
  <2>1. Queue(old \o fresh, Run) /\ ToSet(old \o fresh) = ToSet(old) \cup ToSet(fresh)
    BY <1>1, ConcatQueue DEF DInv, QueuesOK
  <2> QED
    BY <2>1 DEF Queue
<1>3. TypeOK
  BY DEF DInv, StoreInv, TypeOK
<1>4. DTypeOK
  BY <1>1, <1>2, <1>3 DEF DInv, DTypeOK, QueuesOK, BatchesOK, Listed, Reply
<1> QED
  BY <1>4 DEF DInv, EventsOK, DeliveredWasAccepted

(* Nothing is scheduled at first. *)
LEMMA DInvInit == DInit => DInv
<1> SUFFICES ASSUME DInit PROVE DInv
  OBVIOUS
<1>1. StoreInv
  BY StoreInvInit DEF DInit
<1>2. QueuesOK
  BY QueueOfNothing DEF DInit, Init, QueuesOK, Undelivered
<1>3. EventsOK
  BY DEF DInit, Init, EventsOK
<1>4. BatchesOK
  BY DEF DInit, BatchesOK, Reply
<1> QED
  BY <1>1, <1>2, <1>3, <1>4 DEF DInv

-----------------------------------------------------------------------------
(* Steps of a dispatcher. *)

(* It goes on to the next event of its batch. *)
LEMMA AdvanceKeeps ==
  ASSUME BatchesOK, NEW d \in Dispatcher, batch[d] # <<>>, Advance(d),
         UNCHANGED <<token, accepted>>
  PROVE  BatchesOK'
<1>1. Tail(batch[d]) \in Seq(Listed)
  BY HeadTailProperties DEF BatchesOK
<1>2. /\ batch' \in [Dispatcher -> Seq(Listed)] /\ reply' \in [Dispatcher -> Reply]
      /\ reply'[d] = "none"
      /\ \A e \in Dispatcher \ {d} : batch'[e] = batch[e] /\ reply'[e] = reply[e]
  BY <1>1 DEF BatchesOK, Advance, Reply
<1> QED
  BY <1>2 DEF BatchesOK

(* It drops its batch. *)
LEMMA DropKeeps ==
  ASSUME BatchesOK, NEW d \in Dispatcher, batch' = [batch EXCEPT ![d] = <<>>],
         reply' \in [Dispatcher -> Reply], reply'[d] = "none",
         \A e \in Dispatcher \ {d} : reply'[e] = reply[e],
         token' \in [Dispatcher -> BOOLEAN],
         accepted \subseteq accepted', accepted' \subseteq Run
  PROVE  BatchesOK'
<1>1. /\ batch' \in [Dispatcher -> Seq(Listed)]
      /\ \A e \in Dispatcher \ {d} : batch'[e] = batch[e]
  BY DEF BatchesOK
<1> QED
  BY <1>1 DEF BatchesOK

(* It records an answer: of the events only an undelivered one changes,    *)
(* and of that one only how far its delivery has come.                     *)
LEMMA UpdateKeeps ==
  ASSUME StoreInv, EventsOK, NEW r \in Run,
         NEW status \in {"retry", "delivered", "configuration-failed"}, NEW n,
         Undelivered(outbox[r]) => n \in 0 .. AttemptCap,
         status = "delivered" => r \in accepted,
         UpdateEvent(r, [outbox[r] EXCEPT !.delivery_status = status, !.attempts = n]),
         UNCHANGED <<row, accepted>>
  PROVE  /\ StoreInv' /\ EventsOK'
         /\ \A q \in Run \ {r} : outbox'[q] = outbox[q]
         /\ ~Undelivered(outbox[r]) => outbox'[r] = outbox[r]
         /\ Undelivered(outbox'[r]) <=> Undelivered(outbox[r]) /\ status = "retry"
<1> DEFINE f == [outbox[r] EXCEPT !.delivery_status = status, !.attempts = n]
<1>0. outbox \in [Run -> Event \cup {None}]
  BY DEF StoreInv
<1>1. outbox' = [outbox EXCEPT ![r] = IF Undelivered(outbox[r]) THEN f ELSE outbox[r]]
  BY <1>0 DEF UpdateEvent
<1>2. CASE ~Undelivered(outbox[r])
  <2>1. outbox' = outbox
    BY <1>0, <1>1, <1>2
  <2> QED
    BY <1>2, <2>1 DEF StoreInv, EventsOK
<1>3. CASE Undelivered(outbox[r])
  <2>1. outbox[r] \in Event /\ n \in Nat
    BY <1>0, <1>3, CapAssumption DEF Undelivered
  <2>2. /\ f \in Event /\ f.delivery_status = status /\ f.attempts = n
        /\ f.terminal_status = outbox[r].terminal_status
    BY <2>1 DEF Event
  <2> HIDE DEF f
  <2>3. outbox' = [outbox EXCEPT ![r] = f] /\ f # None
    BY <1>1, <1>3, <2>2, NoneAssumption
  <2>4. /\ outbox' \in [Run -> Event \cup {None}] /\ outbox'[r] = f
        /\ \A q \in Run \ {r} : outbox'[q] = outbox[q]
    BY <1>0, <2>2, <2>3
  <2>5. ASSUME NEW q \in Run PROVE RowOK(row[q]) /\ EventOK(row[q], outbox'[q])
    <3>1. RowOK(row[q]) /\ EventOK(row[q], outbox[q])
      BY DEF StoreInv
    <3>2. CASE q = r
      BY <1>3, <2>2, <2>3, <2>4, <3>1, <3>2 DEF EventOK, Undelivered
    <3>3. CASE q # r
      BY <2>4, <3>1, <3>3
    <3> QED
      BY <3>1, <3>2, <3>3
  <2>6. StoreInv'
    BY <2>4, <2>5 DEF StoreInv
  <2>7. EventsOK'
    BY <1>3, <2>2, <2>4 DEF EventsOK
  <2>8. Undelivered(outbox'[r]) <=> status = "retry"
    BY <2>2, <2>3, <2>4 DEF Undelivered
  <2> QED
    BY <1>3, <2>4, <2>6, <2>7, <2>8
<1> QED
  BY <1>2, <1>3

(* A settled event leaves the queues. *)
LEMMA LeaveKeeps ==
  ASSUME QueuesOK, NEW r \in Run, LeaveQueue(r), ~Undelivered(outbox'[r]),
         \A q \in Run \ {r} : outbox'[q] = outbox[q]
  PROVE  QueuesOK'
<1>1. /\ Queue(old', Run) /\ ToSet(old') = ToSet(old) \ {r}
      /\ Queue(fresh', Run) /\ ToSet(fresh') = ToSet(fresh) \ {r}
      /\ waiting' = waiting \ {r}
  BY RemoveQueue DEF QueuesOK, LeaveQueue
<1> QED
  BY <1>1 DEF QueuesOK

(* A counted attempt stays within the cap. *)
LEMMA BumpType ==
  ASSUME NEW n \in 0 .. AttemptCap
  PROVE  Bump(n) \in 0 .. AttemptCap
BY CapAssumption DEF Bump

(* mark_callback_delivered *)
LEMMA DeliveredKeeps ==
  ASSUME DInv, NEW d \in Dispatcher, NEW r \in Run, MarkDelivered(d, r)
  PROVE  DInv'
<1>1. batch[d] # <<>> /\ r \in accepted
  BY DEF MarkDelivered, DInv, BatchesOK
<1>2. Undelivered(outbox[r]) => Bump(outbox[r].attempts) \in 0 .. AttemptCap
  BY BumpType DEF DInv, EventsOK, Undelivered
<1>3. UpdateEvent(r, [outbox[r] EXCEPT !.delivery_status = "delivered",
                                       !.attempts = Bump(outbox[r].attempts)])
  <2>1. CASE Undelivered(outbox[r])
    <3>1. outbox[r] \in Event
      BY <2>1 DEF DInv, StoreInv, Undelivered
    <3>2. [outbox[r] EXCEPT !.delivery_status = "delivered", !.attempts = Bump(@)]
            = [outbox[r] EXCEPT !.delivery_status = "delivered",
                                !.attempts = Bump(outbox[r].attempts)]
      BY <3>1 DEF Event
    <3> QED
      BY <3>2 DEF MarkDelivered
  <2>2. CASE ~Undelivered(outbox[r])
    BY <2>2, SMTT(20) DEF MarkDelivered, UpdateEvent, DInv, StoreInv
  <2> QED
    BY <2>1, <2>2
<1>4. /\ StoreInv' /\ EventsOK' /\ ~Undelivered(outbox'[r])
      /\ \A q \in Run \ {r} : outbox'[q] = outbox[q]
  BY <1>1, <1>2, <1>3, UpdateKeeps DEF MarkDelivered, DInv
<1>5. QueuesOK'
  BY <1>4, LeaveKeeps DEF MarkDelivered, DInv
<1>6. BatchesOK'
  BY <1>1, AdvanceKeeps, SMTT(20) DEF MarkDelivered, DInv
<1> QED
  BY <1>4, <1>5, <1>6 DEF DInv

(* mark_callback_configuration_failed *)
LEMMA ConfigurationFailedKeeps ==
  ASSUME DInv, NEW d \in Dispatcher, NEW r \in Run, MarkConfigurationFailed(d, r)
  PROVE  DInv'
<1>1. batch[d] # <<>> /\ Head(batch[d]) \in Listed
  BY HeadTailProperties, SMTT(20) DEF MarkConfigurationFailed, DInv, BatchesOK
<1>2. Bump(Head(batch[d]).attempts) \in 0 .. AttemptCap
  BY <1>1, BumpType, SMTT(20) DEF Listed
<1>3. /\ StoreInv' /\ EventsOK' /\ ~Undelivered(outbox'[r])
      /\ \A q \in Run \ {r} : outbox'[q] = outbox[q]
  BY <1>2, UpdateKeeps DEF MarkConfigurationFailed, DInv
<1>4. QueuesOK'
  BY <1>3, LeaveKeeps DEF MarkConfigurationFailed, DInv
<1>5. BatchesOK'
  BY <1>1, AdvanceKeeps DEF MarkConfigurationFailed, DInv
<1> QED
  BY <1>3, <1>4, <1>5 DEF DInv

(* reschedule_callback_delivery: the event moves to its new place, and one *)
(* that another dispatcher has settled stays where it is.                  *)
LEMMA RescheduleKeeps ==
  ASSUME DInv, NEW d \in Dispatcher, NEW r \in Run, NEW atOnce \in BOOLEAN,
         Reschedule(d, r, atOnce)
  PROVE  DInv'
<1>1. batch[d] # <<>> /\ Head(batch[d]) \in Listed
  BY HeadTailProperties, SMTT(20) DEF Reschedule, DInv, BatchesOK
<1>2. Bump(Head(batch[d]).attempts) \in 0 .. AttemptCap
  BY <1>1, BumpType, SMTT(20) DEF Listed
<1>3. /\ StoreInv' /\ EventsOK'
      /\ \A q \in Run \ {r} : outbox'[q] = outbox[q]
      /\ Undelivered(outbox'[r]) <=> Undelivered(outbox[r])
  BY <1>2, UpdateKeeps DEF Reschedule, DInv
<1>4. QueuesOK'
  <2>0. QueuesOK /\ {q \in Run : Undelivered(outbox'[q])}
                      = {q \in Run : Undelivered(outbox[q])}
    BY <1>3 DEF DInv
  <2>1. CASE ~Undelivered(outbox[r])
    BY <2>0, <2>1 DEF Reschedule, QueuesOK
  <2>2. CASE Undelivered(outbox[r])
    <3> DEFINE o == RemoveFirst(old, r)
    <3>1. Queue(o, Run) /\ ToSet(o) = ToSet(old) \ {r}
      BY <2>0, RemoveQueue DEF QueuesOK
    <3>2. Queue(fresh', Run) /\ ToSet(fresh') = ToSet(fresh) \ {r}
      BY <2>0, <2>2, RemoveQueue DEF QueuesOK, Reschedule
    <3>3. Queue(Append(o, r), Run) /\ ToSet(Append(o, r)) = ToSet(o) \cup {r}
      <4>1. o \in Seq(Run) /\ Append(o, r) = o \o <<r>> /\ <<r>> \in Seq(Run)
        BY <3>1, AppendIsConcat DEF Queue
      <4>2. ToSet(o) \cap ToSet(<<r>>) = {}
        BY <3>1, UnitQueue
      <4> QED
        <5> HIDE DEF o
        <5>1. Queue(<<r>>, Run) /\ ToSet(<<r>>) = {r}
          BY UnitQueue
        <5>2. Queue(o \o <<r>>, Run) /\ ToSet(o \o <<r>>) = ToSet(o) \cup ToSet(<<r>>)
          BY <3>1, <4>1, <4>2, <5>1, ConcatQueue
        <5> QED
          BY <4>1, <5>1, <5>2
    <3>4. CASE atOnce
      <4>1. old' = Append(o, r) /\ waiting' = waiting \ {r}
        BY <2>2, <3>4 DEF Reschedule
      <4> HIDE DEF o
      <4> QED
        BY <2>0, <2>2, <3>1, <3>2, <3>3, <4>1 DEF QueuesOK
    <3>5. CASE ~atOnce
      <4>1. old' = o /\ waiting' = waiting \cup {r}
        BY <2>2, <3>5 DEF Reschedule
      <4> HIDE DEF o
      <4> QED
        BY <2>0, <2>2, <3>1, <3>2, <4>1 DEF QueuesOK
    <3> QED
      BY <3>4, <3>5
  <2> QED
    BY <2>1, <2>2
<1>5. BatchesOK'
  BY <1>1, AdvanceKeeps DEF Reschedule, DInv
<1> QED
  BY <1>3, <1>4, <1>5, SMTT(20) DEF DInv

(* _deliver: what is posted is the head of the batch. *)
LEMMA PostKeeps ==
  ASSUME DInv, NEW d \in Dispatcher, NEW r \in Run, NEW outcome \in Outcome,
         Post(d, r, outcome)
  PROVE  DInv'
<1>1. /\ accepted \subseteq accepted' /\ accepted' \subseteq Run
      /\ outcome = "accepted" => r \in accepted'
  BY DEF Post, DInv, BatchesOK
<1>2. StoreInv' /\ QueuesOK'
  BY DEF Post, DInv, StoreInv, QueuesOK, storeVars
<1>3. EventsOK'
  BY <1>1 DEF Post, DInv, EventsOK, storeVars
<1>4. BatchesOK'
  <2>1. CASE outcome = "unexpected"
    BY <1>1, <2>1, DropKeeps DEF Post, DInv, BatchesOK
  <2>2. CASE outcome # "unexpected"
    <3>1. ReplyTo(outcome) \in Reply /\ (ReplyTo(outcome) = "accepted" => outcome = "accepted")
      BY DEF ReplyTo, Reply
    <3>2. /\ batch' = batch /\ batch[d] # <<>> /\ Head(batch[d]).run = r
          /\ reply' \in [Dispatcher -> Reply] /\ reply'[d] = ReplyTo(outcome)
          /\ \A e \in Dispatcher \ {d} : reply'[e] = reply[e]
          /\ token' = token
      BY <2>2, <3>1 DEF Post, DInv, BatchesOK
    <3> QED
      BY <1>1, <3>1, <3>2 DEF DInv, BatchesOK
  <2> QED
    BY <2>1, <2>2
<1> QED
  BY <1>2, <1>3, <1>4 DEF DInv

(* A failing record and the end of a process drop the batch. *)
LEMMA DroppedKeeps ==
  ASSUME DInv, NEW d \in Dispatcher, RecordFails(d) \/ Restart(d)
  PROVE  DInv'
<1>1. /\ batch' = [batch EXCEPT ![d] = <<>>] /\ reply' = [reply EXCEPT ![d] = "none"]
      /\ UNCHANGED <<storeVars, old, fresh, waiting, accepted>>
  BY DEF RecordFails, Restart
<1>2. token' \in [Dispatcher -> BOOLEAN]
  BY DEF RecordFails, Restart, DInv, BatchesOK
<1>3. BatchesOK'
  <2>1. /\ reply' \in [Dispatcher -> Reply] /\ reply'[d] = "none"
        /\ \A e \in Dispatcher \ {d} : reply'[e] = reply[e]
        /\ accepted' = accepted /\ accepted \subseteq Run /\ BatchesOK
    BY <1>1 DEF DInv, BatchesOK, Reply
  <2> QED
    BY <1>1, <1>2, <2>1, DropKeeps
<1> QED
  BY <1>1, <1>3 DEF DInv, StoreInv, QueuesOK, EventsOK, storeVars

(* list_due_callback_deliveries: what has become due goes behind what was  *)
(* due, and every listed event is undelivered.                             *)
LEMMA ListDueKeeps ==
  ASSUME DInv, NEW d \in Dispatcher, ListDue(d)
  PROVE  DInv'
<1> DEFINE due == old \o fresh
           size == IF Len(due) < BatchSize THEN Len(due) ELSE BatchSize
           listed == [i \in 1 .. size |-> [run |-> due[i],
                                           attempts |-> outbox[due[i]].attempts]]
<1>0. old \in Seq(Run) /\ fresh \in Seq(Run)
  BY DEF DInv, QueuesOK, Queue
<1>1. /\ ToSet(due) = ToSet(old) \cup ToSet(fresh) /\ Queue(due, Run)
  BY <1>0, ConcatQueue DEF DInv, QueuesOK
<1>2. /\ batch' = [batch EXCEPT ![d] = listed] /\ batch[d] = <<>>
      /\ old' = due /\ fresh' = <<>>
      /\ UNCHANGED <<storeVars, waiting, reply, token, crashes, accepted>>
  BY DEF ListDue
<1> HIDE DEF due
<1>3. QueuesOK'
  BY <1>1, <1>2, QueueOfNothing DEF DInv, QueuesOK, storeVars
<1>4. listed \in Seq(Listed)
  <2>1. Len(due) \in Nat /\ DOMAIN due = 1 .. Len(due) /\ due \in Seq(Run)
    BY <1>1, LenProperties DEF Queue
  <2>2. size \in Nat /\ 1 .. size \subseteq 1 .. Len(due)
    BY <2>1, BatchAssumption
  <2>3. ASSUME NEW i \in 1 .. size
        PROVE  [run |-> due[i], attempts |-> outbox[due[i]].attempts] \in Listed
    <3>1. due[i] \in ToSet(due)
      BY <2>1, <2>2 DEF ToSet
    <3>2. due[i] \in Run /\ Undelivered(outbox[due[i]])
      BY <1>1, <3>1 DEF DInv, QueuesOK
    <3>3. outbox[due[i]].attempts \in 0 .. AttemptCap
      BY <3>2 DEF DInv, EventsOK, Undelivered
    <3> QED
      BY <3>2, <3>3 DEF Listed
  <2> HIDE DEF size
  <2>4. \A i \in 1 .. size : listed[i] \in Listed
    BY <2>3
  <2> QED
    BY <2>2, <2>4, IsASeq
<1> HIDE DEF listed
<1>5. BatchesOK'
  <2>1. reply[d] = "none"
    BY <1>2 DEF DInv, BatchesOK
  <2>2. /\ batch' \in [Dispatcher -> Seq(Listed)]
        /\ \A e \in Dispatcher \ {d} : batch'[e] = batch[e]
    BY <1>2, <1>4 DEF DInv, BatchesOK
  <2> QED
    BY <1>2, <2>1, <2>2 DEF DInv, BatchesOK
<1> QED
  BY <1>2, <1>3, <1>5 DEF DInv, StoreInv, EventsOK, storeVars

(* The clock passes next_attempt_at. *)
LEMMA BecomesDueKeeps ==
  ASSUME DInv, NEW r \in Run, BecomesDue(r)
  PROVE  DInv'
<1>1. PICK i \in 1 .. Len(fresh) + 1 : fresh' = InsertAt(fresh, i, r)
  BY DEF BecomesDue
<1>2. /\ r \in waiting /\ waiting' = waiting \ {r}
      /\ UNCHANGED <<storeVars, old, batch, reply, token, crashes, accepted>>
  BY DEF BecomesDue
<1>3. Queue(fresh', Run) /\ ToSet(fresh') = ToSet(fresh) \cup {r}
  <2>1. Queue(fresh, Run) /\ r \notin ToSet(fresh)
    BY <1>2 DEF DInv, QueuesOK
  <2> QED
    BY <1>1, <2>1, InsertQueue
<1>4. QueuesOK'
  BY <1>2, <1>3 DEF DInv, QueuesOK, storeVars
<1> QED
  BY <1>2, <1>4 DEF DInv, StoreInv, EventsOK, BatchesOK, storeVars

(* A transaction of the store leaves the events alone and adds new ones    *)
(* that nobody has tried to deliver.                                       *)
LEMMA StoreAddsEvents ==
  ASSUME StoreInv, [Next]_storeVars, NEW r \in Run
  PROVE  /\ outbox[r] # None => outbox'[r] = outbox[r]
         /\ outbox[r] = None /\ outbox'[r] # None =>
              outbox'[r].delivery_status = "pending" /\ outbox'[r].attempts = 0
<1>1. outbox'[r] = Announced(row'[r], outbox[r])
  BY EveryRowSteps DEF Stepped
<1> QED
  BY <1>1 DEF Announced

LEMMA StoreStepKeeps ==
  ASSUME DInv, StoreStep
  PROVE  DInv'
<1> DEFINE added == {r \in Run : outbox[r] = None /\ outbox'[r] # None}
<1>0. /\ StoreInv /\ [Next]_storeVars
      /\ UNCHANGED <<old, waiting, batch, reply, token, crashes, accepted>>
  BY DEF DInv, StoreStep
<1>1. PICK s \in SetToSeqs(added) : fresh' = fresh \o s
  BY DEF StoreStep
<1>2. StoreInv'
  BY <1>0, StoreInvNext
<1>3. EventsOK'
  <2> SUFFICES ASSUME NEW r \in Run, outbox'[r] # None
               PROVE  /\ outbox'[r].attempts \in 0 .. AttemptCap
                      /\ outbox'[r].delivery_status = "delivered" => r \in accepted
    BY <1>0 DEF EventsOK
  <2>1. CASE outbox[r] # None
    BY <1>0, <2>1, StoreAddsEvents DEF DInv, EventsOK
  <2>2. CASE outbox[r] = None
    <3>1. outbox'[r].delivery_status = "pending" /\ outbox'[r].attempts = 0
      BY <1>0, <2>2, StoreAddsEvents
    <3> QED
      BY <3>1, CapAssumption
  <2> QED
    BY <2>1, <2>2
<1>4. QueuesOK'
  <2>1. IsFiniteSet(added)
    BY RunAssumption, FS_Subset
  <2>2. Queue(s, Run) /\ ToSet(s) = added
    BY <1>1, <2>1, SetQueue
  <2>3. \A r \in Run : Undelivered(outbox'[r]) <=> Undelivered(outbox[r]) \/ r \in added
    BY <1>0, StoreAddsEvents DEF Undelivered
  <2>4. \A r \in added : ~Undelivered(outbox[r])
    BY DEF Undelivered
  <2>5. fresh \in Seq(Run) /\ s \in Seq(Run) /\ Queue(fresh, Run)
    BY <2>2 DEF DInv, QueuesOK, Queue
  <2> HIDE DEF added
  <2>6. ToSet(fresh) \cap ToSet(s) = {}
    BY <2>2, <2>4 DEF DInv, QueuesOK
  <2>7. Queue(fresh', Run) /\ ToSet(fresh') = ToSet(fresh) \cup added
    BY <1>1, <2>2, <2>5, <2>6, ConcatQueue
  <2>8. added \subseteq Run
    BY DEF added
  <2> QED
    BY <1>0, <2>3, <2>4, <2>7, <2>8 DEF DInv, QueuesOK
<1>5. BatchesOK'
  BY <1>0 DEF DInv, BatchesOK
<1> QED
  BY <1>2, <1>3, <1>4, <1>5 DEF DInv

-----------------------------------------------------------------------------
(* The theorems. *)

LEMMA DInvNext == DInv /\ [DNext]_allVars => DInv'
<1> SUFFICES ASSUME DInv, [DNext]_allVars PROVE DInv'
  OBVIOUS
<1>1. CASE UNCHANGED allVars
  BY <1>1 DEF allVars, DInv, StoreInv, QueuesOK, EventsOK, BatchesOK
<1>2. CASE StoreStep
  BY <1>2, StoreStepKeeps
<1>3. ASSUME NEW r \in Run, BecomesDue(r) PROVE DInv'
  BY <1>3, BecomesDueKeeps
<1>4. ASSUME NEW d \in Dispatcher, ListDue(d) PROVE DInv'
  BY <1>4, ListDueKeeps
<1>5. ASSUME NEW d \in Dispatcher, RecordFails(d) \/ Restart(d) PROVE DInv'
  BY <1>5, DroppedKeeps
<1>6. ASSUME NEW d \in Dispatcher, NEW r \in Run, NEW outcome \in Outcome,
             Post(d, r, outcome)
      PROVE  DInv'
  BY <1>6, PostKeeps
<1>7. ASSUME NEW d \in Dispatcher, NEW r \in Run, Record(d, r) PROVE DInv'
  BY <1>7, DeliveredKeeps, ConfigurationFailedKeeps, RescheduleKeeps DEF Record
<1> QED
  BY <1>1, <1>2, <1>3, <1>4, <1>5, <1>6, <1>7 DEF DNext

(* Queues, events, batches and answers fit together, for any number of     *)
(* dispatchers over one outbox.                                            *)
THEOREM DispatcherInvariant == DSpec => []DInv
BY DInvInit, DInvNext, PTL DEF DSpec

(* Every undelivered event is scheduled in exactly one place, so none is   *)
(* forgotten and none is listed twice in a batch, although dispatchers     *)
(* with stale batches move and settle it.                                  *)
THEOREM DispatcherTypeCorrect == DSpec => []DTypeOK
BY DInvGives, DispatcherInvariant, PTL

(* No event is recorded as delivered that the orchestrator has not         *)
(* accepted.                                                               *)
THEOREM DispatcherDeliveredWasAccepted == DSpec => []DeliveredWasAccepted
BY DInvGives, DispatcherInvariant, PTL

(* How one step treats a settled event. *)
LEMMA SettledStays ==
  ASSUME DInv, [DNext]_allVars, NEW r \in Run, outbox[r] # None,
         ~Undelivered(outbox[r])
  PROVE  outbox'[r] = outbox[r]
<1>0. outbox \in [Run -> Event \cup {None}]
  BY DEF DInv, StoreInv
<1>1. CASE UNCHANGED allVars
  BY <1>1 DEF allVars
<1>2. CASE StoreStep
  BY <1>2, StoreAddsEvents DEF StoreStep, DInv
<1>3. ASSUME UNCHANGED storeVars PROVE outbox'[r] = outbox[r]
  BY <1>3 DEF storeVars
<1>4. ASSUME NEW q \in Run, NEW e, UpdateEvent(q, e) PROVE outbox'[r] = outbox[r]
  BY <1>0, <1>4 DEF UpdateEvent
<1>5. ASSUME NEW d \in Dispatcher, NEW q \in Run, Record(d, q)
      PROVE  outbox'[r] = outbox[r]
  <2>1. \E e : UpdateEvent(q, e)
    BY <1>5 DEF Record, MarkDelivered, MarkConfigurationFailed, Reschedule
  <2> QED
    BY <1>4, <2>1
<1> QED
  BY <1>1, <1>2, <1>3, <1>5
     DEF DNext, BecomesDue, ListDue, RecordFails, Restart, Post

(* A dispatcher with a stale batch cannot reopen or rewrite an event that  *)
(* another one has settled, and neither can a transaction of the store.    *)
THEOREM DispatcherSettledIsFinal == DSpec => SettledIsFinal
<1>1. DInv /\ [DNext]_allVars
        => [\A r \in Run : outbox[r] # None /\ ~Undelivered(outbox[r])
                             => outbox'[r] = outbox[r]]_allVars
  BY SettledStays
<1> QED
  BY <1>1, DispatcherInvariant, PTL DEF DSpec, SettledIsFinal

(* Delivery does not disturb the store: a run with a callback address has  *)
(* an event exactly when it has ended, and the event keeps reporting the   *)
(* status the run ended with, however often it is retried.                 *)
THEOREM DispatcherKeepsTheOutbox == DSpec => []OutboxTellsTheTruth
<1>1. DInv => OutboxTellsTheTruth
  BY DEF DInv, StoreInv, EventOK, OutboxTellsTheTruth
<1> QED
  BY <1>1, DispatcherInvariant, PTL

-----------------------------------------------------------------------------
(* What the store promises of the runs holds while they are delivered.     *)

(* A step of a dispatcher leaves the runs as they are; any other step is a *)
(* transaction of the store.                                               *)
LEMMA RowsUnderDelivery ==
  ASSUME DInv, [DNext]_allVars, NEW r \in Run
  PROVE  RowStep(row[r], row'[r])
<1>0. StoreInv /\ RowOK(row[r])
  BY DEF DInv, StoreInv
<1>1. CASE StoreStep
  BY <1>0, <1>1, EveryRowSteps DEF StoreStep, Stepped
<1>2. ASSUME row' = row PROVE RowStep(row[r], row'[r])
  BY <1>0, <1>2, SameRowStep
<1>3. CASE UNCHANGED allVars
  BY <1>2, <1>3 DEF allVars
<1>4. ASSUME NEW d \in Dispatcher, NEW q \in Run, Record(d, q) PROVE row' = row
  BY <1>4 DEF Record, MarkDelivered, MarkConfigurationFailed, Reschedule, UpdateEvent
<1> QED
  BY <1>1, <1>2, <1>3, <1>4
     DEF DNext, BecomesDue, ListDue, RecordFails, Restart, Post, storeVars

(* A run is owned exactly while it is running, whatever the dispatchers    *)
(* write to the outbox beside it.                                          *)
THEOREM DispatcherKeepsOwnership == DSpec => []OwnedWhileRunning
<1>1. DInv => OwnedWhileRunning
  BY DEF DInv, StoreInv, RowOK, OwnedWhileRunning
<1> QED
  BY <1>1, DispatcherInvariant, PTL

(* A cancellation recorded on a running run came after its cutoff. *)
THEOREM DispatcherKeepsTheCutoff == DSpec => []CancelRequestedOnlyPastCutoff
<1>1. DInv => CancelRequestedOnlyPastCutoff
  BY DEF DInv, StoreInv, RowOK, CancelRequestedOnlyPastCutoff
<1> QED
  BY <1>1, DispatcherInvariant, PTL

(* Nothing that is tried, retried or given up in the delivery of an event  *)
(* changes the run it reports.                                             *)
THEOREM DispatcherTerminalIsFinal == DSpec => TerminalIsFinal
<1>1. DInv /\ [DNext]_allVars
        => [\A r \in Run : IsTerminal(row[r]) =>
              row'[r] \in {row[r], [row[r] EXCEPT !.callback = TRUE]}]_storeVars
  BY RowsUnderDelivery DEF RowStep
<1> QED
  BY <1>1, DispatcherInvariant, PTL DEF DSpec, TerminalIsFinal

(* Neither does it replace staged bytes. *)
THEOREM DispatcherPreparedIsWriteOnce == DSpec => PreparedIsWriteOnce
<1>1. DInv /\ [DNext]_allVars
        => [\A r \in Run : row[r].prepared # None =>
              row'[r].prepared = row[r].prepared]_storeVars
  BY RowsUnderDelivery DEF RowStep
<1> QED
  BY <1>1, DispatcherInvariant, PTL DEF DSpec, PreparedIsWriteOnce

(* Past the cutoff a run completes or fails; it is never canceled. *)
THEOREM DispatcherCompletionBeatsCancel == DSpec => CompletionBeatsCancel
<1>1. DInv /\ [DNext]_allVars
        => [\A r \in Run : row[r].status = "running" /\ IsPending(row[r]) =>
              \/ row'[r].status = "running" /\ IsPending(row'[r])
              \/ row'[r].status = "completed" /\ row'[r].publication_state = "published"
              \/ row'[r].status = "failed" /\ row'[r].publication_state = "prepared"]_storeVars
  BY RowsUnderDelivery DEF RowStep
<1> QED
  BY <1>1, DispatcherInvariant, PTL DEF DSpec, CompletionBeatsCancel
=============================================================================
