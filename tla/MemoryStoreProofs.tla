------------------------- MODULE MemoryStoreProofs -------------------------
(***************************************************************************)
(* The in-memory store implements LossyStore, for any keys, values, ttls   *)
(* and number of readers.                                                  *)
(***************************************************************************)
EXTENDS MemoryStore, FiniteSetTheorems, TLAPS

\* what readers see of the whole store: the refinement mapping
Seen == [k \in Keys |-> Visible(k)]

\* the keys whose deadline has passed
Expired == {k \in Keys : IsExpired(k)}

(***************************************************************************)
(* The inductive invariant: the maps cover the keys, deadlines can be      *)
(* compared with the clock, and readers evict keys of the store.           *)
(***************************************************************************)
StoreInv ==
    /\ data = [k \in Keys |-> data[k]]
    /\ expirations \in [Keys -> Nat \cup {None}]
    /\ now \in Nat
    /\ reader \in [Readers -> Keys \cup {None}]

-----------------------------------------------------------------------------
(* The operations of the two modules. *)

\* A Set leaves what LossyStore's does.
LEMMA SetResult ==
    ASSUME NEW c, NEW v \in Strings \cup {Text}
    PROVE  SetTo(v) \in Lossy!Results(c)
<1>1. SetTo(v) = Lossy!SetTo(v)
    BY DEF SetTo, Lossy!SetTo, NoContent, Lossy!NoContent
<1> QED
    BY <1>1 DEF Lossy!Results

\* So do the increments of a number,
LEMMA IncrByResult ==
    ASSUME NEW c, NEW n \in Increments, c.string # Text
    PROVE  IncrByOf(c, n) \in Lossy!Results(c)
<1>1. IncrByOf(c, n) = Lossy!IncrByOf(c, n)
    BY DEF IncrByOf, Lossy!IncrByOf
<1> QED
    BY <1>1 DEF Lossy!Results

\* the writes of hash fields
LEMMA HSetResult ==
    ASSUME NEW c, NEW f \in Fields, NEW v \in Strings
    PROVE  HSetOf(c, f, v) \in Lossy!Results(c)
<1>1. HSetOf(c, f, v) = Lossy!HSetOf(c, f, v)
    BY DEF HSetOf, Lossy!HSetOf, NoContent, Lossy!NoContent, EmptyHash, Lossy!EmptyHash
<1> QED
    BY <1>1 DEF Lossy!Results

\* and their removal,
LEMMA HDelResult ==
    ASSUME NEW c, NEW F \in SUBSET Fields
    PROVE  HDelOf(c, F) \in Lossy!Results(c)
<1>1. HDelOf(c, F) = Lossy!HDelOf(c, F)
    BY DEF HDelOf, Lossy!HDelOf, EmptyHash, Lossy!EmptyHash
<1> QED
    BY <1>1 DEF Lossy!Results

\* the additions to sets
LEMMA SAddResult ==
    ASSUME NEW c, NEW M \in SUBSET Members
    PROVE  SAddOf(c, M) \in Lossy!Results(c)
<1>1. SAddOf(c, M) = Lossy!SAddOf(c, M)
    BY DEF SAddOf, Lossy!SAddOf, NoContent, Lossy!NoContent
<1> QED
    BY <1>1 DEF Lossy!Results

\* and the removals from them,
LEMMA SRemResult ==
    ASSUME NEW c, NEW M \in SUBSET Members
    PROVE  SRemOf(c, M) \in Lossy!Results(c)
<1>1. SRemOf(c, M) = Lossy!SRemOf(c, M)
    BY DEF SRemOf, Lossy!SRemOf
<1> QED
    BY <1>1 DEF Lossy!Results

\* the pushes at the head
LEMMA LPushResult ==
    ASSUME NEW c, NEW vs \in Pushes
    PROVE  LPushOf(c, vs) \in Lossy!Results(c)
<1>1. LPushOf(c, vs) = Lossy!LPushOf(c, vs)
    BY DEF LPushOf, Lossy!LPushOf, NoContent, Lossy!NoContent
<1> QED
    BY <1>1 DEF Lossy!Results

\* and at the tail of lists,
LEMMA RPushResult ==
    ASSUME NEW c, NEW vs \in Pushes
    PROVE  RPushOf(c, vs) \in Lossy!Results(c)
<1>1. RPushOf(c, vs) = Lossy!RPushOf(c, vs)
    BY DEF RPushOf, Lossy!RPushOf, NoContent, Lossy!NoContent
<1> QED
    BY <1>1 DEF Lossy!Results

\* and the pops at the head
LEMMA LPopResult ==
    ASSUME NEW c, c.list # None, c.list # <<>>
    PROVE  LPopOf(c) \in Lossy!Results(c)
<1>1. LPopOf(c) = Lossy!LPopOf(c)
    BY DEF LPopOf, Lossy!LPopOf
<1> QED
    BY <1>1 DEF Lossy!Results

\* and at the tail of one that is not empty.
LEMMA RPopResult ==
    ASSUME NEW c, c.list # None, c.list # <<>>
    PROVE  RPopOf(c) \in Lossy!Results(c)
<1>1. RPopOf(c) = Lossy!RPopOf(c)
    BY DEF RPopOf, Lossy!RPopOf
<1> QED
    BY <1>1 DEF Lossy!Results

-----------------------------------------------------------------------------
(* What steps of the store are to its readers. *)

\* The maps start empty and cover the keys.
LEMMA StoreInvInit == Init => StoreInv
BY DEF Init, StoreInv

\* Every step keeps them so: deadlines are set from the clock and ttls only.
LEMMA StoreInvStep == StoreInv /\ [Next]_vars => StoreInv'
<1> SUFFICES ASSUME StoreInv, [Next]_vars
             PROVE  StoreInv'
    OBVIOUS
<1> USE MemoryAssumption
<1>1. ASSUME NEW K, Evict(K)
      PROVE  /\ data' = [k \in Keys |-> data'[k]]
             /\ expirations' \in [Keys -> Nat \cup {None}]
    BY <1>1 DEF Evict, StoreInv
<1>2. \A ttl \in TTLs : Deadline(ttl) \in Nat \cup {None}
    BY DEF Deadline, StoreInv
<1>3. ASSUME NEW k \in Keys, NEW c, Change(k, c)
      PROVE  StoreInv'
  <2>1. expirations' \in [Keys -> Nat \cup {None}]
      BY <1>3 DEF Change, StoreInv
  <2>2. data' = [j \in Keys |-> data'[j]]
      BY <1>3 DEF Change, StoreInv
  <2> QED
      BY <1>3, <2>1, <2>2 DEF Change, StoreInv
<1>4. ASSUME NEW k \in Keys, NEW v, NEW ttl \in TTLs, Set(k, v, ttl)
      PROVE  StoreInv'
  <2>1. expirations' \in [Keys -> Nat \cup {None}]
      BY <1>2, <1>4 DEF Set, StoreInv
  <2>2. data' = [j \in Keys |-> data'[j]]
      BY <1>4 DEF Set, StoreInv
  <2> QED
      BY <1>4, <2>1, <2>2 DEF Set, StoreInv
<1>5. ASSUME NEW k \in Keys, NEW ttl \in TTLs, Expire(k, ttl)
      PROVE  StoreInv'
  <2>1. CASE Evict({k})
      BY <1>1, <1>5, <2>1 DEF Expire, StoreInv
  <2>2. CASE expirations' = [expirations EXCEPT ![k] = Deadline(ttl)] /\ UNCHANGED data
    <3>1. expirations' \in [Keys -> Nat \cup {None}]
        BY <1>2, <2>2 DEF StoreInv
    <3> QED
        BY <1>5, <2>2, <3>1 DEF Expire, StoreInv
  <2> QED
      BY <1>5, <2>1, <2>2 DEF Expire
<1>6. ASSUME NEW K \in SUBSET Keys, NEW ttl \in TTLs, NEW f \in [K -> Strings], MSet(f, ttl)
      PROVE  StoreInv'
  <2>1. expirations' \in [Keys -> Nat \cup {None}]
      BY <1>2, <1>6 DEF MSet, StoreInv
  <2>2. data' = [j \in Keys |-> data'[j]]
      BY <1>6 DEF MSet
  <2> QED
      BY <1>6, <2>1, <2>2 DEF MSet, StoreInv
<1>7. ASSUME NEW k \in Keys, Write(k)
      PROVE  StoreInv'
  <2>1. CASE PopExpired(k)
      BY <1>1, <2>1 DEF PopExpired, StoreInv
  <2> QED
      BY <1>3, <1>4, <1>5, <1>7, <2>1
      DEF Write, IncrBy, HSet, HDel, SAdd, SRem, LPush, RPush, LPop, RPop
<1>8. CASE WriteMany
  <2>1. ASSUME NEW K \in SUBSET Keys, Del(K)
        PROVE  StoreInv'
      BY <1>1, <2>1 DEF Del, StoreInv
  <2> QED
      BY <1>6, <1>8, <2>1 DEF WriteMany
<1>9. ASSUME NEW p \in Readers, NEW k \in Keys, SeeExpired(p, k)
      PROVE  StoreInv'
    BY <1>9 DEF SeeExpired, StoreInv
<1>10. ASSUME NEW p \in Readers, EvictSeen(p)
      PROVE  StoreInv'
    BY <1>1, <1>10 DEF EvictSeen, StoreInv
<1>11. CASE EvictExpired
    BY <1>1, <1>11 DEF EvictExpired, StoreInv
<1>12. CASE FinishClose
    BY <1>1, <1>12 DEF FinishClose, StoreInv
<1>13. CASE BeginClose \/ JanitorStops \/ UNCHANGED vars
    BY <1>13 DEF BeginClose, JanitorStops, vars, StoreInv
<1>14. CASE Tick
    BY <1>14 DEF Tick, StoreInv
<1> QED
    BY <1>7, <1>8, <1>9, <1>10, <1>11, <1>12, <1>13, <1>14 DEF Next

\* Evicting keys is forgetting them.
LEMMA EvictForgets ==
    ASSUME StoreInv, NEW K \in SUBSET Keys, Evict(K), now' = now
    PROVE  Lossy!Forget(K)
<1> USE MemoryAssumption
<1>1. ASSUME NEW k \in Keys
      PROVE  Visible(k)' = IF k \in K THEN NoContent ELSE Visible(k)
  <2>1. CASE k \in K
    <3>1. data'[k] = NoContent /\ expirations'[k] = None
        BY <2>1 DEF Evict
    <3> QED
        BY <2>1, <3>1 DEF Visible, IsExpired
  <2>2. CASE k \notin K
    <3>1. data'[k] = data[k] /\ expirations'[k] = expirations[k]
        BY <2>2 DEF Evict
    <3> QED
        BY <2>2, <3>1 DEF Visible, IsExpired
  <2> QED
      BY <2>1, <2>2
<1>2. Lossy!NoContent = NoContent
    BY DEF NoContent, Lossy!NoContent
<1> QED
    BY <1>1, <1>2 DEF Lossy!Forget

\* A writer that evicts an expired key first acts on what readers see.
LEMMA ChangeOperates ==
    ASSUME StoreInv, NEW k \in Keys, NEW c \in Lossy!Results(Visible(k)), Change(k, c)
    PROVE  Lossy!Operate(k)
<1> USE MemoryAssumption
<1>1. Visible(k)' = c
  <2>1. data'[k] = c /\ now' = now
      BY DEF Change, StoreInv
  <2>2. expirations'[k] = IF IsExpired(k) THEN None ELSE expirations[k]
      BY DEF Change, StoreInv
  <2>3. ~IsExpired(k)'
      BY <2>1, <2>2 DEF IsExpired
  <2> QED
      BY <2>1, <2>3 DEF Visible
<1>2. ASSUME NEW j \in Keys, j # k
      PROVE  Visible(j)' = Visible(j)
  <2>1. data'[j] = data[j] /\ expirations'[j] = expirations[j] /\ now' = now
      BY <1>2 DEF Change, StoreInv
  <2> QED
      BY <2>1 DEF Visible, IsExpired
<1>3. Seen' = [Seen EXCEPT ![k] = c]
    BY <1>1, <1>2 DEF Seen
<1>4. Seen[k] = Visible(k)
    BY DEF Seen
<1> QED
    BY <1>3, <1>4 DEF Lossy!Operate, Seen

\* A step that leaves data, deadlines and the clock alone is none to the readers.
LEMMA QuietStep ==
    ASSUME UNCHANGED <<data, expirations, now>>
    PROVE  Seen' = Seen
BY DEF Seen, Visible, IsExpired

\* Set replaces the value, or readers go on seeing nothing: without a ttl it keeps
\* the deadline the key had, and that may have passed.
LEMMA SetOperates ==
    ASSUME StoreInv, NEW k \in Keys, NEW v \in Strings \cup {Text}, NEW ttl \in TTLs,
           Set(k, v, ttl)
    PROVE  Lossy!Operate(k) \/ Seen' = Seen
<1> USE MemoryAssumption
<1>1. data'[k] = SetTo(v) /\ now' = now
    BY DEF Set, StoreInv
<1>2. ASSUME NEW j \in Keys, j # k
      PROVE  Visible(j)' = Visible(j)
  <2>1. data'[j] = data[j] /\ expirations'[j] = expirations[j] /\ now' = now
      BY <1>2 DEF Set, StoreInv
  <2> QED
      BY <2>1 DEF Visible, IsExpired
<1>3. CASE IsExpired(k)'
  <2>1. ~(ttl > 0)
    <3> SUFFICES ASSUME ttl > 0
                 PROVE  FALSE
        OBVIOUS
    <3>1. expirations'[k] = now + ttl
        BY DEF Set, Deadline, StoreInv
    <3> QED
        BY <1>1, <1>3, <3>1 DEF IsExpired, StoreInv
  <2>2. expirations' = expirations
      BY <2>1 DEF Set
  <2>3. IsExpired(k)
      BY <1>1, <1>3, <2>2 DEF IsExpired
  <2>4. Visible(k)' = Visible(k)
      BY <1>3, <2>3 DEF Visible
  <2> QED
      BY <1>2, <2>4 DEF Seen
<1>4. CASE ~IsExpired(k)'
  <2>1. Visible(k)' = SetTo(v)
      BY <1>1, <1>4 DEF Visible
  <2>2. Seen' = [Seen EXCEPT ![k] = SetTo(v)]
      BY <1>2, <2>1 DEF Seen
  <2>3. SetTo(v) \in Lossy!Results(Seen[k])
      BY SetResult
  <2> QED
      BY <2>2, <2>3 DEF Lossy!Operate, Seen
<1> QED
    BY <1>3, <1>4

\* MSet writes all its keys at once; those whose old deadline has passed stay hidden.
LEMMA MSetWritesAll ==
    ASSUME StoreInv, NEW K \in SUBSET Keys, NEW ttl \in TTLs, NEW f \in [K -> Strings],
           MSet(f, ttl)
    PROVE  Lossy!WriteAll(f, K \cap Expired')
<1> DEFINE L == K \cap Expired'
<1>1. ASSUME NEW k \in Keys
      PROVE  Visible(k)' = IF k \notin DOMAIN f THEN Visible(k)
                           ELSE IF k \in L THEN NoContent ELSE SetTo(f[k])
  <2>1. CASE k \notin DOMAIN f
    <3>1. data'[k] = data[k] /\ expirations'[k] = expirations[k] /\ now' = now
        BY <2>1 DEF MSet
    <3> QED
        BY <2>1, <3>1 DEF Visible, IsExpired
  <2>2. CASE k \in DOMAIN f
    <3>1. data'[k] = SetTo(f[k])
        BY <2>2 DEF MSet
    <3> QED
        BY <2>2, <3>1 DEF Visible, Expired
  <2> QED
      BY <2>1, <2>2
<1>2. \A k \in DOMAIN f : Lossy!SetTo(f[k]) = SetTo(f[k])
    BY DEF SetTo, Lossy!SetTo, NoContent, Lossy!NoContent
<1>3. Lossy!NoContent = NoContent
    BY DEF NoContent, Lossy!NoContent
<1> QED
    BY <1>1, <1>2, <1>3 DEF Lossy!WriteAll

\* Expire evicts a key that has expired, and readers see no change when it moves the
\* deadline of one that has not.
LEMMA ExpireForgets ==
    ASSUME StoreInv, NEW k \in Keys, NEW ttl \in TTLs, Expire(k, ttl)
    PROVE  Lossy!Forget({k}) \/ Seen' = Seen
<1> USE MemoryAssumption
<1>1. CASE Evict({k})
    BY <1>1, EvictForgets DEF Expire
<1>2. CASE /\ Exists(k)
           /\ expirations' = [expirations EXCEPT ![k] = Deadline(ttl)]
           /\ UNCHANGED data
  <2>1. ~IsExpired(k)
      BY <1>2 DEF Exists, Visible
  <2>2. expirations'[k] = Deadline(ttl) /\ now' = now
      BY <1>2 DEF Expire, StoreInv
  <2>3. ~IsExpired(k)'
      BY <2>2 DEF IsExpired, Deadline, StoreInv
  <2>4. Visible(k)' = Visible(k)
      BY <1>2, <2>1, <2>3 DEF Visible
  <2>5. ASSUME NEW j \in Keys, j # k
        PROVE  Visible(j)' = Visible(j)
    <3>1. data'[j] = data[j] /\ expirations'[j] = expirations[j]
        BY <1>2, <2>5 DEF StoreInv
    <3> QED
        BY <2>2, <3>1 DEF Visible, IsExpired
  <2> QED
      BY <2>4, <2>5 DEF Seen
<1> QED
    BY <1>1, <1>2 DEF Expire

\* Time only hides values.
LEMMA TickForgets ==
    ASSUME StoreInv, Tick
    PROVE  Lossy!Forget(Expired')
<1>1. ASSUME NEW k \in Keys
      PROVE  Visible(k)' = IF IsExpired(k)' THEN NoContent ELSE Visible(k)
  <2>1. data'[k] = data[k] /\ expirations'[k] = expirations[k] /\ now' = now + 1
      BY DEF Tick
  <2>2. IsExpired(k) => IsExpired(k)'
      BY <2>1, MemoryAssumption DEF IsExpired, StoreInv
  <2> QED
      BY <2>1, <2>2 DEF Visible
<1>2. Lossy!NoContent = NoContent
    BY DEF NoContent, Lossy!NoContent
<1> QED
    BY <1>1, <1>2 DEF Lossy!Forget, Expired

\* Every step of the store is a step of LossyStore or invisible.
LEMMA StepRefines == StoreInv /\ [Next]_vars => Lossy!Next \/ Seen' = Seen
<1> SUFFICES ASSUME StoreInv, [Next]_vars
             PROVE  Lossy!Next \/ Seen' = Seen
    OBVIOUS
<1>1. ASSUME NEW k \in Keys, Lossy!Operate(k)
      PROVE  Lossy!Next
    BY <1>1 DEF Lossy!Next
<1>2. ASSUME NEW K \in SUBSET Keys, Lossy!Forget(K)
      PROVE  Lossy!Next
    BY <1>2 DEF Lossy!Next
<1>3. ASSUME NEW K \in SUBSET Keys, Evict(K), now' = now
      PROVE  Lossy!Next
    BY <1>2, <1>3, EvictForgets
<1>4. ASSUME NEW k \in Keys, NEW c, Change(k, c), c \in Lossy!Results(Visible(k))
      PROVE  Lossy!Next
    BY <1>1, <1>4, ChangeOperates
<1>5. ASSUME NEW k \in Keys, Write(k)
      PROVE  Lossy!Next \/ Seen' = Seen
  <2>1. ASSUME NEW v \in Strings \cup {Text}, NEW ttl \in TTLs, Set(k, v, ttl)
        PROVE  Lossy!Next \/ Seen' = Seen
      BY <1>1, <2>1, SetOperates
  <2>2. ASSUME NEW ttl \in TTLs, Expire(k, ttl)
        PROVE  Lossy!Next \/ Seen' = Seen
      BY <1>2, <2>2, ExpireForgets
  <2>3. ASSUME NEW n \in Increments, IncrBy(k, n)
        PROVE  Lossy!Next
      BY <1>4, <2>3, IncrByResult DEF IncrBy
  <2>4. ASSUME NEW f \in Fields, NEW v \in Strings, HSet(k, f, v)
        PROVE  Lossy!Next
      BY <1>4, <2>4, HSetResult DEF HSet
  <2>5. ASSUME NEW F \in SUBSET Fields, HDel(k, F)
        PROVE  Lossy!Next
      BY <1>4, <2>5, HDelResult DEF HDel
  <2>6. ASSUME NEW M \in SUBSET Members, SAdd(k, M) \/ SRem(k, M)
        PROVE  Lossy!Next
      BY <1>4, <2>6, SAddResult, SRemResult DEF SAdd, SRem
  <2>7. ASSUME NEW vs \in Pushes, LPush(k, vs) \/ RPush(k, vs)
        PROVE  Lossy!Next
      BY <1>4, <2>7, LPushResult, RPushResult DEF LPush, RPush
  <2>8. CASE LPop(k) \/ RPop(k)
      BY <1>4, <2>8, LPopResult, RPopResult DEF LPop, RPop, NonEmptyList
  <2>9. CASE PopExpired(k)
      BY <1>3, <2>9 DEF PopExpired
  <2> QED
      BY <1>5, <2>1, <2>2, <2>3, <2>4, <2>5, <2>6, <2>7, <2>8, <2>9 DEF Write
<1>6. CASE WriteMany
  <2>1. ASSUME NEW K \in SUBSET Keys, NEW ttl \in TTLs, NEW f \in [K -> Strings], MSet(f, ttl)
        PROVE  Lossy!Next
    <3>1. Lossy!WriteAll(f, K \cap Expired')
        BY <2>1, MSetWritesAll
    <3>2. K \cap Expired' \in SUBSET K
        OBVIOUS
    <3> QED
        BY <3>1, <3>2 DEF Lossy!Next
  <2>2. ASSUME NEW K \in SUBSET Keys, Del(K)
        PROVE  Lossy!Next
      BY <1>3, <2>2 DEF Del
  <2> QED
      BY <1>6, <2>1, <2>2 DEF WriteMany
<1>7. ASSUME NEW p \in Readers, EvictSeen(p)
      PROVE  Lossy!Next
  <2>1. {reader[p]} \in SUBSET Keys
      BY <1>7 DEF EvictSeen, StoreInv
  <2> QED
      BY <1>3, <1>7, <2>1 DEF EvictSeen
<1>8. CASE EvictExpired
    BY <1>3, <1>8 DEF EvictExpired
<1>9. CASE FinishClose
    BY <1>3, <1>9 DEF FinishClose
<1>10. CASE Tick
  <2>1. Expired' \in SUBSET Keys
      BY DEF Expired
  <2> QED
      BY <1>2, <1>10, <2>1, TickForgets
<1>11. CASE \/ BeginClose \/ JanitorStops \/ UNCHANGED vars
            \/ \E p \in Readers, k \in Keys : SeeExpired(p, k)
  <2>1. UNCHANGED <<data, expirations, now>>
      BY <1>11 DEF BeginClose, JanitorStops, SeeExpired, vars
  <2> QED
      BY <2>1, QuietStep
<1> QED
    BY <1>5, <1>6, <1>7, <1>8, <1>9, <1>10, <1>11 DEF Next

\* The in-memory store implements LossyStore: deadlines checked late, readers that
\* evict without looking again, the janitor and Close never bring an expired value
\* back, let an operation build on one or mix it with a new one (memory.Store).
THEOREM StoreImplementsLossy == Spec => ImplementsLossy
<1>1. Init => Lossy!Init
  <2> SUFFICES ASSUME Init
               PROVE  Lossy!Init
      OBVIOUS
  <2>1. \A k \in Keys : Visible(k) = Lossy!NoContent
      BY DEF Init, Visible, NoContent, Lossy!NoContent, IsExpired
  <2> QED
      BY <2>1 DEF Lossy!Init
<1>2. StoreInv /\ [Next]_vars => [Lossy!Next]_Seen
    BY StepRefines
<1> QED
    BY <1>1, <1>2, StoreInvInit, StoreInvStep, PTL DEF Spec, ImplementsLossy, Lossy!Spec, Seen

-----------------------------------------------------------------------------
(* Types. *)

\* No entries are well-formed entries.
LEMMA NoContentType == NoContent \in Content
BY DEF NoContent, Content

\* Writing strings and counting keep entries well formed,
LEMMA StringTypes ==
    /\ \A v \in Strings \cup {Text} : SetTo(v) \in Content
    /\ \A c \in Content, n \in Increments : c.string # Text => IncrByOf(c, n) \in Content
BY MemoryAssumption DEF SetTo, IncrByOf, NoContent, Content

\* as do the operations on hashes,
LEMMA HashTypes ==
    ASSUME NEW c \in Content
    PROVE  /\ \A f \in Fields, v \in Strings : HSetOf(c, f, v) \in Content
           /\ \A F \in SUBSET Fields : HDelOf(c, F) \in Content
<1>1. EmptyHash \in [Fields -> Strings \cup {None}]
    BY DEF EmptyHash
<1>2. ASSUME NEW h \in [Fields -> Strings \cup {None}] \cup {None}
      PROVE  [c EXCEPT !.hash = h] \in Content /\ [NoContent EXCEPT !.hash = h] \in Content
    BY <1>2 DEF Content, NoContent
<1>3. ASSUME NEW f \in Fields, NEW v \in Strings
      PROVE  HSetOf(c, f, v) \in Content
  <2>1. CASE c.hash = None
    <3>1. [EmptyHash EXCEPT ![f] = v] \in [Fields -> Strings \cup {None}]
        BY <1>1
    <3> QED
        BY <1>2, <2>1, <3>1 DEF HSetOf
  <2>2. CASE c.hash # None
    <3>1. [c.hash EXCEPT ![f] = v] \in [Fields -> Strings \cup {None}]
        BY <2>2 DEF Content
    <3> QED
        BY <1>2, <2>2, <3>1 DEF HSetOf
  <2> QED
      BY <2>1, <2>2
<1>4. ASSUME NEW F \in SUBSET Fields
      PROVE  HDelOf(c, F) \in Content
  <2> DEFINE left == [f \in Fields |-> IF f \in F THEN None ELSE c.hash[f]]
  <2>1. CASE c.hash = None
      BY <1>2, <2>1 DEF HDelOf
  <2>2. CASE c.hash # None
    <3>1. left \in [Fields -> Strings \cup {None}]
        BY <2>2 DEF Content
    <3>2. HDelOf(c, F) = [c EXCEPT !.hash = IF left = EmptyHash THEN None ELSE left]
        BY <2>2 DEF HDelOf
    <3> HIDE DEF left
    <3> QED
        BY <1>2, <3>1, <3>2
  <2> QED
      BY <2>1, <2>2
<1> QED
    BY <1>3, <1>4

\* on sets
LEMMA SetTypes ==
    ASSUME NEW c \in Content, NEW M \in SUBSET Members
    PROVE  SAddOf(c, M) \in Content /\ SRemOf(c, M) \in Content
<1>1. ASSUME NEW m \in (SUBSET Members) \cup {None}
      PROVE  [c EXCEPT !.set = m] \in Content /\ [NoContent EXCEPT !.set = m] \in Content
    BY <1>1 DEF Content, NoContent
<1>2. c.set \in (SUBSET Members) \cup {None}
    BY DEF Content
<1>3. SAddOf(c, M) \in Content
    BY <1>1, <1>2 DEF SAddOf
<1>4. SRemOf(c, M) \in Content
    BY <1>1, <1>2 DEF SRemOf
<1> QED
    BY <1>3, <1>4

\* and on lists.
LEMMA ListTypes ==
    ASSUME NEW c \in Content
    PROVE  /\ \A vs \in Pushes : LPushOf(c, vs) \in Content /\ RPushOf(c, vs) \in Content
           /\ c.list # None /\ c.list # <<>> => LPopOf(c) \in Content /\ RPopOf(c) \in Content
<1>1. ASSUME NEW l \in Seq(Strings) \cup {None}
      PROVE  [c EXCEPT !.list = l] \in Content /\ [NoContent EXCEPT !.list = l] \in Content
    BY <1>1 DEF Content, NoContent
<1>2. c.list \in Seq(Strings) \cup {None}
    BY DEF Content
<1>3. ASSUME NEW vs \in Pushes
      PROVE  LPushOf(c, vs) \in Content /\ RPushOf(c, vs) \in Content
  <2> DEFINE rev == [i \in 1 .. Len(vs) |-> vs[Len(vs) + 1 - i]]
  <2>1. vs \in Seq(Strings)
      BY MemoryAssumption
  <2>2. rev \in Seq(Strings)
      BY <2>1
  <2>3. LPushOf(c, vs) \in Content
    <3>1. LPushOf(c, vs) = IF c.list = None THEN [NoContent EXCEPT !.list = rev]
                           ELSE [c EXCEPT !.list = rev \o c.list]
        BY DEF LPushOf
    <3>2. c.list # None => rev \o c.list \in Seq(Strings)
        BY <1>2, <2>2
    <3> HIDE DEF rev
    <3> QED
        BY <1>1, <2>2, <3>1, <3>2
  <2>4. RPushOf(c, vs) \in Content
    <3>1. c.list # None => c.list \o vs \in Seq(Strings)
        BY <1>2, <2>1
    <3>2. RPushOf(c, vs) = IF c.list = None THEN [NoContent EXCEPT !.list = vs]
                           ELSE [c EXCEPT !.list = c.list \o vs]
        BY DEF RPushOf
    <3> QED
        BY <1>1, <2>1, <3>1, <3>2
  <2> QED
      BY <2>3, <2>4
<1>4. ASSUME c.list # None, c.list # <<>>
      PROVE  LPopOf(c) \in Content /\ RPopOf(c) \in Content
  <2>1. c.list \in Seq(Strings)
      BY <1>2, <1>4
  <2>2. Tail(c.list) \in Seq(Strings) /\ SubSeq(c.list, 1, Len(c.list) - 1) \in Seq(Strings)
      BY <1>4, <2>1
  <2>3. LPopOf(c) \in Content
      BY <1>1, <2>2 DEF LPopOf
  <2>4. RPopOf(c) \in Content
      BY <1>1, <2>2 DEF RPopOf
  <2> QED
      BY <2>3, <2>4
<1> QED
    BY <1>3, <1>4

\* A writer's result is well formed if what it started from is.
LEMMA DataTypeStep ==
    ASSUME MemTypeOK, [Next]_vars
    PROVE  data' \in [Keys -> Content]
<1> USE NoContentType
<1>1. \A k \in Keys : Visible(k) \in Content
    BY DEF Visible, MemTypeOK
<1>2. ASSUME NEW k \in Keys, NEW c \in Content, Change(k, c)
      PROVE  data' \in [Keys -> Content]
    BY <1>2 DEF Change, MemTypeOK
<1>3. ASSUME NEW K, Evict(K)
      PROVE  data' \in [Keys -> Content]
    BY <1>3 DEF Evict, MemTypeOK
<1>4. ASSUME NEW k \in Keys, Write(k)
      PROVE  data' \in [Keys -> Content]
  <2>1. ASSUME NEW v \in Strings \cup {Text}, NEW ttl \in TTLs, Set(k, v, ttl)
        PROVE  data' \in [Keys -> Content]
      BY <2>1, StringTypes DEF Set, MemTypeOK
  <2>2. ASSUME NEW ttl \in TTLs, Expire(k, ttl)
        PROVE  data' \in [Keys -> Content]
      BY <1>3, <2>2 DEF Expire, MemTypeOK
  <2>3. ASSUME NEW n \in Increments, IncrBy(k, n)
        PROVE  data' \in [Keys -> Content]
      BY <1>1, <1>2, <2>3, StringTypes DEF IncrBy
  <2>4. ASSUME NEW f \in Fields, NEW v \in Strings, HSet(k, f, v)
        PROVE  data' \in [Keys -> Content]
      BY <1>1, <1>2, <2>4, HashTypes DEF HSet
  <2>5. ASSUME NEW F \in SUBSET Fields, HDel(k, F)
        PROVE  data' \in [Keys -> Content]
      BY <1>1, <1>2, <2>5, HashTypes DEF HDel
  <2>6. ASSUME NEW M \in SUBSET Members, SAdd(k, M) \/ SRem(k, M)
        PROVE  data' \in [Keys -> Content]
      BY <1>1, <1>2, <2>6, SetTypes DEF SAdd, SRem
  <2>7. ASSUME NEW vs \in Pushes, LPush(k, vs) \/ RPush(k, vs)
        PROVE  data' \in [Keys -> Content]
      BY <1>1, <1>2, <2>7, ListTypes DEF LPush, RPush
  <2>8. CASE LPop(k) \/ RPop(k)
      BY <1>1, <1>2, <2>8, ListTypes DEF LPop, RPop, NonEmptyList
  <2>9. CASE PopExpired(k)
      BY <1>3, <2>9 DEF PopExpired
  <2> QED
      BY <1>4, <2>1, <2>2, <2>3, <2>4, <2>5, <2>6, <2>7, <2>8, <2>9 DEF Write
<1>5. CASE WriteMany
  <2>1. ASSUME NEW K \in SUBSET Keys, NEW ttl \in TTLs, NEW f \in [K -> Strings], MSet(f, ttl)
        PROVE  data' \in [Keys -> Content]
      BY <2>1, StringTypes DEF MSet, MemTypeOK
  <2>2. ASSUME NEW K \in SUBSET Keys, Del(K)
        PROVE  data' \in [Keys -> Content]
      BY <1>3, <2>2 DEF Del
  <2> QED
      BY <1>5, <2>1, <2>2 DEF WriteMany
<1>6. CASE \/ EvictExpired \/ FinishClose
           \/ \E p \in Readers : EvictSeen(p)
    BY <1>3, <1>6 DEF EvictExpired, FinishClose, EvictSeen
<1>7. CASE \/ BeginClose \/ JanitorStops \/ Tick \/ UNCHANGED vars
           \/ \E p \in Readers, k \in Keys : SeeExpired(p, k)
    BY <1>7 DEF BeginClose, JanitorStops, Tick, SeeExpired, vars, MemTypeOK
<1> QED
    BY <1>4, <1>5, <1>6, <1>7 DEF Next

\* The janitor and Close go through their stages only.
LEMMA StagesStep ==
    ASSUME MemTypeOK, [Next]_vars
    PROVE  /\ janitor' \in {"running", "stopped"}
           /\ status' \in {"open", "stopping", "closed"}
<1>1. \/ UNCHANGED <<janitor, status>> \/ BeginClose \/ JanitorStops \/ FinishClose
    BY DEF Next, vars, Write, WriteMany, Set, Expire, IncrBy, HSet, HDel, SAdd, SRem, LPush,
           RPush, LPop, RPop, PopExpired, Change, MSet, Del, SeeExpired, EvictSeen,
           EvictExpired, Tick
<1> QED
    BY <1>1 DEF BeginClose, JanitorStops, FinishClose, MemTypeOK

\* The maps of the store hold well-formed entries, whatever operations built them.
THEOREM StoreTypeCorrect == Spec => []MemTypeOK
<1>1. Init => MemTypeOK
    BY NoContentType DEF Init, MemTypeOK
<1>2. MemTypeOK /\ [Next]_vars => MemTypeOK'
  <2> SUFFICES ASSUME MemTypeOK, [Next]_vars
               PROVE  MemTypeOK'
      OBVIOUS
  <2>1. StoreInv'
    <3>1. StoreInv
        BY DEF MemTypeOK, StoreInv
    <3> QED
        BY <3>1, StoreInvStep
  <2> QED
      BY <2>1, DataTypeStep, StagesStep DEF MemTypeOK, StoreInv
<1> QED
    BY <1>1, <1>2, PTL DEF Spec

-----------------------------------------------------------------------------
(* Ranges of lists. *)

\* The first index of LRange, counted from the front and clamped, and the last one.
First(n, start) == IF start < 0 THEN IF n + start < 0 THEN 0 ELSE n + start ELSE start

Last(n, stop) ==
    LET hi == IF stop < 0 THEN n + stop ELSE stop
    IN  IF hi >= n THEN n - 1 ELSE hi

\* LRange cuts the list from the one to the other.
LEMMA LRangeCuts ==
    ASSUME NEW S, NEW list \in Seq(S), NEW start \in Int, NEW stop \in Int
    PROVE  LET from == First(Len(list), start)
               to == Last(Len(list), stop)
           IN  LRange(list, start, stop) =
                   IF from > to \/ from >= Len(list) THEN <<>> ELSE SubSeq(list, from + 1, to + 1)
BY DEF LRange, First, Last

\* The positions selected are an interval.
LEMMA SelectedInterval ==
    ASSUME NEW n \in Nat, NEW start \in Int, NEW stop \in Int
    PROVE  /\ First(n, start) \in Nat /\ Last(n, stop) \in Int /\ Last(n, stop) < n
           /\ Selected(n, start, stop) = First(n, start) .. Last(n, stop)
<1>1. First(n, start) \in Nat /\ Last(n, stop) \in Int /\ Last(n, stop) < n
    BY DEF First, Last
<1>2. ASSUME NEW i
      PROVE  i \in Selected(n, start, stop) <=> i \in First(n, start) .. Last(n, stop)
    BY DEF Selected, First, Last
<1> QED
    BY <1>1, <1>2

\* LRange returns what is selected, for every list and every pair of indices.
LEMMA LRangeIsSelection ==
    ASSUME NEW S, NEW list \in Seq(S), NEW start \in Int, NEW stop \in Int
    PROVE  LET got == LRange(list, start, stop)
               want == Selected(Len(list), start, stop)
           IN  /\ Len(got) = Cardinality(want)
               /\ \A i \in want : got[i + 1 - Cardinality({j \in 0 .. i : j \notin want})] = list[i + 1]
<1>1. PICK n \in Nat, from \in Nat, to \in Int :
         /\ n = Len(list) /\ from = First(n, start) /\ to = Last(n, stop) /\ to < n
         /\ Selected(n, start, stop) = from .. to
  <2>1. Len(list) \in Nat
      OBVIOUS
  <2> QED
      BY <2>1, SelectedInterval
<1> DEFINE got == LRange(list, start, stop)
           want == Selected(n, start, stop)
<1>2. want = from .. to
    BY <1>1
<1>3. Cardinality(want) = IF from > to THEN 0 ELSE to - from + 1
    BY <1>2, FS_Interval
<1>4. got = IF from > to THEN <<>> ELSE SubSeq(list, from + 1, to + 1)
    BY <1>1, LRangeCuts
<1> HIDE DEF got, want
<1>5. CASE from > to
  <2>1. want = {} /\ got = <<>> /\ Cardinality(want) = 0
      BY <1>2, <1>3, <1>4, <1>5
  <2>2. Len(got) = Cardinality(want)
      BY <2>1
  <2> QED
      BY <1>1, <2>1, <2>2 DEF got, want
<1>6. CASE from <= to
  <2>1. got = SubSeq(list, from + 1, to + 1)
      BY <1>4, <1>6
  <2>2. Len(got) = to - from + 1 /\ \A x \in 1 .. to - from + 1 : got[x] = list[from + x]
    <3>1. PICK a \in 1 .. Len(list), b \in 1 .. Len(list) : a = from + 1 /\ b = to + 1 /\ a <= b
        BY <1>1, <1>6
    <3>2. SubSeq(list, a, b) = [x \in 1 .. (b - a) + 1 |-> list[(a + x) - 1]]
        BY <3>1
    <3>3. Len(SubSeq(list, a, b)) = (b - a) + 1
        BY <3>1
    <3>4. ASSUME NEW x \in 1 .. (b - a) + 1
          PROVE  SubSeq(list, a, b)[x] = list[(a + x) - 1]
        BY <3>1, <3>2
    <3>5. (b - a) + 1 = to - from + 1
        BY <1>1, <3>1
    <3>6. ASSUME NEW x \in 1 .. to - from + 1
          PROVE  got[x] = list[from + x]
      <4>1. x \in 1 .. (b - a) + 1
          BY <3>5
      <4>2. (a + x) - 1 = from + x
        <5>1. x \in Int
            BY <1>1
        <5> QED
            BY <3>1, <5>1
      <4>3. got = SubSeq(list, a, b)
          BY <2>1, <3>1
      <4> QED
          BY <3>4, <4>1, <4>2, <4>3
    <3> QED
        BY <2>1, <3>1, <3>3, <3>5, <3>6
  <2>3. Len(got) = Cardinality(want)
      BY <1>3, <1>6, <2>2
  <2>4. ASSUME NEW i \in want
        PROVE  got[i + 1 - Cardinality({j \in 0 .. i : j \notin want})] = list[i + 1]
    <3>1. i \in Int /\ from <= i /\ i <= to
        BY <1>2
    <3>2. ASSUME NEW j
          PROVE  j \in {k \in 0 .. i : k \notin want} <=> j \in 0 .. from - 1
        BY <1>2, <3>1
    <3>3. {j \in 0 .. i : j \notin want} = 0 .. from - 1
        BY <3>2
    <3>4. Cardinality(0 .. from - 1) = from
        BY FS_Interval
    <3>5. i + 1 - from \in 1 .. to - from + 1 /\ from + (i + 1 - from) = i + 1
        BY <3>1
    <3> QED
        BY <2>2, <3>3, <3>4, <3>5
  <2> QED
      BY <1>1, <2>3, <2>4 DEF got, want
<1> QED
    BY <1>5, <1>6

\* LRange selects the right elements in their order from every list that pushes and pops
\* can build, and for every pair of indices.
THEOREM StoreLRangeSelects == Spec => []LRangeSelects
<1>1. ASSUME MemTypeOK PROVE LRangeSelects
  <2> SUFFICES ASSUME NEW k \in Keys, Visible(k).list # None,
                      NEW start \in -(MaxList + 1) .. MaxList + 1,
                      NEW stop \in -(MaxList + 1) .. MaxList + 1
               PROVE  LET list == Visible(k).list
                          got == LRange(list, start, stop)
                          want == Selected(Len(list), start, stop)
                      IN  /\ Len(got) = Cardinality(want)
                          /\ \A i \in want :
                                got[i + 1 - Cardinality({j \in 0 .. i : j \notin want})] = list[i + 1]
      BY DEF LRangeSelects
  <2>1. Visible(k) \in Content
      BY <1>1, NoContentType DEF MemTypeOK, Visible
  <2>2. Visible(k).list \in Seq(Strings)
      BY <2>1 DEF Content
  <2>3. start \in Int /\ stop \in Int
      BY MemoryAssumption
  <2> QED
      BY <2>2, <2>3, LRangeIsSelection
<1> QED
    BY <1>1, StoreTypeCorrect, PTL

=============================================================================
