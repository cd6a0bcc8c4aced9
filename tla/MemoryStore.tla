---------------------------- MODULE MemoryStore ----------------------------
(***************************************************************************)
(* The in-memory key-value store of the backend (pkg/kv/memory/store.go).  *)
(*                                                                         *)
(* Every method runs under the store's lock, with one exception: a reader  *)
(* that finds its key expired gives the read lock up and takes the write   *)
(* lock to evict the key, and does not look again.  Deadlines are kept in  *)
(* a map of their own and are checked when a key is used; a janitor        *)
(* goroutine evicts what nobody uses.                                      *)
(***************************************************************************)
EXTENDS KvContent, FiniteSets

CONSTANTS
    Readers,           \* goroutines that may be between the two locks
    TTLs,              \* ttl arguments; 0 stands for none and for ttl <= 0
    Pushes,            \* the values arguments of LPush and RPush
    Increments,        \* the n of IncrBy, and of DecrBy negated
    MaxTime,           \* bound on the clock
    MaxCount,          \* bound on counters
    MaxList            \* bound on the length of lists

ASSUME MemoryAssumption ==
    /\ None \notin Int /\ None \notin Keys
    /\ Text \notin Int /\ Text # None
    /\ Strings \subseteq Int
    /\ TTLs \subseteq Nat /\ Increments \subseteq Int
    /\ Pushes \subseteq Seq(Strings)
    /\ MaxTime \in Nat /\ MaxCount \in Nat /\ MaxList \in Nat

VARIABLES
    data,              \* the four maps: the content of each key
    expirations,       \* deadline of each key, or None
    now,               \* the clock
    reader,            \* the key a reader found expired and will evict
    janitor,           \* "running" until janitorStop; "stopped" closes janitorDone
    status             \* "open", "stopping" while Close waits, "closed"

vars == <<data, expirations, now, reader, janitor, status>>

IsExpired(k) == expirations[k] # None /\ now > expirations[k]

\* what the methods that read a key see of it
Visible(k) == IF IsExpired(k) THEN NoContent ELSE data[k]

\* Exists counts a key that has an entry of any kind.
Exists(k) == Visible(k) # NoContent

\* TTL looks at the deadline first: -1 for a key without one, 0 for one that passed
TTL(k) ==
    IF expirations[k] = None
    THEN IF data[k] = NoContent THEN None ELSE -1
    ELSE IF expirations[k] <= now THEN 0 ELSE expirations[k] - now

\* Mutant: a range of one element is taken for an empty one
LRangeExclusive(list, start, stop) ==
    LET n == Len(list)
        lo == IF start < 0 THEN n + start ELSE start
        hi == IF stop < 0 THEN n + stop ELSE stop
        from == IF lo < 0 THEN 0 ELSE lo
        to == IF hi >= n THEN n - 1 ELSE hi
    IN  IF from >= to \/ from >= n THEN <<>> ELSE SubSeq(list, from + 1, to + 1)

\* LRange: negative indices count from the end, both are clamped, 0-based
LRange(list, start, stop) ==
    LET n == Len(list)
        lo == IF start < 0 THEN n + start ELSE start
        hi == IF stop < 0 THEN n + stop ELSE stop
        from == IF lo < 0 THEN 0 ELSE lo
        to == IF hi >= n THEN n - 1 ELSE hi
    IN  IF from > to \/ from >= n THEN <<>> ELSE SubSeq(list, from + 1, to + 1)

-----------------------------------------------------------------------------
(* Writers.  Nothing looks at whether the store was closed: Close leaves   *)
(* empty maps behind, and a call after it works on those.                  *)

\* setExpiration: a ttl that is not positive removes the deadline
Deadline(ttl) == IF ttl > 0 THEN now + ttl ELSE None

\* Mutant: the entries of the other kinds stay
SetKeepsOthers(k, v, ttl) ==
    /\ data' = [data EXCEPT ![k].string = v]
    /\ expirations' = IF ttl > 0 THEN [expirations EXCEPT ![k] = Deadline(ttl)] ELSE expirations
    /\ UNCHANGED <<now, reader, janitor, status>>

\* Set without a ttl keeps the deadline the key had.
Set(k, v, ttl) ==
    /\ data' = [data EXCEPT ![k] = SetTo(v)]
    /\ expirations' = IF ttl > 0 THEN [expirations EXCEPT ![k] = Deadline(ttl)] ELSE expirations
    /\ UNCHANGED <<now, reader, janitor, status>>

MSet(f, ttl) ==
    /\ data' = [k \in Keys |-> IF k \in DOMAIN f THEN SetTo(f[k]) ELSE data[k]]
    /\ expirations' = [k \in Keys |-> IF k \in DOMAIN f /\ ttl > 0 THEN Deadline(ttl)
                                      ELSE expirations[k]]
    /\ UNCHANGED <<now, reader, janitor, status>>

\* deleteKeyUnsafe and delete(s.expirations, key)
Evict(K) ==
    /\ data' = [k \in Keys |-> IF k \in K THEN NoContent ELSE data[k]]
    /\ expirations' = [k \in Keys |-> IF k \in K THEN None ELSE expirations[k]]

Del(K) ==
    /\ Evict(K)
    /\ UNCHANGED <<now, reader, janitor, status>>

Expire(k, ttl) ==
    /\ \/ /\ IsExpired(k)
          /\ Evict({k})
       \/ /\ Exists(k)
          /\ expirations' = [expirations EXCEPT ![k] = Deadline(ttl)]
          /\ UNCHANGED data
    /\ UNCHANGED <<now, reader, janitor, status>>

\* The other writers evict an expired key first and keep a running deadline,
\* even when they leave the key without an entry.
Change(k, c) ==
    /\ data' = [data EXCEPT ![k] = c]
    /\ expirations' = [expirations EXCEPT ![k] = IF IsExpired(k) THEN None ELSE @]
    /\ UNCHANGED <<now, reader, janitor, status>>

IncrBy(k, n) ==
    /\ Visible(k).string # Text
    /\ IncrByOf(Visible(k), n).string \in -MaxCount .. MaxCount
    /\ Change(k, IncrByOf(Visible(k), n))

HSet(k, f, v) == Change(k, HSetOf(Visible(k), f, v))

HDel(k, F) == Change(k, HDelOf(Visible(k), F))

SAdd(k, M) == Change(k, SAddOf(Visible(k), M))

SRem(k, M) == Change(k, SRemOf(Visible(k), M))

LPush(k, vs) ==
    /\ Len(LPushOf(Visible(k), vs).list) <= MaxList
    /\ Change(k, LPushOf(Visible(k), vs))

RPush(k, vs) ==
    /\ Len(RPushOf(Visible(k), vs).list) <= MaxList
    /\ Change(k, RPushOf(Visible(k), vs))

NonEmptyList(k) == Visible(k).list # None /\ Visible(k).list # <<>>

LPop(k) == NonEmptyList(k) /\ Change(k, LPopOf(Visible(k)))

RPop(k) == NonEmptyList(k) /\ Change(k, RPopOf(Visible(k)))

-----------------------------------------------------------------------------
(* Get, HGet, HGetAll, SMembers, SIsMember and LRange of an expired key,   *)
(* which is also how the pops treat one.                                   *)

SeeExpired(p, k) ==
    /\ reader[p] = None
    /\ IsExpired(k)
    /\ reader' = [reader EXCEPT ![p] = k]
    /\ UNCHANGED <<data, expirations, now, janitor, status>>

EvictSeen(p) ==
    /\ reader[p] # None
    /\ Evict({reader[p]})
    /\ reader' = [reader EXCEPT ![p] = None]
    /\ UNCHANGED <<now, janitor, status>>

PopExpired(k) ==
    /\ IsExpired(k)
    /\ Evict({k})
    /\ UNCHANGED <<now, reader, janitor, status>>

-----------------------------------------------------------------------------
(* The janitor and Close. *)

\* Mutant: the deadline of an evicted key stays in its map
EvictDataOnly ==
    /\ janitor = "running"
    /\ \E k \in Keys : IsExpired(k)
    /\ data' = [k \in Keys |-> IF IsExpired(k) THEN NoContent ELSE data[k]]
    /\ UNCHANGED <<expirations, now, reader, janitor, status>>

EvictExpired ==
    /\ janitor = "running"
    /\ \E k \in Keys : IsExpired(k)
    /\ Evict({k \in Keys : IsExpired(k)})
    /\ UNCHANGED <<now, reader, janitor, status>>

\* the program closes the store once; close(janitorStop) would panic in a second Close
BeginClose ==
    /\ status = "open"
    /\ status' = "stopping"
    /\ UNCHANGED <<data, expirations, now, reader, janitor>>

JanitorStops ==
    /\ janitor = "running" /\ status = "stopping"
    /\ janitor' = "stopped"
    /\ UNCHANGED <<data, expirations, now, reader, status>>

FinishClose ==
    /\ status = "stopping" /\ janitor = "stopped"
    /\ Evict(Keys)
    /\ status' = "closed"
    /\ UNCHANGED <<now, reader, janitor>>

Tick ==
    /\ now < MaxTime
    /\ now' = now + 1
    /\ UNCHANGED <<data, expirations, reader, janitor, status>>

-----------------------------------------------------------------------------

\* New: without a janitor interval janitorDone is closed from the start
Init ==
    /\ data = [k \in Keys |-> NoContent]
    /\ expirations = [k \in Keys |-> None]
    /\ now = 0
    /\ reader = [p \in Readers |-> None]
    /\ janitor \in {"running", "stopped"}
    /\ status = "open"

Write(k) ==
    \/ \E v \in Strings \cup {Text}, ttl \in TTLs : Set(k, v, ttl)
    \/ \E ttl \in TTLs : Expire(k, ttl)
    \/ \E n \in Increments : IncrBy(k, n)
    \/ \E f \in Fields, v \in Strings : HSet(k, f, v)
    \/ \E F \in SUBSET Fields : HDel(k, F)
    \/ \E M \in SUBSET Members : SAdd(k, M)
    \/ \E M \in SUBSET Members : SRem(k, M)
    \/ \E vs \in Pushes : LPush(k, vs)
    \/ \E vs \in Pushes : RPush(k, vs)
    \/ LPop(k)
    \/ RPop(k)
    \/ PopExpired(k)

WriteMany ==
    \/ \E K \in SUBSET Keys, ttl \in TTLs : \E f \in [K -> Strings] : MSet(f, ttl)
    \/ \E K \in SUBSET Keys : Del(K)

Next ==
    \/ \E k \in Keys : Write(k)
    \/ WriteMany
    \/ \E p \in Readers, k \in Keys : SeeExpired(p, k)
    \/ \E p \in Readers : EvictSeen(p)
    \/ EvictExpired
    \/ BeginClose
    \/ JanitorStops
    \/ FinishClose
    \/ Tick

Spec == Init /\ [][Next]_vars

\* The janitor's goroutine and a caller of Close keep running.
FairSpec ==
    /\ Spec
    /\ WF_vars(EvictExpired)
    /\ WF_vars(JanitorStops)
    /\ WF_vars(FinishClose)

-----------------------------------------------------------------------------

\* Type invariant: every key has well-formed entries in the four maps.
MemTypeOK ==
    /\ data \in [Keys -> Content]
    /\ expirations \in [Keys -> Nat \cup {None}]
    /\ now \in Nat
    /\ reader \in [Readers -> Keys \cup {None}]
    /\ janitor \in {"running", "stopped"}
    /\ status \in {"open", "stopping", "closed"}

(***************************************************************************)
(* The store implements LossyStore: lazily checked deadlines, readers that *)
(* evict without looking again and the janitor never bring an expired      *)
(* value back, let an operation build on one, or mix it with a new one.    *)
(***************************************************************************)
Lossy == INSTANCE LossyStore WITH visible <- [k \in Keys |-> Visible(k)]
ImplementsLossy == Lossy!Spec

\* 0-based positions of a list of length n that a range of LRange selects
Selected(n, start, stop) ==
    LET At(i) == IF i < 0 THEN n + i ELSE i
    IN  {i \in 0 .. n - 1 : At(start) <= i /\ i <= At(stop)}

(***************************************************************************)
(* LRange returns the selected elements in their order, for every pair of  *)
(* indices in and out of range, whatever pushes and pops built the list.   *)
(***************************************************************************)
LRangeSelects ==
    \A k \in Keys : Visible(k).list # None =>
        \A start, stop \in -(MaxList + 1) .. MaxList + 1 :
            LET list == Visible(k).list
                got == LRange(list, start, stop)
                want == Selected(Len(list), start, stop)
            IN  /\ Len(got) = Cardinality(want)
                /\ \A i \in want : got[i + 1 - Cardinality({j \in 0 .. i : j \notin want})] = list[i + 1]

(***************************************************************************)
(* Expired entries do not pile up: with a janitor, and as long as the      *)
(* store is open, a key's expired entries are removed or replaced.         *)
(***************************************************************************)
ExpiredReclaimed ==
    \A k \in Keys : (IsExpired(k) /\ janitor = "running")
                        ~> (~IsExpired(k) \/ janitor = "stopped")

\* Close returns: it waits for the janitor, which never waits for Close.
CloseReturns == status = "stopping" ~> status = "closed"

\* The janitor does its work and can be stopped (janitor, evictExpired, Close).
JanitorProgress == ExpiredReclaimed /\ CloseReturns

=============================================================================
