----------------------------- MODULE LossyStore -----------------------------
(***************************************************************************)
(* What the in-memory store promises: every operation acts at once on what *)
(* readers see of a key.  The store may forget keys at any time, and then  *)
(* operations start from nothing; it never shows a forgotten value again,  *)
(* nor a mixture of an old value and a new one.                            *)
(***************************************************************************)
EXTENDS KvContent

CONSTANTS Pushes, Increments

VARIABLE visible       \* what the readers of each key see

\* the contents an operation on one key can leave behind
Results(c) ==
    {SetTo(v) : v \in Strings \cup {Text}}
        \cup {IncrByOf(c, n) : n \in {m \in Increments : c.string # Text}}
        \cup {HSetOf(c, f, v) : f \in Fields, v \in Strings}
        \cup {HDelOf(c, F) : F \in SUBSET Fields}
        \cup {SAddOf(c, M) : M \in SUBSET Members}
        \cup {SRemOf(c, M) : M \in SUBSET Members}
        \cup {LPushOf(c, vs) : vs \in Pushes}
        \cup {RPushOf(c, vs) : vs \in Pushes}
        \cup {LPopOf(d) : d \in {e \in {c} : c.list # None /\ c.list # <<>>}}
        \cup {RPopOf(d) : d \in {e \in {c} : c.list # None /\ c.list # <<>>}}

Operate(k) == \E c \in Results(visible[k]) : visible' = [visible EXCEPT ![k] = c]

\* Del, expiry and eviction, of any number of keys
Forget(K) == visible' = [k \in Keys |-> IF k \in K THEN NoContent ELSE visible[k]]

\* MSet writes the keys it names; keys it names may be forgotten instead.
WriteAll(f, L) ==
    visible' = [k \in Keys |->
                   IF k \notin DOMAIN f THEN visible[k]
                   ELSE IF k \in L THEN NoContent ELSE SetTo(f[k])]

Init == visible = [k \in Keys |-> NoContent]

Next ==
    \/ \E k \in Keys : Operate(k)
    \/ \E K \in SUBSET Keys : Forget(K)
    \/ \E K \in SUBSET Keys : \E f \in [K -> Strings], L \in SUBSET K : WriteAll(f, L)

Spec == Init /\ [][Next]_visible

=============================================================================
