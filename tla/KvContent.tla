----------------------------- MODULE KvContent -----------------------------
(***************************************************************************)
(* What a key of the backend's key-value store holds (pkg/kv/store.go) and *)
(* what each operation makes of it.  memory.Store keeps four maps from     *)
(* keys to values, one for each kind of value; here a key's content is the *)
(* record of its entries in these maps, None where there is no entry.      *)
(* Strings are the integers they parse as, or Text.                        *)
(***************************************************************************)
EXTENDS Integers, Sequences

CONSTANTS
    Keys,
    Fields,            \* fields of hashes
    Members,           \* members of sets
    Strings,           \* values written to strings, hashes and lists
    None,              \* no entry
    Text               \* a string that is not a number

Content == [string : Int \cup {Text, None},
            hash : [Fields -> Strings \cup {None}] \cup {None},
            set : (SUBSET Members) \cup {None},
            list : Seq(Strings) \cup {None}]

NoContent == [string |-> None, hash |-> None, set |-> None, list |-> None]

EmptyHash == [f \in Fields |-> None]

SetTo(v) == [NoContent EXCEPT !.string = v]

IncrByOf(c, n) == [c EXCEPT !.string = (IF @ = None THEN 0 ELSE @) + n]

\* HSet, SAdd and the pushes clear the other kinds when they create their own;
\* SAdd and the pushes create it even when there is nothing to add.
HSetOf(c, f, v) ==
    IF c.hash = None
    THEN [NoContent EXCEPT !.hash = [EmptyHash EXCEPT ![f] = v]]
    ELSE [c EXCEPT !.hash = [c.hash EXCEPT ![f] = v]]

SAddOf(c, M) ==
    IF c.set = None THEN [NoContent EXCEPT !.set = M] ELSE [c EXCEPT !.set = @ \cup M]

\* values are pushed one by one, so that the last one ends up at the head
LPushOf(c, vs) ==
    LET rev == [i \in 1 .. Len(vs) |-> vs[Len(vs) + 1 - i]]
    IN  IF c.list = None THEN [NoContent EXCEPT !.list = rev] ELSE [c EXCEPT !.list = rev \o @]

RPushOf(c, vs) ==
    IF c.list = None THEN [NoContent EXCEPT !.list = vs] ELSE [c EXCEPT !.list = @ \o vs]

\* HDel, SRem and the pops drop a collection that became empty.
HDelOf(c, F) ==
    LET left == [f \in Fields |-> IF f \in F THEN None ELSE c.hash[f]]
    IN  [c EXCEPT !.hash = IF c.hash = None \/ left = EmptyHash THEN None ELSE left]

SRemOf(c, M) ==
    [c EXCEPT !.set = IF c.set = None \/ c.set \ M = {} THEN None ELSE c.set \ M]

LPopOf(c) == [c EXCEPT !.list = IF Len(@) = 1 THEN None ELSE Tail(@)]

RPopOf(c) == [c EXCEPT !.list = IF Len(@) = 1 THEN None ELSE SubSeq(@, 1, Len(@) - 1)]

=============================================================================
