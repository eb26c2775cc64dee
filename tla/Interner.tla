------------------------------ MODULE Interner -------------------------------
(****************************************************************************)
(* The dictionary of the store adapters (src/snapshot_isolation.rs,          *)
(* src/pessimistic.rs): one numbering for the names of agents, cells and     *)
(* values alike.  A module that extends this one and holds a dictionary in   *)
(* a variable calls InternAll where the code holds the lock of names.        *)
(****************************************************************************)
EXTENDS Integers, Sequences, SequencesExt

CONSTANT NullName       \* the string NULL

EmptyNames == [to |-> [s \in {} |-> 0], from |-> << >>]

Intern(n, s) ==
    IF s \in DOMAIN n.to THEN n
    ELSE [to |-> [u \in DOMAIN n.to \cup {s} |->
                    IF u = s THEN Len(n.from) ELSE n.to[u]],
          from |-> Append(n.from, s)]

\* NULL is 0, so that the store's answer for an unwritten cell is a name.
NewNames == Intern(EmptyNames, NullName)

InternAtOnce(n, list) ==
    LET new == SelectSeq(list, LAMBDA s : s \notin DOMAIN n.to) IN
    [to |-> [u \in DOMAIN n.to \cup ToSet(new) |->
               IF u \in DOMAIN n.to THEN n.to[u] ELSE Len(n.from)],
     from |-> n.from \o new]

InternAll(n, list) == FoldLeft(Intern, n, list)

NameOf(n, id) == n.from[id + 1]

\* A function on names as the function on their numbers, and back.
Numbered(n, f) ==
    [i \in {n.to[s] : s \in DOMAIN f} |->
        n.to[f[CHOOSE s \in DOMAIN f : n.to[s] = i]]]

Named(n, f) ==
    [s \in {NameOf(n, i) : i \in DOMAIN f} |-> NameOf(n, f[n.to[s]])]

-----------------------------------------------------------------------------
\* Numbers are handed out in order, each to one name ("a bijection").
Dictionary(n) ==
    /\ n.from \in Seq(DOMAIN n.to)
    /\ \A s \in DOMAIN n.to : n.to[s] \in 0 .. Len(n.from) - 1 /\ NameOf(n, n.to[s]) = s
    /\ \A i \in 0 .. Len(n.from) - 1 : n.to[NameOf(n, i)] = i

NumbersOf(n, S) == {n.to[s] : s \in S \cap DOMAIN n.to}

\* m names everything that n names, and names it the same.
Grows(n, m) ==
    \A s \in DOMAIN n.to : s \in DOMAIN m.to /\ m.to[s] = n.to[s]

=============================================================================
