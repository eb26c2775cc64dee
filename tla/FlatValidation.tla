--------------------------- MODULE FlatValidation ----------------------------
(****************************************************************************)
(* The stateless validation of src/verified_si.rs over the loop of           *)
(* src/lib_si_validate_exec.rs: version chains per cell name are flattened   *)
(* into one list of numbers, cells and values in one numbering, and the list *)
(* is scanned once.  Its dictionary is one of a call's own, without NULL.    *)
(*                                                                          *)
(* chains maps cell names to sequences of [time, val], order is the key      *)
(* order of that map, reads a list of cell names.                            *)
(****************************************************************************)
EXTENDS Interner

\* One version: its cell has a number already, its value may need one.
Push(acc, cell, version) ==
    LET n == Intern(acc.names, version.val) IN
    [names |-> n, flat |-> Append(acc.flat, [cell |-> n.to[cell],
                                             time |-> version.time,
                                             val |-> n.to[version.val]])]

FlattenCell(acc, cell, chain) ==
    FoldLeft(LAMBDA a, v : Push(a, cell, v),
             [acc EXCEPT !.names = Intern(@, cell)], chain)

Flattened(chains, order) ==
    FoldLeft(LAMBDA a, cell : FlattenCell(a, cell, chains[cell]),
             [names |-> EmptyNames, flat |-> << >>], order)

NumberedAnew(n, reads) ==
    [i \in DOMAIN reads |-> InternAll(EmptyNames, reads).to[reads[i]]]

ReadNumbers(n, reads) ==
    [i \in DOMAIN reads |-> InternAll(n, reads).to[reads[i]]]

\* The scan ends at the first stale entry.
Validate(flat, numbers, readTime) ==
    ~ \E i \in DOMAIN flat :
        Contains(numbers, flat[i].cell) /\ flat[i].time > readTime

ValidateFresh(chains, order, reads, readTime) ==
    LET f == Flattened(chains, order) IN
    Validate(f.flat, ReadNumbers(f.names, reads), readTime)

=============================================================================
