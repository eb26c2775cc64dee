------------------------------ MODULE Detectors ------------------------------
(****************************************************************************)
(* The anomaly detectors of src/detectors.rs over a history of emitted       *)
(* operation records (src/oprecord.rs).  A record's read_set and read_values *)
(* are one function reads from cells to values, its write_set and            *)
(* write_values one function writes.                                         *)
(****************************************************************************)
EXTENDS Integers, Sequences, FiniteSetsExt

CONSTANT
    Null    \* the value of a cell nobody wrote

A1PairInside(r, s) ==
    \E c \in DOMAIN r.reads \cap DOMAIN s.writes :
        /\ r.readTime + 1 < s.writeTime
        /\ s.writeTime < r.writeTime
        /\ r.reads[c] # s.writes[c]

\* s wrote a cell r read, another value, strictly inside r's window.
\* As in the code, nothing asks whether r and s have one agent.
A1Pair(r, s) ==
    \E c \in DOMAIN r.reads \cap DOMAIN s.writes :
        /\ r.readTime < s.writeTime
        /\ s.writeTime < r.writeTime
        /\ r.reads[c] # s.writes[c]

A1Witnesses(h) ==
    {p \in (DOMAIN h) \X (DOMAIN h) : p[1] # p[2] /\ A1Pair(h[p[1]], h[p[2]])}

HasEarlierAntecedent(h, j, c) ==
    \E k \in DOMAIN h \ {j} :
        /\ c \in DOMAIN h[k].writes
        /\ h[k].writeTime < h[j].readTime
        /\ h[k].writes[c] = h[j].reads[c]

\* Another record of the history wrote the value r read from c, in time.
HasAntecedent(h, j, c) ==
    \E k \in DOMAIN h \ {j} :
        /\ c \in DOMAIN h[k].writes
        /\ h[k].writeTime <= h[j].readTime
        /\ h[k].writes[c] = h[j].reads[c]

A3Witnesses(h) ==
    {j \in DOMAIN h : \E c \in DOMAIN h[j].reads :
        h[j].reads[c] # Null /\ ~ HasAntecedent(h, j, c)}

\* The operation planned a tool it could see and used another or none.
A2Witnesses(h) ==
    {i \in DOMAIN h :
        /\ h[i].planned \in h[i].visible
        /\ h[i].planned \notin h[i].used}

\* Effects left in another order than they were issued.
A6Witnesses(h) == {i \in DOMAIN h : DOMAIN h[i].io # {} /\ h[i].io # h[i].co}

\* The first anomaly in this order decides the level; without any it is 4.
ClassifyLevel(h) ==
    LET found == << A1Witnesses(h), A3Witnesses(h),
                    A6Witnesses(h), A2Witnesses(h) >>
    IN  Min({i \in 1 .. 4 : found[i] # {}} \cup {5}) - 1

=============================================================================
