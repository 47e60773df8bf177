------------------------------ MODULE Lending ------------------------------
(***************************************************************************)
(* What a lending desk promises, whatever tables it keeps: of every title  *)
(* a number of copies circulates; a record holds one of them from the day  *)
(* it is lent until it is settled, and is settled once.  Library.tla is    *)
(* shown to implement this module.                                         *)
(***************************************************************************)
EXTENDS Integers, FiniteSets

CONSTANTS
    Books,  \* titles
    Loans   \* records

VARIABLES
    copies,  \* copies[b]: copies of b that are lent or can be lent
    out,     \* out[b]: records that hold a copy of b
    settled  \* records that are closed

vars == <<copies, out, settled>>

Init ==
    /\ copies = [b \in Books |-> 0]
    /\ out = [b \in Books |-> {}]
    /\ settled = {}

\* A record takes a copy that nobody holds.
Lend(b, r) ==
    /\ r \notin settled
    /\ \A c \in Books : r \notin out[c]
    /\ Cardinality(out[b]) < copies[b]
    /\ out' = [out EXCEPT ![b] = @ \cup {r}]
    /\ UNCHANGED <<copies, settled>>

\* A record is settled, once; its copy stays in circulation or, written off,
\* leaves it.
Settle(b, r, gone) ==
    /\ r \in out[b]
    /\ out' = [out EXCEPT ![b] = @ \ {r}]
    /\ settled' = settled \cup {r}
    /\ copies' = IF gone THEN [copies EXCEPT ![b] = @ - 1] ELSE copies

\* Copies are bought or weeded out, never one that a record holds.
Restock(b) ==
    /\ copies'[b] \in Nat
    /\ copies'[b] >= Cardinality(out[b])
    /\ copies' = [copies EXCEPT ![b] = copies'[b]]
    /\ UNCHANGED <<out, settled>>

Next ==
    \E b \in Books :
        \/ \E r \in Loans : Lend(b, r)
        \/ \E r \in Loans, gone \in BOOLEAN : Settle(b, r, gone)
        \/ Restock(b)

Spec == Init /\ [][Next]_vars
=============================================================================
