---------------------------- MODULE OrderedTree ----------------------------
(***************************************************************************)
(* What a tree of kiwidb promises its callers (spec 4.2): a set of values *)
(* with Insert, Delete and Range.  Range(min, max, exclusive, reverse)    *)
(* hands the callback the values of the present bounds' type between      *)
(* them, each once, values of one type in their order (reversed for a     *)
(* reverse scan), until the callback returns an error.  How values of     *)
(* different types interleave in an unbounded scan is left open.  There  *)
(* are no namespaces, byte keys or iterators at this level.               *)
(***************************************************************************)
EXTENDS Naturals, Sequences, SequencesExt, FiniteSets

CONSTANTS
    Values,      \* the values a tree may hold: records with a type and a
                 \* rank (num) in the order of that type
    Requests,    \* [min, max, excl] requests; min and max are values or Nil
    Nil

VARIABLES
    tree,    \* the values present
    scan     \* the last Range: its request, what the callback received,
             \* and "done", "stopped" or "idle"

vars == <<tree, scan>>

NoScan == [req |-> [min |-> Nil, max |-> Nil, excl |-> FALSE, rev |-> FALSE],
           out |-> <<>>, status |-> "idle"]

Init ==
    /\ tree = {}
    /\ scan = NoScan

\* The values a request selects: of the present bounds' type, between them.
Selects(r, v) ==
    /\ r.min # Nil => v.type = r.min.type
                     /\ IF r.excl THEN r.min.num < v.num ELSE r.min.num <= v.num
    /\ r.max # Nil => v.type = r.max.type
                     /\ IF r.excl THEN v.num < r.max.num ELSE v.num <= r.max.num

\* Values of one type appear in their order, or reversed.
TypeOrdered(s, rev) ==
    \A i, j \in DOMAIN s :
        i < j /\ s[i].type = s[j].type =>
            IF rev THEN s[j].num < s[i].num ELSE s[i].num < s[j].num

Insert(v) ==
    /\ v \notin tree
    /\ tree' = tree \cup {v}
    /\ scan' = NoScan

Delete(v) ==
    /\ v \in tree
    /\ tree' = tree \ {v}
    /\ scan' = NoScan

Req(r, rev) == [min |-> r.min, max |-> r.max, excl |-> r.excl, rev |-> rev]

\* A whole scan, or one its callback stopped after the i-th value.
Scan(r, rev) ==
    \E s \in SetToSeqs({v \in tree : Selects(r, v)}) :
        /\ scan.status = "idle"
        /\ TypeOrdered(s, rev)
        /\ \/ scan' = [req |-> Req(r, rev), out |-> s, status |-> "done"]
           \/ \E i \in 1..Len(s) :
                 scan' = [req |-> Req(r, rev), out |-> SubSeq(s, 1, i), status |-> "stopped"]
        /\ UNCHANGED tree

Next ==
    \/ \E v \in Values : Insert(v) \/ Delete(v)
    \/ \E r \in Requests, rev \in BOOLEAN : Scan(r, rev)

Spec == Init /\ [][Next]_vars

=============================================================================
