------------------------------ MODULE Copying -------------------------------
(***************************************************************************)
(* What generated copies share with their originals.  A reference is named *)
(* by its path in an object: the fields to go through, and "*" from a      *)
(* slice of pointers to what they point to.                                *)
(***************************************************************************)
EXTENDS Sequences

NoFields == <<>>

\* Fields of a type: a struct, a pointer, a slice, and a slice of pointers
Val(t) == [is |-> "value", of |-> t]
Ptr(t) == [is |-> "pointer", of |-> t]
Slice(t) == [is |-> "slice", of |-> t]
Ptrs(t) == [is |-> "pointers", of |-> t]

\* What is done with a field: DeepCopyInto; new, or make, with DeepCopyInto or an assignment
\* of what is in it; make with new for every element
Into == [is |-> "value", deep |-> TRUE]
New == [is |-> "pointer", deep |-> TRUE]
NewFlat == [is |-> "pointer", deep |-> FALSE]
Make == [is |-> "slice", deep |-> TRUE]
MakeFlat == [is |-> "slice", deep |-> FALSE]
MakeNew == [is |-> "pointers", deep |-> TRUE]

\* The references that a field itself holds, and the path to what is behind them
Held(f, is) ==
    CASE is = "value" -> {} [] is = "pointers" -> {<<f>>, <<f, "*">>} [] OTHER -> {<<f>>}
Behind(f, is) == IF is = "pointers" THEN <<f, "*">> ELSE <<f>>

\* "" is any type without references; a library's type has one, which its own copy makes new
LibraryType == {<<"data">>}

\* All references in a value of a type
References(types) ==
    LET refs[t \in DOMAIN types] ==
          UNION {LET x == types[t][f]
                 IN  Held(f, x.is) \union
                     {Behind(f, x.is) \o p :
                        p \in IF x.of = "" THEN {} ELSE IF x.of \in DOMAIN types THEN refs[x.of] ELSE LibraryType} :
                 f \in DOMAIN types[t]}
    IN  refs

\* Those that a copy has in common with its original
SharedBy(types, copies) ==
    LET all == References(types)
        All(u) == IF u = "" THEN {} ELSE IF u \in DOMAIN types THEN all[u] ELSE LibraryType
        shared[t \in DOMAIN types] ==
          UNION {LET x == types[t][f]
                     assigned == f \notin DOMAIN copies[t]
                     new == IF assigned THEN {} ELSE Held(f, copies[t][f].is)
                     rest == IF assigned \/ ~copies[t][f].deep THEN All(x.of)
                             ELSE IF x.of \in DOMAIN types THEN shared[x.of] ELSE {}
                 IN  (Held(f, x.is) \ new) \union {Behind(f, x.is) \o p : p \in rest} :
                 f \in DOMAIN types[t]}
    IN  shared
=============================================================================
