--------------------------- MODULE CachedObjects ----------------------------
(***************************************************************************)
(* An object in the cache of an informer, the copies that workers take of  *)
(* it with DeepCopy and change, and one of the references in it: who sees  *)
(* what through it.                                                        *)
(***************************************************************************)
EXTENDS Integers, Sequences

Beta == INSTANCE V1beta1Copies
Alpha == INSTANCE V1alpha1Copies

CONSTANTS
    CopyWorkers,    \* numbers
    Replacements    \* of the cached object by the informer

\* Per version and type, the references and the shared ones
BetaReferences == Beta!References(Beta!Types)
BetaShared == Beta!SharedBy(Beta!Types, Beta!Copies)
AlphaReferences == Alpha!References(Alpha!Types)
AlphaShared == Alpha!SharedBy(Alpha!Types, Alpha!Copies)

VARIABLES
    object,     \* version and type
    reference,  \* in it
    heap,       \* what is behind references: a generation, or minus the worker that wrote it
    cached,     \* where the cached object points
    generation, \* that the informer was given
    copies      \* worker -> where its copy points, 0 without one, and what it may expect there

copyVars == <<object, reference, heap, cached, generation, copies>>

CopyInit ==
    /\ \/ object \in {"v1beta1"} \X Beta!Roots /\ reference \in BetaReferences[object[2]]
       \/ object \in {"v1alpha1"} \X Alpha!Roots /\ reference \in AlphaReferences[object[2]]
    /\ heap = <<1>> /\ cached = 1 /\ generation = 1
    /\ copies = [w \in CopyWorkers |-> [at |-> 0, expect |-> 0]]

IsShared == reference \in (IF object[1] = "v1beta1" THEN BetaShared ELSE AlphaShared)[object[2]]

\* A worker copies what the lister gives it; the copy before is garbage
DeepCopy(w) ==
    /\ copies[w].at = 0
    /\ heap' = IF IsShared THEN heap ELSE Append(heap, heap[cached])
    /\ copies' = [copies EXCEPT ![w] = [at |-> IF IsShared THEN cached ELSE Len(heap) + 1, expect |-> generation]]
    /\ UNCHANGED <<object, reference, cached, generation>>

\* and changes it
Change(w) ==
    /\ copies[w].at # 0 /\ copies[w].expect # -w
    /\ heap' = [heap EXCEPT ![copies[w].at] = -w]
    /\ copies' = [copies EXCEPT ![w].expect = -w]
    /\ UNCHANGED <<object, reference, cached, generation>>

\* The informer gets a new object
ReplaceCached ==
    /\ generation <= Replacements
    /\ generation' = generation + 1
    /\ heap' = Append(heap, generation')
    /\ cached' = Len(heap')
    /\ UNCHANGED <<object, reference, copies>>

CopyNext == ReplaceCached \/ \E w \in CopyWorkers : DeepCopy(w) \/ Change(w)

-----------------------------------------------------------------------------
(* Properties *)

\* The state has the shape of the code's data.
CopyTypeOK == cached \in DOMAIN heap /\ \A w \in CopyWorkers : copies[w].at \in {0} \union DOMAIN heap

\* Whatever is changed in a copy of any object or list of the API, through any reference
\* there is in its type, the cache keeps what the API server sent, and every other copy what
\* it was made with: the generated copies are not older than the types they are for (the
\* _types.go files against zz_generated.deepcopy.go; "Don't modify the lister cache",
\* eventlistener.go:160).
CopiesApart ==
    /\ heap[cached] = generation
    /\ \A w \in CopyWorkers : copies[w].at # 0 => heap[copies[w].at] = copies[w].expect
=============================================================================
