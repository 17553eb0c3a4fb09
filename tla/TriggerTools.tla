---------------------------- MODULE TriggerTools ----------------------------
(***************************************************************************)
(* The tools that try out Triggers on a recorded request: triggerrun, and  *)
(* how binding-eval and cel-eval read the request.                         *)
(*                                                                         *)
(* A text is a sequence of tokens [is, n]: "h" a header, "length" and      *)
(* "Length" the header Content-Length in either spelling with value n, "b" *)
(* a character of the body, "CR" and "LF".                                 *)
(***************************************************************************)
EXTENDS Resources, FiniteSets

CONSTANTS
    Jobs,           \* what is run: ids
    JobOf(_),       \* id -> [tool, text, body, documents, action, api]
    DocumentOf(_)   \* id -> a Trigger: [decodes, name, namespace, errs, resources]

VARIABLES
    job,        \* an id
    tool,       \* [pc, at, namespace]: the process, and the one Trigger that it decodes into
    output,     \* what is printed: a sequence of resources
    created     \* what is created: a sequence of objects

toolVars == <<job, tool, output, created>>

-----------------------------------------------------------------------------
(* Reading a request *)

T(is) == [is |-> is, n |-> 0]
LF == T("LF")
CR == T("CR")

\* The places where a separator begins; strings.SplitN into two, <<text>> without separator
Occurrences(text, sep) == {i \in 1..(Len(text) - Len(sep) + 1) : SubSeq(text, i, i + Len(sep) - 1) = sep}
SplitN(text, sep) ==
    LET at == Occurrences(text, sep)
    IN  IF at = {} THEN <<text>>
        ELSE LET i == CHOOSE i \in at : \A j \in at : i <= j
             IN  <<SubSeq(text, 1, i - 1), SubSeq(text, i + Len(sep), Len(text))>>

\* http.ReadRequest and reading the body: headers up to an empty line, then as much as they
\* say.  Different lengths, or less than that, are an error.
ReadRequest(text) ==
    LET blank(i) == text[i] = LF /\ i > 1 /\ (text[i - 1] = LF \/ (i > 2 /\ text[i - 1] = CR /\ text[i - 2] = LF))
        ends == {i \in 1..Len(text) : blank(i)}
        end == CHOOSE i \in ends : \A j \in ends : i <= j
        lengths == {text[i].n : i \in {i \in 1..end : text[i].is \in {"length", "Length"}}}
        rest == SubSeq(text, end + 1, Len(text))
    IN  IF ends = {} \/ Cardinality(lengths) > 1 THEN {}
        ELSE IF lengths = {} THEN {<<>>}
        ELSE {SubSeq(rest, 1, n) : n \in lengths \intersect (0..Len(rest))}

\* Mutant: lines end in one way only
fillLengthLF(text) ==
    LET parts == SplitN(text, <<LF, LF>>)
    IN  IF Len(parts) # 2 THEN text \o <<LF, LF>>
        ELSE parts[1] \o <<LF, [is |-> "Length", n |-> Len(parts[2])]>> \o <<LF, LF>> \o parts[2]

\* The headers and the body are taken apart, and put together with a length
fillLength(text) ==
    LET byLF == SplitN(text, <<LF, LF>>)
        parts == IF Len(byLF) = 2 THEN byLF ELSE SplitN(text, <<CR, LF, CR, LF>>)
        header == parts[1]
        body == IF Len(parts) = 2 THEN parts[2] ELSE <<>>
        has == \E i \in DOMAIN header : header[i].is = "Length"
    IN  header \o (IF body # <<>> /\ ~has THEN <<LF, [is |-> "Length", n |-> Len(body)]>> ELSE <<>>)
               \o <<LF, LF>> \o body

\* readHTTP of binding-eval and cel-eval, and of triggerrun
readHTTP(name, text) == IF name = "triggerrun" THEN ReadRequest(text) ELSE ReadRequest(fillLength(text))

-----------------------------------------------------------------------------
(* triggerrun *)

ToolInit ==
    /\ job \in Jobs
    /\ tool = [pc |-> "start", at |-> 0, namespace |-> ""]
    /\ output = <<>>
    /\ created = <<>>

Job == JobOf(job)
ToolEnds(outcome) == tool' = [tool EXCEPT !.pc = outcome]

\* Request and Triggers are read.  A document that cannot be decoded is an error.
ReadFiles ==
    /\ tool.pc = "start"
    /\ IF readHTTP(Job.tool, Job.text) = {} \/ (\E d \in DOMAIN Job.documents : ~DocumentOf(Job.documents[d]).decodes)
       THEN ToolEnds("error")
       ELSE tool' = [tool EXCEPT !.pc = IF Job.tool = "triggerrun" THEN "process" ELSE "done",
                                 !.namespace = IF Job.documents = <<>> THEN ""
                                               ELSE DocumentOf(Job.documents[Len(Job.documents)]).namespace]
    /\ UNCHANGED <<job, output, created>>

\* Every entry of the list is the same object, the document that was decoded last
readTrigger == DocumentOf(Job.documents[Len(Job.documents)])

\* Interceptors, bindings and the template, which is looked up in the namespace that the
\* Trigger has from now on.  That an interceptor stops the Trigger is only logged.
processTriggerSpec ==
    /\ tool.pc = "process"
    /\ IF tool.at = Len(Job.documents) THEN ToolEnds("done")
       ELSE IF readTrigger.errs THEN ToolEnds("error")
       ELSE tool' = [tool EXCEPT !.pc = "resources", !.at = @ + 1, !.namespace = IF @ = "" THEN "default" ELSE @]
    /\ UNCHANGED <<job, output, created>>

\* Resources are printed, or created until one fails
HandleResources ==
    LET res == readTrigger.resources
        sent(i) == Create(res[i], readTrigger.name, "id", "", tool.namespace, Job.api)
        good == {n \in 0..Len(res) : \A i \in 1..n : sent(i) # {}}
        most == CHOOSE n \in good : \A k \in good : k <= n
    IN  /\ tool.pc = "resources"
        /\ output' = IF Job.action = "show" THEN output \o res ELSE output
        /\ created' = IF Job.action = "create"
                      THEN created \o [i \in 1..most |-> CHOOSE o \in sent(i) : TRUE] ELSE created
        /\ ToolEnds(IF Job.action = "create" /\ most < Len(res) THEN "error" ELSE "process")
        /\ job' = job

ToolNext == ReadFiles \/ processTriggerSpec \/ HandleResources

-----------------------------------------------------------------------------
(* Properties *)

\* binding-eval and cel-eval evaluate the whole recorded body, whichever way lines end and
\* whether or not the file has a Content-Length ("Auto compute and fill the content length
\* field if it is not present", root.go:157).  A body with an empty line is another matter
\* if lines end in CR LF, and so is a length in another spelling that is not right.
WholeBodyRead ==
    LET split == \E i \in DOMAIN Job.text : Job.text[i] = CR
        wrong == \E i \in DOMAIN Job.text : Job.text[i].is \in {"length", "Length"} /\ Job.text[i].n # Len(Job.body)
    IN  Job.tool = "eval" /\ ~wrong /\ ~(split /\ Occurrences(Job.text, <<LF, LF>>) # {}) =>
            readHTTP(Job.tool, Job.text) = {Job.body}

\* What triggerrun creates is where its template was found, and labelled with the Trigger
\* and the event whatever labels the template has (create.go:71-86, root.go:208 and 130).
CreatedWhereResolved ==
    LET own == {readTrigger.resources[k].namespace : k \in DOMAIN readTrigger.resources} \ {""}
        resolved == IF readTrigger.namespace = "" THEN "default" ELSE readTrigger.namespace
    IN  \A i \in DOMAIN created :
            /\ created[i].namespace \in own \union {resolved}
            /\ <<"triggers.tekton.dev/trigger", readTrigger.name>> \in created[i].labels
            /\ \A k, l \in created[i].labels : k[1] = l[1] => k = l

\* The tools try out what the sink would do: on the whole recorded body, and with what they
\* create where the sink would have it (root.go, create.go).
ToolsFaithful == WholeBodyRead /\ CreatedWhereResolved
=============================================================================
