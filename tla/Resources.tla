----------------------------- MODULE Resources ------------------------------
(***************************************************************************)
(* pkg/resources: how a resource of a TriggerTemplate is created.  A       *)
(* resource is [valid, labels, namespace, apiVersion, kind]; labels are    *)
(* pairs of key and value; what may fail is a set, empty for an error.     *)
(***************************************************************************)
EXTENDS Integers, Sequences

\* An entry of the discovery of an apiVersion
APIResource == [kind : STRING, name : STRING, group : STRING, version : STRING]

\* schema.ParseGroupVersion, for the texts that occur
ParseGroupVersion(s) ==
    CASE s = "v1" -> {[group |-> "", version |-> "v1"]}
      [] s = "tekton.dev/v1" -> {[group |-> "tekton.dev", version |-> "v1"]}
      [] OTHER -> {}

\* The first entry of the kind; group and version are those of the list unless it has both
findAPIResource(apiVersion, kind, api) ==
    LET entries == IF apiVersion \in DOMAIN api THEN api[apiVersion] ELSE <<>>
        found == SelectSeq(entries, LAMBDA r : r.kind = kind)
    IN  IF found = <<>> THEN {}
        ELSE IF found[1].version = "" \/ found[1].group = ""
        THEN {[found[1] EXCEPT !.group = gv.group, !.version = gv.version] : gv \in ParseGroupVersion(apiVersion)}
        ELSE {found[1]}

addLabels(labels, added) == {l \in labels : \A new \in added : new[1] # l[1]} \union added

\* What is sent to the API server
Create(res, triggerName, eventID, elName, elNamespace, api) ==
    {[labels |-> addLabels(res.labels, {<<"triggers.tekton.dev/eventlistener", elName>>,
                                        <<"triggers.tekton.dev/triggers-eventid", eventID>>,
                                        <<"triggers.tekton.dev/trigger", triggerName>>}),
      namespace |-> IF res.namespace = "" THEN elNamespace ELSE res.namespace,
      group |-> r.group, version |-> r.version, resource |-> r.name] :
        r \in IF res.valid THEN findAPIResource(res.apiVersion, res.kind, api) ELSE {}}
=============================================================================
