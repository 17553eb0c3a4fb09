------------------------------ MODULE Template ------------------------------
(***************************************************************************)
(* pkg/template: from a Trigger's bindings and an event to the resources   *)
(* of a TriggerTemplate.  All operators are pure; where the code ranges    *)
(* over a map, the operator gives the set of the possible results.         *)
(***************************************************************************)
EXTENDS TemplateText, TLC

\* A result, or the reason why there is none
Got(v) == [ok |-> TRUE, why |-> "", value |-> v]
Fails(why) == [ok |-> FALSE, why |-> why, value |-> <<>>]

-----------------------------------------------------------------------------
(* event.go: the event.  A request has its body, as the results of each    *)
(* JSONPath expression on it, its headers and the interceptors' extensions *)

\* json.Marshal of the text of a string, without the surrounding quotes
Marshal(text) == ReplaceText(text, <<Quote>>, <<EscapedQuote>>)

\* strings.Join(v, ",")
Join(v) == FlattenSeq([i \in DOMAIN v |-> IF i = 1 THEN v[i] ELSE <<Tok("json", ",")>> \o v[i]])

newEvent(request, eventID) ==
    IF request.body = "malformed" THEN Fails("body")
    ELSE Got([body |-> IF request.body = "empty" THEN <<>> ELSE request.values,
              header |-> [k \in DOMAIN request.headers |-> Join(request.headers[k])],
              extensions |-> request.extensions,
              eventID |-> eventID])

-----------------------------------------------------------------------------
(* jsonpath.go *)

\* Expressions with or without { } around them and a . before them
relaxedJSONPathExpression(path) ==
    LET bare == IF Len(path) > 1 /\ path[1] = Tok("{", "") /\ path[Len(path)] = Tok("}", "")
                THEN SubSeq(path, 2, Len(path) - 1) ELSE path
        field == IF Len(bare) > 1 /\ bare[1] = Tok(".", "") THEN Tail(bare) ELSE bare
    IN  IF path = <<>> THEN Got(path)
        ELSE IF field = <<>> \/ \E i \in DOMAIN field : field[i].t \in {"{", "}"} THEN Fails("jsonpath")
        ELSE Got(field)

\* jsonpath.FindResults; keys that are missing are errors
FindResults(event, path) ==
    CASE path = <<>> -> Got(<<>>)
      [] path[1].t = "body" /\ path \in DOMAIN event.body -> Got(event.body[path])
      [] path[1].t = "header" /\ Len(path) = 1 /\ path[1].n \in DOMAIN event.header ->
            Got(<<[type |-> "string", text |-> event.header[path[1].n]]>>)
      [] path[1].t = "extensions" /\ path \in DOMAIN event.extensions -> Got(event.extensions[path])
      [] path = <<Tok("context", "eventID")>> -> Got(<<[type |-> "string", text |-> event.eventID]>>)
      [] OTHER -> Fails("jsonpath")

JSONOf(v) == IF v.type = "string" THEN <<Quote>> \o Marshal(v.text) \o <<Quote>> ELSE v.text

\* One string loses its quotes, any other value is written as JSON, several as an array
getResults(values) ==
    IF Len(values) = 1
    THEN IF values[1].type = "string" THEN Marshal(values[1].text) ELSE values[1].text
    ELSE <<Tok("json", "[")>> \o Join([i \in DOMAIN values |-> JSONOf(values[i])]) \o <<Tok("json", "]")>>

parseJSONPath(event, expr) ==
    LET path == relaxedJSONPathExpression(expr)
        found == IF path.ok THEN FindResults(event, path.value) ELSE path
    IN  IF ~found.ok THEN found
        ELSE IF expr = <<>> THEN Got(<<>>)
        ELSE Got(getResults(found.value))

\* textproto.CanonicalMIMEHeaderKey
CanonicalMIMEHeaderKey(n) == IF n = "x-event" THEN "X-Event" ELSE n

\* The text between each $( and its ); the headers' names become canonical for the lookup
findTektonExpressions(in) == [n \in DOMAIN SelectSeq(Pieces(in), LAMBDA e : Ends(e) # {}) |->
    LET raw == Expression(SelectSeq(Pieces(in), LAMBDA e : Ends(e) # {})[n])
    IN  [original |-> raw,
         result |-> IF raw # <<>> /\ raw[1].t = "header"
                    THEN <<Tok("header", CanonicalMIMEHeaderKey(raw[1].n))>> \o Tail(raw) ELSE raw]]

-----------------------------------------------------------------------------
(* event.go: the values of params *)

\* One expression of a param's value.  When it cannot be evaluated, the param's default
\* takes its place, not that of the whole value.
ApplyExpression(event, name, defaults, value, expr) ==
    LET found == parseJSONPath(event, expr.result)
        val == IF ~found.ok /\ name \in DOMAIN defaults THEN Got(defaults[name]) ELSE found
    IN  IF ~value.ok THEN value
        ELSE IF ~val.ok THEN val
        ELSE Got(ReplaceText(value.value, <<Open>> \o expr.original \o <<Close>>, val.value))

\* The params that have a default
DefaultsOf(specs) == FoldLeft(LAMBDA map, d : IF d.default = {} THEN map
                              ELSE (d.name :> CHOOSE t \in d.default : TRUE) @@ map, <<>>, specs)

\* One param of the bindings
ApplyParam(event, all, p) ==
    LET value == FoldLeft(LAMBDA v, e : ApplyExpression(event, p.name, all.value, v, e),
                          Got(p.value), findTektonExpressions(p.value))
    IN  IF ~all.ok THEN all ELSE IF ~value.ok THEN value
        ELSE Got((p.name :> value.value) @@ all.value)

\* The defaults, and over them the bindings' params with their expressions replaced
applyEventValuesToParams(params, request, specs, eventID) ==
    LET event == newEvent(request, eventID)
    IN  IF event.ok
        THEN FoldLeft(LAMBDA all, p : ApplyParam(event.value, all, p), Got(DefaultsOf(specs)), params)
        ELSE event

\* The keys of a Go map in some order
convertParamMapToArray(map) ==
    {[i \in DOMAIN order |-> [name |-> order[i], value |-> map[order[i]]]] :
        order \in SetToSeqs(DOMAIN map)}

ResolveParams(rt, request, eventID) ==
    applyEventValuesToParams(rt.params, request, rt.template.spec.params, eventID)

-----------------------------------------------------------------------------
(* resource.go *)

\* $( becomes $$(
escapeTektonVariables(value) == ReplaceText(value, <<Open>>, <<Dollar, Open>>)

\* The replacement of " by \" also finds the quotes that have a backslash
EscapeQuotes(value) ==
    FlattenSeq([i \in DOMAIN value |-> IF value[i] = Quote THEN <<EscapedQuote>>
                                       ELSE IF value[i] = EscapedQuote THEN <<Backslash, Quote>>
                                       ELSE <<value[i]>>])

applyParamToResourceTemplate(param, rt, oldEscape) ==
    LET value == IF oldEscape THEN EscapeQuotes(param.value) ELSE param.value
    IN  ReplaceText(rt, ParamVariable(param.name), escapeTektonVariables(value))

\* Mutant: every param is applied to the template itself
applyParamsToOriginal(params, rt, oldEscape) ==
    IF params = <<>> THEN rt ELSE applyParamToResourceTemplate(params[Len(params)], rt, oldEscape)

applyParamsToResourceTemplate(params, rt, oldEscape) ==
    FoldLeft(LAMBDA r, p : applyParamToResourceTemplate(p, r, oldEscape), rt, params)

applyUIDToResourceTemplate(rt, uid) == ReplaceText(rt, uidMatch, uid)

\* One uid for all the resources of a trigger
ResolveResources(template, params, uid) ==
    [i \in DOMAIN template.spec.resourcetemplates |->
        applyUIDToResourceTemplate(
            applyParamsToResourceTemplate(params, template.spec.resourcetemplates[i].raw,
                                          template.oldEscape), uid)]

\* Names that occur twice
Duplicates(params) == {params[i].name : i \in {i \in DOMAIN params :
                            \E j \in DOMAIN params : j < i /\ params[j].name = params[i].name}}
=============================================================================
